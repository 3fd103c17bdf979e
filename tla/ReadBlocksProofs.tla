-------------------------- MODULE ReadBlocksProofs --------------------------
(***************************************************************************)
(* read_block_by_block() for every size of the buffer and of size_t, every *)
(* file and every callback, that of `card -` included.                     *)
(***************************************************************************)
EXTENDS CardInput, FiniteSetTheorems, SequenceTheorems, TLAPS

USE DEF vars, inputVars

-----------------------------------------------------------------------------
(* The bytes in the buffer are those behind the consumed ones, up to the    *)
(* last one read, and they fit.                                             *)
Contents ==
  /\ consumed \in Nat /\ got \in Nat
  /\ buffer \in Seq(Nat) /\ available <= bufferSize
  /\ \A i \in 1 .. available : buffer[i] = consumed + i
  /\ consumed + available = got

(* Between two rounds, offset says where the valid bytes end.               *)
BetweenRounds == pc = "read" => offset = available

(* After a read: how much room there was; and a read that was short, while  *)
(* the file was open, has set a flag.                                       *)
AfterRead ==
  pc \in {"call", "shift"} =>
    /\ numRead \in 0 .. available
    /\ remaining = bufferSize - (available - numRead)

ShortReadFlagged == pc = "call" /\ open => (numRead # remaining => eof)

(* After the callback: it is credited with what is there, or with one byte  *)
(* if nothing is, and then the file is closed.                              *)
AfterCall ==
  pc = "shift" => /\ processed \in Nat \ {0}
                  /\ available > 0 => processed <= available
                  /\ available = 0 => processed = 1 /\ ~open

IInv ==
  /\ pc \in {"read", "call", "shift", "done", "crash"}
  /\ pc # "done" => bufferSize > 0
  /\ Contents /\ BetweenRounds /\ AfterRead /\ ShortReadFlagged /\ AfterCall
  /\ CrashOnlyWhenDrained

-----------------------------------------------------------------------------
(* size_t arithmetic: only a negative difference leaves the buffer.         *)
LEMMA DivMod ==
  ASSUME NEW n \in Int
  PROVE  /\ n % SizeLimit \in 0 .. SizeLimit - 1
         /\ n \div SizeLimit \in Int
         /\ n = SizeLimit * (n \div SizeLimit) + (n % SizeLimit)
<1>1. SizeLimit \in Int /\ SizeLimit > 0
  BY SizeAssumption
<1> QED
  BY <1>1

LEMMA DifferenceInRange ==
  ASSUME NEW n \in 0 .. bufferSize
  PROVE  n % SizeLimit = n
<1> DEFINE q == n \div SizeLimit
           r == n % SizeLimit
<1>1. /\ SizeLimit \in Int /\ SizeLimit > 0 /\ n \in 0 .. SizeLimit - 1
      /\ q \in Int /\ r \in 0 .. SizeLimit - 1 /\ n = SizeLimit * q + r
  BY DivMod, SizeAssumption
<1> HIDE DEF q, r
<1>2. q = 0
  BY <1>1
<1>3. r = n
  BY <1>1, <1>2
<1> QED
  BY <1>3 DEF r

LEMMA DifferenceWraps == (-1) % SizeLimit = SizeLimit - 1
<1> DEFINE q == (-1) \div SizeLimit
           r == (-1) % SizeLimit
<1>1. /\ SizeLimit \in Int /\ SizeLimit > 1
      /\ q \in Int /\ r \in 0 .. SizeLimit - 1 /\ -1 = SizeLimit * q + r
  BY DivMod, SizeAssumption
<1> HIDE DEF q, r
<1>2. q = -1
  BY <1>1
<1>3. r = SizeLimit - 1
  BY <1>1, <1>2
<1> QED
  BY <1>3 DEF r

LEMMA AvailableNat ==
  ASSUME Contents
  PROVE  available \in Nat
BY DEF Contents, available

(* The n bytes that follow those in the buffer continue them.               *)
LEMMA FilledContinues ==
  ASSUME Contents, NEW n \in Nat
  PROVE  /\ Filled(n) \in Seq(Nat)
         /\ Len(Filled(n)) = available + n
         /\ \A i \in 1 .. available + n : Filled(n)[i] = consumed + i
<1> DEFINE more == [i \in 1 .. n |-> got + i]
<1>1. more \in Seq(Nat) /\ Len(more) = n
  BY IsASeq DEF Contents
<1>2. /\ Filled(n) \in Seq(Nat)
      /\ Len(Filled(n)) = available + n
      /\ \A i \in 1 .. available + n :
           Filled(n)[i] = IF i <= available THEN buffer[i] ELSE more[i - available]
  <2> HIDE DEF more
  <2> QED
    BY <1>1, ConcatProperties DEF Contents, Filled, available, more
<1>3. ASSUME NEW i \in 1 .. available + n
      PROVE  Filled(n)[i] = consumed + i
  <2>1. CASE i <= available
    <3>1. i \in 1 .. available
      BY <2>1, AvailableNat
    <3>2. Filled(n)[i] = buffer[i]
      BY <1>2, <2>1
    <3> QED
      BY <3>1, <3>2 DEF Contents
  <2>2. CASE ~(i <= available)
    <3>1. i - available \in 1 .. n
      BY <2>2, AvailableNat
    <3>2. more[i - available] = got + (i - available)
      BY <3>1
    <3>3. Filled(n)[i] = got + (i - available)
      BY <1>2, <2>2, <3>2
    <3> QED
      BY <3>3, AvailableNat DEF Contents
  <2> QED
    BY <2>1, <2>2
<1> QED
  BY <1>2, <1>3

(* Without the first p bytes the rest still follows what is consumed.       *)
LEMMA ShiftedContinues ==
  ASSUME Contents, NEW p \in 0 .. available
  PROVE  LET rest == SubSeq(buffer, p + 1, available)
         IN  /\ rest \in Seq(Nat)
             /\ Len(rest) = available - p
             /\ \A i \in 1 .. available - p : rest[i] = consumed + p + i
<1> DEFINE rest == SubSeq(buffer, p + 1, available)
<1>1. available \in Nat
  BY AvailableNat
<1>2. \A i \in p + 1 .. available : buffer[i] \in Nat
  BY <1>1, ElementOfSeq DEF Contents, available
<1>3. /\ rest \in Seq(Nat)
      /\ Len(rest) = IF p + 1 <= available THEN available - (p + 1) + 1 ELSE 0
      /\ \A i \in 1 .. available - (p + 1) + 1 : rest[i] = buffer[(p + 1) + i - 1]
  <2> HIDE DEF available
  <2> QED
    BY <1>1, <1>2, SubSeqProperties
<1>4. Len(rest) = available - p
  BY <1>1, <1>3
<1>5. ASSUME NEW i \in 1 .. available - p
      PROVE  rest[i] = consumed + p + i
  <2>1. rest[i] = buffer[p + i] /\ p + i \in 1 .. available
    BY <1>1, <1>3
  <2>2. buffer[p + i] = consumed + (p + i)
    BY <2>1 DEF Contents
  <2> QED
    BY <1>1, <2>1, <2>2 DEF Contents
<1> QED
  BY <1>3, <1>4, <1>5

-----------------------------------------------------------------------------
LEMMA InitInv == Init => IInv
BY SizeAssumption DEF Init, IInv, Contents, BetweenRounds, AfterRead, ShortReadFlagged,
   AfterCall, CrashOnlyWhenDrained, available

LEMMA ReadInv ==
  ASSUME IInv, ReadFile
  PROVE  IInv'
<1>1. available \in Nat /\ offset = available /\ bufferSize \in Nat \ {0}
  BY AvailableNat, SizeAssumption DEF ReadFile, IInv, BetweenRounds
<1>2. PICK n \in 0 .. bufferSize :
        /\ IF open THEN fread(n, bufferSize - offset) ELSE n = 0 /\ UNCHANGED <<got, eof>>
        /\ numRead' = n
        /\ buffer' = Filled(n)
  BY DEF ReadFile
<1>3. /\ n \in Nat /\ n <= bufferSize - available /\ got' = got + n
      /\ open => (n # bufferSize - available => eof')
  <2>1. CASE open
    <3>1. fread(n, bufferSize - available)
      BY <1>1, <1>2, <2>1
    <3>2. n <= bufferSize - available /\ got' = got + n
      BY <3>1 DEF fread
    <3>3. n < bufferSize - available => eof'
      BY <3>1 DEF fread
    <3> QED
      BY <1>1, <3>2, <3>3
  <2>2. CASE ~open
    BY <1>1, <1>2, <2>2 DEF IInv, Contents
  <2> QED
    BY <2>1, <2>2
<1>4. /\ buffer' \in Seq(Nat) /\ available' = available + n
      /\ \A i \in 1 .. available' : buffer'[i] = consumed' + i
  BY <1>2, <1>3, FilledContinues DEF IInv, ReadFile, available
<1>5. Contents'
  BY <1>1, <1>3, <1>4 DEF IInv, Contents, ReadFile
<1>6. AfterRead' /\ ShortReadFlagged'
  BY <1>1, <1>2, <1>3, <1>4 DEF AfterRead, ShortReadFlagged, ReadFile
<1> QED
  BY <1>1, <1>5, <1>6 DEF IInv, ReadFile, BetweenRounds, AfterCall, CrashOnlyWhenDrained

LEMMA CallInv ==
  ASSUME IInv, RunCallBack
  PROVE  IInv'
<1>1. available \in Nat /\ available' = available /\ bufferSize \in Nat \ {0}
  BY AvailableNat, SizeAssumption DEF RunCallBack, IInv, available
<1>2. PICK answer \in 0 .. bufferSize + 1 : processed' = clamp(answer)
  BY DEF RunCallBack
<1>3. /\ processed' \in Nat \ {0}
      /\ available > 0 => processed' <= available
      /\ available = 0 => processed' = 1
  BY <1>1, <1>2 DEF clamp, Least, Greatest
<1>4. available = 0 => ~open'
  <2>1. available = 0 => numRead # remaining
    BY <1>1 DEF IInv, AfterRead, RunCallBack
  <2> QED
    BY <2>1 DEF IInv, ShortReadFlagged, RunCallBack
<1>5. AfterCall'
  BY <1>1, <1>3, <1>4 DEF AfterCall
<1>6. Contents' /\ AfterRead'
  BY <1>1 DEF IInv, Contents, AfterRead, RunCallBack, available
<1> QED
  BY <1>1, <1>5, <1>6 DEF IInv, RunCallBack, BetweenRounds, ShortReadFlagged,
     CrashOnlyWhenDrained

LEMMA ShiftInv ==
  ASSUME IInv, ShiftBuffer
  PROVE  IInv'
<1>1. available \in Nat /\ bufferSize \in Nat \ {0} /\ available <= bufferSize
  BY AvailableNat, SizeAssumption DEF ShiftBuffer, IInv, Contents
<1>2. processed \in Nat \ {0}
  BY DEF ShiftBuffer, IInv, AfterCall
<1>3. CASE available = 0
  <2>1. processed = 1 /\ ~open
    BY <1>3 DEF ShiftBuffer, IInv, AfterCall
  <2>2. (available - processed) % SizeLimit > bufferSize
    BY <1>1, <1>3, <2>1, DifferenceWraps, SizeAssumption
  <2>3. pc' = "crash" /\ UNCHANGED <<buffer, consumed, got, open>>
    BY <2>2 DEF ShiftBuffer
  <2> QED
    BY <1>1, <1>3, <2>1, <2>3 DEF IInv, Contents, BetweenRounds, AfterRead, ShortReadFlagged,
       AfterCall, CrashOnlyWhenDrained, available
<1>4. CASE available > 0
  <2>1. processed \in 0 .. available
    BY <1>1, <1>2, <1>4 DEF ShiftBuffer, IInv, AfterCall
  <2>2. (available - processed) % SizeLimit = available - processed
    BY <1>1, <2>1, DifferenceInRange
  <2>3. /\ offset' = available - processed /\ pc' = "read"
        /\ buffer' = SubSeq(buffer, processed + 1, available)
        /\ consumed' = consumed + processed /\ got' = got
    BY <1>1, <1>4, <2>1, <2>2, SizeAssumption DEF ShiftBuffer
  <2>4. /\ buffer' \in Seq(Nat) /\ available' = available - processed
        /\ \A i \in 1 .. available' : buffer'[i] = consumed' + i
    BY <2>1, <2>3, ShiftedContinues DEF IInv, available
  <2>5. Contents'
    BY <1>1, <2>1, <2>3, <2>4 DEF IInv, Contents
  <2> QED
    BY <1>1, <2>3, <2>4, <2>5 DEF IInv, BetweenRounds, AfterRead, ShortReadFlagged, AfterCall,
       CrashOnlyWhenDrained
<1> QED
  BY <1>1, <1>3, <1>4

LEMMA NextInv ==
  ASSUME IInv, [Next]_vars
  PROVE  IInv'
<1>1. CASE UNCHANGED vars
  BY <1>1 DEF IInv, Contents, BetweenRounds, AfterRead, ShortReadFlagged, AfterCall,
     CrashOnlyWhenDrained, available
<1> QED
  BY <1>1, ReadInv, CallInv, ShiftInv DEF Next, Over

(* The inductive invariant of the loop.                                     *)
THEOREM LoopInvariance == Spec => []IInv
BY InitInv, NextInv, PTL DEF Spec

-----------------------------------------------------------------------------
(* `card -` drives the loop and never does what the loop could not do: its  *)
(* callback is one of those the loop allows for.                            *)
THEOREM CardDrivesLoop == InputSpec => Spec
<1>1. InputInit => Init
  BY DEF InputInit
<1>2. [InputNext]_<<vars, inputVars>> => [Next]_vars
  BY DEF InputNext, GatherSpan, AnyCallBack, Loop, Next
<1> QED
  BY <1>1, <1>2, PTL DEF InputSpec, Spec

(* Whatever the callback answers and wherever reads come short or fail, it  *)
(* sees the bytes of the file in place, none skipped or repeated, and the   *)
(* buffer is not filled too far (myio.hh:87-129).                           *)
THEOREM SpansContinue == InputSpec => []SpanContinues
<1>1. IInv => SpanContinues
  <2> SUFFICES ASSUME IInv PROVE buffer = [i \in 1 .. available |-> consumed + i]
    BY DEF IInv, Contents, SpanContinues
  <2>1. buffer \in [1 .. available -> Nat]
    BY LenProperties DEF IInv, Contents, available
  <2> QED
    BY <2>1 DEF IInv, Contents
<1> QED
  BY <1>1, LoopInvariance, CardDrivesLoop, PTL

(* memmove() runs off the buffer only when all that was read is processed   *)
(* and the file is closed (myio.hh:96-99, 110).                             *)
THEOREM WrapsOnlyWhenDrained == InputSpec => []CrashOnlyWhenDrained
<1>1. IInv => CrashOnlyWhenDrained
  BY DEF IInv
<1> QED
  BY <1>1, LoopInvariance, CardDrivesLoop, PTL

-----------------------------------------------------------------------------
(* The types.                                                               *)

(* No more is read than the file has.                                       *)
InFile == fileLength \in Nat /\ got <= fileLength

LEMMA NextInFile ==
  ASSUME IInv, InFile, [Next]_vars
  PROVE  InFile'
<1>1. CASE ReadFile
  <2>1. fileLength' = fileLength /\ (got' = got \/ \E n \in 0 .. bufferSize : fread(n, bufferSize - offset))
    BY <1>1 DEF ReadFile
  <2> QED
    BY <2>1, SizeAssumption DEF InFile, IInv, Contents, fread
<1>2. CASE UNCHANGED <<fileLength, got>>
  BY <1>2 DEF InFile
<1> QED
  BY <1>1, <1>2 DEF Next, RunCallBack, ShiftBuffer, Over

(* The buffer holds bytes of the file.                                      *)
LEMMA BytesOfFile ==
  ASSUME Contents, InFile
  PROVE  buffer \in Seq(1 .. fileLength) /\ consumed \in 0 .. fileLength
<1>1. available \in Nat /\ consumed \in Nat /\ got \in Nat /\ consumed + available = got
  BY AvailableNat DEF Contents
<1>2. got <= fileLength /\ fileLength \in Nat
  BY DEF InFile
<1>3. \A i \in 1 .. available : buffer[i] \in 1 .. fileLength
  BY <1>1, <1>2 DEF Contents
<1>4. buffer \in [1 .. available -> 1 .. fileLength]
  BY <1>3, LenProperties DEF Contents, available
<1> QED
  BY <1>1, <1>2, <1>4, SeqDef

(* The variables that are not tied to the contents of the buffer.           *)
OthersTyped ==
  /\ fileLength \in 0 .. MaxFile
  /\ offset \in 0 .. SizeLimit - 1
  /\ remaining \in 0 .. bufferSize /\ numRead \in 0 .. remaining
  /\ open \in BOOLEAN /\ eof \in BOOLEAN
  /\ processed \in 0 .. bufferSize + 1

LEMMA NextOthersTyped ==
  ASSUME IInv, OthersTyped, [Next]_vars
  PROVE  OthersTyped'
<1>1. available \in Nat /\ available <= bufferSize /\ bufferSize \in Nat
  BY AvailableNat, SizeAssumption DEF IInv, Contents
<1>2. CASE ReadFile
  <2>1. offset = available
    BY <1>2 DEF ReadFile, IInv, BetweenRounds
  <2>2. PICK n \in 0 .. bufferSize :
          /\ IF open THEN fread(n, bufferSize - offset) ELSE n = 0 /\ UNCHANGED <<got, eof>>
          /\ numRead' = n
    BY <1>2 DEF ReadFile
  <2>3. n <= bufferSize - offset /\ eof' \in BOOLEAN
    <3>1. CASE open
      BY <2>2, <3>1 DEF fread
    <3>2. CASE ~open
      BY <1>1, <2>1, <2>2, <3>2 DEF OthersTyped
    <3> QED
      BY <3>1, <3>2
  <2>4. remaining' = bufferSize - available /\ UNCHANGED <<fileLength, offset, open, processed>>
    BY <1>2, <2>1 DEF ReadFile
  <2>5. remaining' \in 0 .. bufferSize /\ numRead' \in 0 .. remaining'
    BY <1>1, <2>1, <2>2, <2>3, <2>4
  <2> QED
    BY <2>3, <2>4, <2>5 DEF OthersTyped
<1>3. CASE RunCallBack
  <2>1. PICK answer \in 0 .. bufferSize + 1 : processed' = clamp(answer)
    BY <1>3 DEF RunCallBack
  <2>2. processed' \in 0 .. bufferSize + 1
    BY <1>1, <2>1 DEF clamp, Least, Greatest
  <2> QED
    BY <1>3, <2>2 DEF RunCallBack, OthersTyped
<1>4. CASE ShiftBuffer
  <2>1. available - processed \in Int
    BY <1>1 DEF OthersTyped
  <2>2. offset' \in 0 .. SizeLimit - 1
    BY <1>4, <2>1, DivMod DEF ShiftBuffer
  <2> QED
    BY <1>4, <2>2 DEF ShiftBuffer, OthersTyped
<1>5. CASE UNCHANGED vars
  BY <1>5 DEF OthersTyped
<1> QED
  BY <1>2, <1>3, <1>4, <1>5 DEF Next, Over

(* Every variable keeps its type: no byte but those of the file is in the   *)
(* buffer, offset stays below 2^w, and no answer counts for more than one   *)
(* byte beyond the buffer.                                                  *)
THEOREM TypeCorrect == InputSpec => []TypeOK
<1>1. ASSUME Init PROVE InFile /\ OthersTyped
  <2>1. fileLength \in Nat /\ got <= fileLength
    BY <1>1, SizeAssumption DEF Init
  <2>2. /\ 0 \in 0 .. SizeLimit - 1 /\ 0 \in 0 .. bufferSize /\ 0 \in 0 .. 0
        /\ 0 \in 0 .. bufferSize + 1
    BY SizeAssumption
  <2> QED
    BY <1>1, <2>1, <2>2 DEF Init, InFile, OthersTyped
<1>2. IInv /\ InFile /\ OthersTyped => TypeOK
  BY BytesOfFile DEF IInv, Contents, InFile, OthersTyped, TypeOK
<1> QED
  BY <1>1, <1>2, NextInFile, NextOthersTyped, LoopInvariance, CardDrivesLoop, PTL DEF Spec

-----------------------------------------------------------------------------
(* That the loop ends, as far as safety says it: the rounds run down.       *)

(* What the loop has left, a round being three steps: a round for each byte *)
(* not processed, and the rest of this one.                                 *)
Turn == CASE pc = "read" -> 3 [] pc = "call" -> 2 [] pc = "shift" -> 1 [] OTHER -> 0
StepsLeft == 3 * (fileLength - consumed) + Turn

LEMMA StepsLeftNat ==
  ASSUME IInv, InFile
  PROVE  StepsLeft \in Nat /\ fileLength - consumed \in Nat /\ Turn \in 0 .. 3
<1>1. consumed <= got
  BY AvailableNat DEF IInv, Contents
<1>2. fileLength - consumed \in Nat
  BY <1>1 DEF IInv, Contents, InFile
<1> QED
  BY <1>2 DEF StepsLeft, Turn

LEMMA RoundsRunDown ==
  ASSUME IInv, InFile, IInv', InFile', ReadFile \/ RunCallBack \/ ShiftBuffer
  PROVE  StepsLeft' < StepsLeft
<1>0. /\ fileLength - consumed \in Nat /\ fileLength' - consumed' \in Nat
      /\ consumed \in Nat /\ fileLength \in Nat /\ fileLength' = fileLength
  <2>1. consumed' \in Nat /\ consumed' <= got'
    <3>1. available' \in Nat
      BY LenProperties DEF IInv, Contents, available
    <3>2. consumed' \in Nat /\ consumed' + available' = got'
      BY DEF IInv, Contents
    <3> QED
      BY <3>1, <3>2
  <2>2. fileLength' \in Nat /\ got' \in Nat /\ got' <= fileLength'
    BY DEF IInv, Contents, InFile
  <2>3. fileLength' - consumed' \in Nat
    <3>1. \A a, b, c \in Nat : a <= b /\ b <= c => c - a \in Nat
      OBVIOUS
    <3> QED
      BY <2>1, <2>2, <3>1
  <2>4. consumed \in Nat /\ fileLength \in Nat
    BY DEF IInv, Contents, InFile
  <2>5. fileLength' = fileLength
    BY DEF ReadFile, RunCallBack, ShiftBuffer
  <2> QED
    BY <2>3, <2>4, <2>5, StepsLeftNat
<1>1. CASE ReadFile \/ RunCallBack
  <2>1. consumed' = consumed /\ Turn' = Turn - 1 /\ Turn \in 2 .. 3
    BY <1>1 DEF ReadFile, RunCallBack, Turn
  <2> QED
    BY <1>0, <2>1 DEF StepsLeft
<1>2. CASE ShiftBuffer
  <2>1. Turn = 1 /\ processed \in Nat \ {0}
    BY <1>2 DEF ShiftBuffer, Turn, IInv, AfterCall
  <2>2. CASE pc' = "crash"
    <3>1. (available - processed) % SizeLimit > bufferSize
      <4>1. pc' # IF available > 0 THEN "read" ELSE "done"
        BY <2>2
      <4> QED
        BY <1>2, <4>1 DEF ShiftBuffer
    <3>2. consumed' = consumed /\ Turn' = 0
      BY <1>2, <2>2, <3>1 DEF ShiftBuffer, Turn
    <3> QED
      BY <1>0, <2>1, <3>2 DEF StepsLeft
  <2>3. CASE pc' # "crash"
    <3>1. consumed' = consumed + processed
      BY <1>2, <2>3 DEF ShiftBuffer
    <3>2. Turn' \in 0 .. 3
      BY DEF Turn
    <3>3. 3 * (fileLength' - consumed') = 3 * (fileLength - consumed) - 3 * processed
      BY <1>0, <2>1, <3>1
    <3>4. Turn' < 1 + 3 * processed
      <4>1. pc' \in {"read", "done"}
        BY <1>2, <2>3 DEF ShiftBuffer
      <4>2. Turn' \in {0, 3}
        BY <4>1 DEF Turn
      <4> QED
        BY <2>1, <4>2
    <3> QED
      BY <1>0, <2>1, <3>2, <3>3, <3>4 DEF StepsLeft
  <2> QED
    BY <2>2, <2>3
<1> QED
  BY <1>1, <1>2

(* Whatever the callback answers, every step of the loop leaves fewer to    *)
(* come, and there are never more than three for each byte of the file and  *)
(* three: at least one byte is processed in each round (myio.hh:87-129).    *)
THEOREM LoopRunsDown ==
  InputSpec => /\ [](StepsLeft \in 0 .. 3 * fileLength + 3)
               /\ [][StepsLeft' < StepsLeft]_vars
<1>1. Init => InFile
  BY SizeAssumption DEF Init, InFile
<1>2. IInv /\ InFile => StepsLeft \in 0 .. 3 * fileLength + 3
  BY StepsLeftNat DEF StepsLeft, IInv, Contents, InFile
<1>3. IInv /\ InFile /\ IInv' /\ InFile' /\ [Next]_vars => [StepsLeft' < StepsLeft]_vars
  BY RoundsRunDown DEF Next, Over
<1> QED
  BY <1>1, <1>2, <1>3, NextInFile, LoopInvariance, CardDrivesLoop, PTL DEF Spec

-----------------------------------------------------------------------------
(* What `card -` gathers. *)

(* How often a byte was shown, and how often it is to be shown. *)
Shown(i) == Cardinality({k \in DOMAIN gathered : gathered[k] = i})
Due(i) == IF i <= Half THEN 1 ELSE 2

(* The bytes up to here will not be shown again; those up to there were     *)
(* shown before.                                                            *)
Settled == IF pc = "shift" /\ available > 0 THEN consumed + processed ELSE consumed
ShownTo == IF pc = "call" THEN got - numRead ELSE got

(* Between the two there is half a buffer, unless nothing has been read yet *)
(* or nothing more will be.                                                 *)
ShownInv ==
  callback = "main" =>
    /\ gathered \in Seq(Nat)
    /\ \A i \in Nat \ {0} :
         Shown(i) = IF i <= Settled THEN Due(i) ELSE IF i <= ShownTo THEN 1 ELSE 0
    /\ ShownTo - Settled \in 0 .. Half
    /\ ShownTo > Settled => Settled >= Half
    /\ \/ ShownTo - Settled = Half
       \/ Settled = 0 /\ ShownTo = 0
       \/ IF pc = "call" THEN numRead = 0 ELSE ~open

(* A span adds one to the count of each byte in it. *)
LEMMA SpanCounted ==
  ASSUME Contents, gathered \in Seq(Nat), NEW i \in Nat
  PROVE  Cardinality({k \in DOMAIN (gathered \o buffer) : (gathered \o buffer)[k] = i})
           = Shown(i) + (IF consumed < i /\ i <= got THEN 1 ELSE 0)
<1> DEFINE L == Len(gathered)
           before == {k \in DOMAIN gathered : gathered[k] = i}
           after == {k \in DOMAIN (gathered \o buffer) : (gathered \o buffer)[k] = i}
<1>1. /\ L \in Nat /\ DOMAIN gathered = 1 .. L /\ available \in Nat
      /\ consumed \in Nat /\ consumed + available = got
      /\ \A j \in 1 .. available : buffer[j] = consumed + j
  BY LenProperties, AvailableNat DEF Contents
<1>2. /\ DOMAIN (gathered \o buffer) = 1 .. L + available
      /\ \A k \in 1 .. L + available :
           (gathered \o buffer)[k] = IF k <= L THEN gathered[k] ELSE buffer[k - L]
  BY ConcatProperties, LenProperties DEF Contents, available
<1>3. \A k \in 1 .. L + available :
        k \in after <=> k \in before \/ (i > consumed /\ k = L + (i - consumed))
  <2> TAKE k \in 1 .. L + available
  <2>1. CASE k <= L
    <3>1. k \in 1 .. L /\ (gathered \o buffer)[k] = gathered[k]
      BY <1>1, <1>2, <2>1
    <3>2. k \in after <=> k \in before
      BY <1>1, <1>2, <3>1
    <3>3. i > consumed => k # L + (i - consumed)
      BY <1>1, <2>1
    <3> HIDE DEF after, before
    <3> QED
      BY <3>2, <3>3
  <2>2. CASE ~(k <= L)
    <3>1. k - L \in 1 .. available
      BY <1>1, <2>2
    <3>2. (gathered \o buffer)[k] = consumed + (k - L)
      BY <1>1, <1>2, <2>2, <3>1
    <3>3. k \in after <=> k = L + (i - consumed)
      <4>1. consumed + (k - L) = i <=> k = L + (i - consumed)
        BY <1>1
      <4> QED
        BY <1>2, <3>2, <4>1
    <3>4. k = L + (i - consumed) => i > consumed
      BY <1>1, <3>1
    <3>5. k \notin before
      BY <1>1, <2>2
    <3> HIDE DEF after, before
    <3> QED
      BY <3>3, <3>4, <3>5
  <2> QED
    BY <2>1, <2>2
<1>4. after \subseteq 1 .. L + available /\ before \subseteq 1 .. L /\ 1 .. L \subseteq 1 .. L + available
  BY <1>1, <1>2
<1>5. IsFiniteSet(before)
  <2>1. IsFiniteSet(1 .. L)
    BY <1>1, FS_Interval
  <2> HIDE DEF before, L
  <2> QED
    BY <1>4, <2>1, FS_Subset
<1>6. CASE consumed < i /\ i <= got
  <2>1. L + (i - consumed) \in 1 .. L + available /\ L + (i - consumed) \notin 1 .. L
    BY <1>1, <1>6
  <2>2. after = before \cup {L + (i - consumed)} /\ L + (i - consumed) \notin before
    <3> HIDE DEF after, before
    <3> QED
      BY <1>3, <1>4, <1>6, <2>1
  <2>3. Cardinality(after) = Cardinality(before) + 1
    <3> HIDE DEF after, before
    <3> QED
      BY <1>5, <2>2, FS_AddElement
  <2> QED
    BY <1>6, <2>3 DEF Shown
<1>7. CASE ~(consumed < i /\ i <= got)
  <2>1. after = before
    <3>1. ASSUME i > consumed PROVE L + (i - consumed) \notin 1 .. L + available
      BY <1>1, <1>7, <3>1
    <3> HIDE DEF after, before
    <3> QED
      BY <1>3, <1>4, <3>1
  <2>2. Cardinality(before) \in Nat
    BY <1>5, FS_CardinalityType
  <2>3. Shown(i) = Cardinality(before)
    BY DEF Shown
  <2>4. Cardinality(after) = Shown(i) + 0
    <3> HIDE DEF after, before
    <3> QED
      BY <2>1, <2>2, <2>3
  <2> QED
    BY <1>7, <2>4
<1> QED
  BY <1>6, <1>7

LEMMA ReadShownInv ==
  ASSUME IInv, ShownInv, ReadFile, UNCHANGED inputVars
  PROVE  ShownInv'
<1> SUFFICES ASSUME callback = "main" PROVE ShownInv'
  BY DEF ShownInv
<1>1. /\ available \in Nat /\ offset = available /\ bufferSize \in Nat \ {0}
      /\ consumed \in Nat /\ got \in Nat /\ consumed + available = got
  BY AvailableNat, SizeAssumption DEF ReadFile, IInv, BetweenRounds, Contents
<1>2. PICK n \in 0 .. bufferSize :
        /\ IF open THEN fread(n, bufferSize - offset) ELSE n = 0 /\ UNCHANGED <<got, eof>>
        /\ numRead' = n
  BY DEF ReadFile
<1>3. n \in Nat /\ got' = got + n /\ (~open => n = 0)
  BY <1>1, <1>2 DEF fread
<1>4. /\ Settled = consumed /\ Settled' = consumed /\ ShownTo = got /\ ShownTo' = got
      /\ pc = "read" /\ pc' = "call"
  BY <1>1, <1>2, <1>3 DEF Settled, ShownTo, ReadFile
<1>5. \A i : Shown(i)' = Shown(i)
  BY DEF Shown
<1> QED
  BY <1>1, <1>2, <1>3, <1>4, <1>5 DEF ShownInv

(* One call of main()'s callback: what was shown before is settled, and of  *)
(* the new bytes those in the first half of the file.                       *)
LEMMA GatherShownInv ==
  ASSUME bufferSize % 2 = 0, IInv, IInv', ShownInv, GatherSpan
  PROVE  ShownInv'
<1>1. /\ available \in Nat /\ available' = available /\ available <= bufferSize
      /\ bufferSize \in Nat \ {0}
      /\ consumed \in Nat /\ got \in Nat /\ consumed + available = got
      /\ UNCHANGED <<consumed, got, buffer, numRead>>
      /\ pc = "call" /\ pc' = "shift" /\ callback = "main" /\ callback' = "main"
  BY AvailableNat, SizeAssumption DEF GatherSpan, RunCallBack, IInv, Contents, available
<1>2. Half \in Nat /\ Half > 0 /\ bufferSize = 2 * Half
  BY <1>1 DEF Half
<1>3. /\ numRead \in 0 .. available /\ remaining = bufferSize - (available - numRead)
      /\ Settled = consumed /\ ShownTo = got - numRead /\ ShownTo' = got
  BY <1>1 DEF IInv, AfterRead, Settled, ShownTo
<1>4. /\ available > 0 => processed' = (IF available < Half THEN available ELSE Half)
      /\ available = 0 => processed' = 1
  BY <1>1, <1>2 DEF GatherSpan, clamp, Least, Greatest
<1>5. Settled' = IF available > 0 THEN consumed + processed' ELSE consumed
  BY <1>1 DEF Settled
<1>6. open' => available = bufferSize
  <2>1. open' => open /\ ~(numRead # remaining /\ eof)
    BY DEF GatherSpan, RunCallBack
  <2>2. open' => numRead = remaining
    BY <1>1, <2>1 DEF IInv, ShortReadFlagged
  <2> QED
    BY <1>1, <1>3, <2>2
<1>7. gathered' = gathered \o buffer /\ gathered' \in Seq(Nat)
  BY <1>1, ConcatProperties DEF GatherSpan, ShownInv, IInv, Contents
<1>8. ASSUME NEW i \in Nat \ {0}
      PROVE  Shown(i)' = IF i <= Settled' THEN Due(i) ELSE IF i <= ShownTo' THEN 1 ELSE 0
  <2>1. Shown(i)' = Shown(i) + (IF consumed < i /\ i <= got THEN 1 ELSE 0)
    <3>1. Shown(i)' = Cardinality({k \in DOMAIN (gathered \o buffer) : (gathered \o buffer)[k] = i})
      BY <1>7 DEF Shown
    <3> QED
      BY <1>1, <3>1, SpanCounted DEF IInv, ShownInv
  <2>2. Shown(i) = IF i <= consumed THEN Due(i) ELSE IF i <= ShownTo THEN 1 ELSE 0
    BY <1>1, <1>3 DEF ShownInv
  <2>3. Due(i) = IF i <= Half THEN 1 ELSE 2
    BY DEF Due
  <2>4. /\ ShownTo - consumed \in 0 .. Half
        /\ ShownTo > consumed => consumed >= Half
        /\ \/ ShownTo - consumed = Half
           \/ consumed = 0 /\ ShownTo = 0
           \/ numRead = 0
    BY <1>1, <1>3 DEF ShownInv
  <2>5. CASE i <= consumed
    BY <1>1, <1>2, <1>3, <1>4, <1>5, <2>1, <2>2, <2>3, <2>5
  <2>6. CASE consumed < i /\ i <= ShownTo
    BY <1>1, <1>2, <1>3, <1>4, <1>5, <2>1, <2>2, <2>3, <2>4, <2>6
  <2>7. CASE ShownTo < i /\ i <= got
    BY <1>1, <1>2, <1>3, <1>4, <1>5, <2>1, <2>2, <2>3, <2>4, <2>7
  <2>8. CASE got < i
    BY <1>1, <1>2, <1>3, <1>4, <1>5, <2>1, <2>2, <2>3, <2>4, <2>8
  <2> QED
    BY <1>1, <1>3, <2>5, <2>6, <2>7, <2>8
<1>9. ShownTo' - Settled' \in 0 .. Half /\ (ShownTo' > Settled' => Settled' >= Half)
  BY <1>1, <1>2, <1>3, <1>4, <1>5
<1>10. ShownTo' - Settled' = Half \/ ~open'
  BY <1>1, <1>2, <1>3, <1>4, <1>5, <1>6
<1> QED
  BY <1>1, <1>7, <1>8, <1>9, <1>10 DEF ShownInv, Due, Half

(* The shift moves what is settled into what is consumed. *)
LEMMA ShiftShownInv ==
  ASSUME IInv, ShownInv, ShiftBuffer, UNCHANGED inputVars
  PROVE  ShownInv'
<1> SUFFICES ASSUME callback = "main" PROVE ShownInv'
  BY DEF ShownInv
<1>1. /\ available \in Nat /\ bufferSize \in Nat \ {0} /\ available <= bufferSize
      /\ pc = "shift" /\ UNCHANGED <<got, open>> /\ consumed \in Nat
  BY AvailableNat, SizeAssumption DEF ShiftBuffer, IInv, Contents
<1>2. Settled' = Settled /\ ShownTo' = ShownTo /\ pc' \in {"read", "crash"}
  <2>1. CASE available = 0
    <3>1. processed = 1
      BY <1>1, <2>1 DEF IInv, AfterCall
    <3>2. (available - processed) % SizeLimit > bufferSize
      BY <1>1, <2>1, <3>1, DifferenceWraps, SizeAssumption
    <3>3. pc' = "crash" /\ consumed' = consumed
      BY <3>2 DEF ShiftBuffer
    <3> QED
      BY <1>1, <2>1, <3>3 DEF Settled, ShownTo
  <2>2. CASE available > 0
    <3>1. processed \in 0 .. available
      BY <1>1, <2>2 DEF IInv, AfterCall
    <3>2. (available - processed) % SizeLimit = available - processed
      BY <1>1, <3>1, DifferenceInRange
    <3>3. pc' = "read" /\ consumed' = consumed + processed
      BY <1>1, <2>2, <3>1, <3>2, SizeAssumption DEF ShiftBuffer
    <3> QED
      BY <1>1, <2>2, <3>3 DEF Settled, ShownTo
  <2> QED
    BY <1>1, <2>1, <2>2
<1>3. \A i : Shown(i)' = Shown(i)
  BY DEF Shown
<1> QED
  BY <1>1, <1>2, <1>3 DEF ShownInv, Due

LEMMA NextShownInv ==
  ASSUME bufferSize % 2 = 0, IInv, IInv', ShownInv, [InputNext]_<<vars, inputVars>>
  PROVE  ShownInv'
<1>1. CASE AnyCallBack
  BY <1>1 DEF AnyCallBack, ShownInv
<1>2. CASE UNCHANGED <<vars, inputVars>>
  BY <1>2 DEF ShownInv, Shown, Settled, ShownTo, available
<1> QED
  BY <1>1, <1>2, ReadShownInv, GatherShownInv, ShiftShownInv DEF InputNext, Loop, Over

(* With a buffer of even size, like the 20 of main(), `card -` has gathered *)
(* every byte behind the first half buffer twice when the loop ends, and    *)
(* the others once, wherever the file ends or a read fails                  *)
(* (card.cc:135-146).                                                       *)
THEOREM EveryByteShownTwice ==
  ASSUME bufferSize % 2 = 0
  PROVE  InputSpec => []ShownTwice
<1>1. InputInit => ShownInv
  <2> SUFFICES ASSUME InputInit, callback = "main" PROVE ShownInv
    BY DEF ShownInv
  <2>1. /\ gathered = <<>> /\ consumed = 0 /\ got = 0 /\ pc \in {"done", "read"}
    BY DEF InputInit, Init
  <2>2. \A i : Shown(i) = 0
    BY <2>1, FS_EmptySet DEF Shown
  <2>3. Half \in Nat
    BY SizeAssumption DEF Half
  <2>4. Settled = 0 /\ ShownTo = 0
    BY <2>1 DEF Settled, ShownTo
  <2> QED
    BY <2>1, <2>2, <2>3, <2>4 DEF ShownInv
<1>2. IInv /\ IInv' /\ ShownInv /\ [InputNext]_<<vars, inputVars>> => ShownInv'
  BY NextShownInv
<1>3. IInv /\ ShownInv => ShownTwice
  <2> SUFFICES ASSUME IInv, ShownInv, callback = "main", pc = "crash", NEW i \in 1 .. got
               PROVE  Shown(i) = IF i <= Half THEN 1 ELSE 2
    BY DEF ShownTwice, Shown
  <2>1. consumed = got /\ got \in Nat
    BY DEF IInv, CrashOnlyWhenDrained, Contents
  <2>2. Settled = got /\ i \in Nat \ {0} /\ i <= got
    BY <2>1 DEF Settled
  <2> QED
    BY <2>2 DEF ShownInv, Due
<1> QED
  BY <1>1, <1>2, <1>3, LoopInvariance, CardDrivesLoop, PTL DEF InputSpec

=============================================================================
