---------------------------- MODULE ParsecProofs ----------------------------
(***************************************************************************)
(* The Errors of parsec.cc for every set of parsers, however deep, every   *)
(* set of characters and sources of any length.                            *)
(***************************************************************************)
EXTENDS Parsec, Integers, SequenceTheorems, FiniteSetTheorems, WellFoundedInduction, TLAPS

(* Only an OrParser calls another parser. *)
Frames ==
  {f \in [parser : Parsers, at : 0 .. Len(source), tried : {"none", "left", "right"}] :
     f.tried # "none" => f.parser.kind = "or"}

(* The calls of OrParser that run m_right: the leftResult of each still     *)
(* holds its Error.                                                         *)
Waiting(fs) == {i \in 1 .. Len(fs) : fs[i].tried = "right"}

(* The Error that is in the result, where there is one to look at. *)
InResult ==
  IF op \in {"return", "done", "used", "caught"} /\ result.hasError THEN 1 ELSE 0

Stack ==
  /\ frames \in Seq(Frames)
  /\ result \in [hasError : BOOLEAN, item : Chars \cup {NoItem}, at : 0 .. Len(source)]
  /\ op = "call" => Last(frames).tried = "none"

(* The inductive invariant: every Error has its owner. *)
IInv ==
  /\ TypeOK /\ Stack
  /\ errors = Cardinality(Waiting(frames)) + InResult
  /\ ~errorCopied

-----------------------------------------------------------------------------
(* What calling and returning do to the calls that wait. *)

LEMMA WaitingFinite ==
  ASSUME NEW S, NEW fs \in Seq(S)
  PROVE  IsFiniteSet(Waiting(fs)) /\ Cardinality(Waiting(fs)) \in Nat
<1>1. Len(fs) \in Nat
  BY LenProperties
<1>2. IsFiniteSet(1 .. Len(fs))
  BY <1>1, FS_Interval
<1>3. Waiting(fs) \in SUBSET (1 .. Len(fs))
  BY DEF Waiting
<1> HIDE DEF Waiting
<1>4. IsFiniteSet(Waiting(fs))
  BY <1>2, <1>3, FS_Subset
<1> QED
  BY <1>4, FS_CardinalityType

(* Without its last call the stack waits for one Error less, if that call   *)
(* was waiting.                                                             *)
LEMMA FrontFacts ==
  ASSUME NEW S, NEW fs \in Seq(S), fs # <<>>
  PROVE  /\ Front(fs) \in Seq(S) /\ Len(fs) \in Nat \ {0} /\ Len(Front(fs)) = Len(fs) - 1
         /\ \A i \in 1 .. Len(fs) - 1 : Front(fs)[i] = fs[i]
         /\ Last(fs) \in S
         /\ Waiting(Front(fs)) = Waiting(fs) \ {Len(fs)}
         /\ Cardinality(Waiting(Front(fs)))
              = Cardinality(Waiting(fs)) - (IF Last(fs).tried = "right" THEN 1 ELSE 0)
<1>1. Len(fs) \in Nat \ {0}
  BY EmptySeq
<1>2. \A i \in 1 .. Len(fs) - 1 : fs[i] \in S
  BY <1>1, ElementOfSeq
<1>3. Last(fs) \in S
  BY <1>1, ElementOfSeq DEF Last
<1>4. /\ Front(fs) \in Seq(S) /\ Len(Front(fs)) = Len(fs) - 1
      /\ \A i \in 1 .. Len(fs) - 1 : Front(fs)[i] = fs[i]
  <2> DEFINE n == Len(fs) - 1
  <2>1. n \in Int /\ 1 \in Int /\ n >= 0 /\ Front(fs) = SubSeq(fs, 1, n)
    BY <1>1 DEF Front
  <2>2. \A i \in 1 .. n : fs[i] \in S
    BY <1>2
  <2> HIDE DEF n
  <2>3. /\ SubSeq(fs, 1, n) \in Seq(S)
        /\ Len(SubSeq(fs, 1, n)) = IF 1 <= n THEN n - 1 + 1 ELSE 0
        /\ \A i \in 1 .. n - 1 + 1 : SubSeq(fs, 1, n)[i] = fs[1 + i - 1]
    BY <2>1, <2>2, SubSeqProperties
  <2>4. Len(Front(fs)) = n
    BY <2>1, <2>3
  <2>5. \A i \in 1 .. n : Front(fs)[i] = fs[i]
    BY <2>1, <2>3
  <2> QED
    BY <2>1, <2>3, <2>4, <2>5 DEF n
<1>5. Waiting(Front(fs)) = Waiting(fs) \ {Len(fs)}
  BY <1>1, <1>4 DEF Waiting
<1>6. Len(fs) \in Waiting(fs) <=> Last(fs).tried = "right"
  BY <1>1 DEF Waiting, Last
<1>7. IsFiniteSet(Waiting(fs)) /\ Cardinality(Waiting(fs)) \in Nat
  BY WaitingFinite
<1>8. Cardinality(Waiting(fs) \ {Len(fs)}) =
        IF Len(fs) \in Waiting(fs) THEN Cardinality(Waiting(fs)) - 1 ELSE Cardinality(Waiting(fs))
  BY <1>7, FS_RemoveElement
<1>9. Cardinality(Waiting(Front(fs)))
        = Cardinality(Waiting(fs)) - (IF Last(fs).tried = "right" THEN 1 ELSE 0)
  BY <1>5, <1>6, <1>7, <1>8
<1> QED
  BY <1>1, <1>3, <1>4, <1>5, <1>9

(* Calling m_right adds the caller to those that wait, calling m_left none. *)
LEMMA CallFacts ==
  ASSUME NEW S, NEW fs \in Seq(S), fs # <<>>, NEW x \in S, NEW y \in S,
         y.tried # "right", Last(fs).tried # "right"
  PROVE  LET called == Append(Front(fs) \o <<x>>, y)
         IN  /\ called \in Seq(S) /\ called # <<>> /\ Last(called) = y
             /\ Len(called) = Len(fs) + 1 /\ called[Len(fs)] = x /\ called[Len(fs) + 1] = y
             /\ \A i \in 1 .. Len(fs) - 1 : called[i] = fs[i]
             /\ Cardinality(Waiting(called))
                  = Cardinality(Waiting(fs)) + (IF x.tried = "right" THEN 1 ELSE 0)
<1> DEFINE front == Front(fs)
           mid == front \o <<x>>
           called == Append(mid, y)
           n == Len(front)
<1>1. /\ front \in Seq(S) /\ n \in Nat
      /\ Cardinality(Waiting(front)) = Cardinality(Waiting(fs)) - 0
  BY FrontFacts, LenProperties
<1>2. IsFiniteSet(Waiting(front)) /\ Cardinality(Waiting(front)) \in Nat
      /\ Cardinality(Waiting(fs)) \in Nat
  BY <1>1, WaitingFinite
<1>3. <<x>> \in Seq(S) /\ Len(<<x>>) = 1 /\ <<x>>[1] = x
  OBVIOUS
<1> HIDE DEF front
<1>4. /\ mid \in Seq(S) /\ Len(mid) = n + 1
      /\ \A i \in 1 .. n + 1 : mid[i] = IF i <= n THEN front[i] ELSE <<x>>[i - n]
  BY <1>1, <1>3, ConcatProperties
<1>5. (\A i \in 1 .. n : mid[i] = front[i]) /\ mid[n + 1] = x
  BY <1>1, <1>3, <1>4
<1> HIDE DEF mid
<1>6. /\ called \in Seq(S) /\ called # <<>> /\ Len(called) = n + 2
      /\ \A i \in 1 .. n + 1 : called[i] = mid[i]
      /\ called[n + 2] = y
  <2>1. /\ called \in Seq(S) /\ called # <<>> /\ Len(called) = Len(mid) + 1
        /\ \A i \in 1 .. Len(mid) : called[i] = mid[i]
        /\ called[Len(mid) + 1] = y
    BY <1>4, AppendProperties
  <2>2. Len(mid) = n + 1 /\ Len(mid) + 1 = n + 2
    BY <1>1, <1>4
  <2> QED
    BY <2>1, <2>2
<1> HIDE DEF called, n
<1>7. (\A i \in 1 .. n : called[i] = front[i]) /\ called[n + 1] = x
  BY <1>1, <1>5, <1>6
<1>8. Last(called) = y
  BY <1>6 DEF Last
<1>9. Waiting(called) = IF x.tried = "right" THEN Waiting(front) \cup {n + 1} ELSE Waiting(front)
  BY <1>1, <1>6, <1>7 DEF Waiting, n
<1>10. n + 1 \notin Waiting(front)
  BY <1>1 DEF Waiting, n
<1>11. Cardinality(Waiting(front) \cup {n + 1}) = Cardinality(Waiting(front)) + 1
  BY <1>2, <1>10, FS_AddElement
<1>12. Cardinality(Waiting(called))
         = Cardinality(Waiting(fs)) + (IF x.tried = "right" THEN 1 ELSE 0)
  BY <1>1, <1>2, <1>9, <1>11
<1>13. /\ Len(called) = Len(fs) + 1 /\ called[Len(fs)] = x /\ called[Len(fs) + 1] = y
       /\ \A i \in 1 .. Len(fs) - 1 : called[i] = fs[i]
  <2>1. /\ Len(fs) \in Nat /\ n = Len(fs) - 1
        /\ \A i \in 1 .. Len(fs) - 1 : front[i] = fs[i]
    BY FrontFacts DEF n, front
  <2>2. n + 1 = Len(fs) /\ n + 2 = Len(fs) + 1
    BY <2>1
  <2> QED
    BY <1>6, <1>7, <2>1, <2>2
<1> QED
  BY <1>6, <1>8, <1>12, <1>13 DEF called, mid, front

LEMMA NoneWaits == Cardinality(Waiting(<<>>)) = 0
<1>1. Waiting(<<>>) = {}
  BY EmptySeq DEF Waiting
<1> QED
  BY <1>1, FS_EmptySet

-----------------------------------------------------------------------------
(* The steps. *)

LEMMA FrameFacts ==
  ASSUME IInv, frames # <<>>
  PROVE  /\ Last(frames) \in Frames
         /\ Front(frames) \in Seq(Frames)
         /\ Cardinality(Waiting(frames)) \in Nat
         /\ Cardinality(Waiting(Front(frames))) = Cardinality(Waiting(frames))
              - (IF Last(frames).tried = "right" THEN 1 ELSE 0)
         /\ Len(frames) \in Nat \ {0} /\ (Len(frames) = 1 <=> Front(frames) = <<>>)
<1>1. frames \in Seq(Frames)
  BY DEF IInv, Stack
<1>2. /\ Front(frames) \in Seq(Frames) /\ Len(frames) \in Nat \ {0}
      /\ Len(Front(frames)) = Len(frames) - 1
  BY <1>1, FrontFacts
<1>3. Len(frames) = 1 <=> Front(frames) = <<>>
  BY <1>2, EmptySeq
<1> QED
  BY <1>1, <1>2, <1>3, FrontFacts, WaitingFinite

LEMMA Initially == Init => IInv
<1> SUFFICES ASSUME Init PROVE IInv
  OBVIOUS
<1>1. source \in Seq(Chars) /\ Len(source) \in Nat /\ Len(source) <= MaxLength
  BY ParserAssumption DEF Init, BoundedSeq, SeqOf
<1>2. parser \in Parsers /\ from \in 0 .. Len(source)
  BY DEF Init
<1>3. Frame(parser, from) \in Frames /\ Frame(parser, from).tried = "none"
  BY <1>2 DEF Frame, Frames
<1>4. frames \in Seq(Frames) /\ frames # <<>> /\ Len(frames) = 1 /\ frames[1] = Frame(parser, from)
  BY <1>3 DEF Init
<1>5. Last(frames).tried = "none"
  BY <1>3, <1>4 DEF Last
<1>6. Waiting(frames) = {}
  BY <1>3, <1>4 DEF Waiting
<1>7. errors = Cardinality(Waiting(frames)) + InResult
  BY <1>6, FS_EmptySet DEF Init, InResult
<1>8. TypeOK
  BY <1>1, <1>2, <1>4 DEF Init, TypeOK, Success
<1>9. Stack
  BY <1>2, <1>4, <1>5 DEF Init, Stack, Success
<1> QED
  BY <1>7, <1>8, <1>9 DEF Init, IInv

(* A call that returns a result, having constructed and destroyed so many   *)
(* Errors that all that remain have their owners.                           *)
LEMMA ReturnKeeps ==
  ASSUME IInv, op \in {"call", "return"},
         NEW r \in [hasError : BOOLEAN, item : Chars \cup {NoItem}, at : 0 .. Len(source)],
         Return(r), errorCopied' = FALSE,
         errors' = Cardinality(Waiting(frames)) - (IF Last(frames).tried = "right" THEN 1 ELSE 0)
                     + (IF r.hasError THEN 1 ELSE 0)
  PROVE  IInv'
<1>1. frames # <<>>
  BY DEF IInv, TypeOK
<1>2. /\ frames' = Front(frames) /\ op' = (IF Len(frames) = 1 THEN "done" ELSE "return")
      /\ result' = r /\ source' = source /\ parser' = parser /\ from' = from
  BY DEF Return
<1>3. /\ Front(frames) \in Seq(Frames)
      /\ Len(frames) = 1 <=> Front(frames) = <<>>
      /\ Cardinality(Waiting(Front(frames))) = Cardinality(Waiting(frames))
           - (IF Last(frames).tried = "right" THEN 1 ELSE 0)
  BY <1>1, FrameFacts
<1>4. Frames' = Frames
  BY <1>2 DEF Frames
<1>5. Stack'
  BY <1>2, <1>3, <1>4 DEF Stack
<1>6. Waiting(frames)' = Waiting(Front(frames))
  BY <1>2 DEF Waiting
<1>7. InResult' = IF r.hasError THEN 1 ELSE 0
  BY <1>2 DEF InResult
<1>8. IsFiniteSet(Waiting(Front(frames))) /\ Cardinality(Waiting(Front(frames))) \in Nat
  BY <1>3, WaitingFinite
<1>9. errors' = Cardinality(Waiting(frames))' + InResult' /\ errors' \in Nat
  BY <1>3, <1>6, <1>7, <1>8
<1>10. TypeOK'
  BY <1>2, <1>3, <1>9 DEF IInv, TypeOK
<1> QED
  BY <1>5, <1>9, <1>10 DEF IInv

(* OrParser calls one of its two; if it is m_right, the Error of leftResult *)
(* stays with the call.                                                     *)
LEMMA CallKeeps ==
  ASSUME IInv, op \in {"call", "return"}, NEW which \in {"left", "right"}, NEW p \in Parsers,
         Last(frames).tried # "right", Last(frames).parser.kind = "or", CallNext(which, p),
         errorCopied' = FALSE, errors' = errors,
         InResult = IF which = "right" THEN 1 ELSE 0,
         UNCHANGED <<source, parser, from, result>>
  PROVE  IInv'
<1> DEFINE x == [Last(frames) EXCEPT !.tried = which]
           y == Frame(p, Last(frames).at)
           called == Append(Front(frames) \o <<x>>, y)
<1>1. frames # <<>> /\ frames \in Seq(Frames)
  BY DEF IInv, TypeOK, Stack
<1>2. Last(frames) \in Frames
  BY <1>1, FrameFacts
<1>3. x \in Frames /\ y \in Frames /\ x.tried = which /\ y.tried = "none"
  BY <1>2 DEF Frames, Frame
<1>4. frames' = called /\ op' = "call"
  BY DEF CallNext
<1> HIDE DEF x, y
<1>5. /\ called \in Seq(Frames) /\ called # <<>> /\ Last(called) = y
      /\ Cardinality(Waiting(called))
           = Cardinality(Waiting(frames)) + (IF which = "right" THEN 1 ELSE 0)
  BY <1>1, <1>3, CallFacts
<1> HIDE DEF called
<1>6. Frames' = Frames
  BY DEF Frames
<1>7. Stack'
  BY <1>3, <1>4, <1>5, <1>6 DEF IInv, Stack, Last
<1>8. Waiting(frames)' = Waiting(called)
  BY <1>4 DEF Waiting
<1>9. InResult' = 0
  BY <1>4 DEF InResult
<1>10. Cardinality(Waiting(frames)) \in Nat
  BY <1>1, WaitingFinite
<1>11. errors' = Cardinality(Waiting(frames))' + InResult'
  BY <1>5, <1>8, <1>9, <1>10 DEF IInv
<1>12. TypeOK'
  BY <1>4, <1>5 DEF IInv, TypeOK
<1> QED
  BY <1>7, <1>11, <1>12 DEF IInv

LEMMA NextKeeps ==
  ASSUME IInv, [Next]_vars
  PROVE  IInv'
<1> DEFINE f == Last(frames)
<1>1. /\ errors = Cardinality(Waiting(frames)) + InResult /\ errorCopied = FALSE
      /\ result \in [hasError : BOOLEAN, item : Chars \cup {NoItem}, at : 0 .. Len(source)]
      /\ op \in {"call", "return"} <=> frames # <<>>
      /\ source \in Seq(Chars) /\ Len(source) \in Nat
  <2>1. source \in Seq(Chars) /\ errorCopied \in BOOLEAN /\ ~errorCopied
    BY DEF IInv, TypeOK
  <2> QED
    BY <2>1, LenProperties DEF IInv, TypeOK, Stack
<1>2. op \in {"call", "return"} =>
        /\ f.parser \in Parsers /\ f.at \in 0 .. Len(source)
        /\ f.tried # "none" => f.parser.kind = "or"
        /\ Cardinality(Waiting(frames)) \in Nat
  BY <1>1, FrameFacts DEF Frames
<1>3. op = "call" => f.tried = "none" /\ InResult = 0
  BY DEF IInv, Stack, InResult
<1>4. ASSUME NEW r \in [hasError : BOOLEAN, item : Chars \cup {NoItem}, at : 0 .. Len(source)],
             op = "call", ReturnNew(r)
      PROVE  IInv'
  <2>1. Return(r) /\ errorCopied' = FALSE
    BY <1>1, <1>4 DEF ReturnNew
  <2>2. errors' = (IF r.hasError THEN errors + 1 ELSE errors) /\ errors = Cardinality(Waiting(frames))
    BY <1>1, <1>2, <1>3, <1>4 DEF ReturnNew
  <2>3. errors' = Cardinality(Waiting(frames)) - (IF f.tried = "right" THEN 1 ELSE 0)
                    + (IF r.hasError THEN 1 ELSE 0)
    BY <1>2, <1>3, <1>4, <2>2
  <2> QED
    BY <1>4, <2>1, <2>3, ReturnKeeps
<1>5. CASE RunEos
  <2>1. op = "call" /\ ReturnNew(IF end(f.at) THEN Success(NoItem, f.at) ELSE Failure(f.at))
    BY <1>5 DEF RunEos, At
  <2>2. (IF end(f.at) THEN Success(NoItem, f.at) ELSE Failure(f.at))
          \in [hasError : BOOLEAN, item : Chars \cup {NoItem}, at : 0 .. Len(source)]
    BY <1>2, <2>1 DEF Success, Failure
  <2> QED
    BY <1>4, <2>1, <2>2
<1>6. CASE RunItem
  <2>1. /\ op = "call"
        /\ ReturnNew(IF end(f.at) THEN Failure(f.at) ELSE Success(current(f.at), next(f.at)))
    BY <1>6 DEF RunItem, At
  <2>2. ~end(f.at) => f.at + 1 \in 1 .. Len(source)
    BY <1>1, <1>2, <2>1 DEF end
  <2>3. ~end(f.at) => current(f.at) \in Chars /\ next(f.at) \in 0 .. Len(source)
    BY <1>1, <2>2, ElementOfSeq DEF current, next
  <2>4. (IF end(f.at) THEN Failure(f.at) ELSE Success(current(f.at), next(f.at)))
          \in [hasError : BOOLEAN, item : Chars \cup {NoItem}, at : 0 .. Len(source)]
    BY <1>2, <2>1, <2>3 DEF Success, Failure
  <2> QED
    BY <1>4, <2>1, <2>4
<1>7. CASE RunOr
  <2>1. /\ op = "call" /\ f.parser.kind = "or" /\ CallNext("left", f.parser.left)
        /\ UNCHANGED <<source, parser, from, result, errors, errorCopied>>
    BY <1>7 DEF RunOr, At
  <2>2. f.parser.left \in Parsers
    BY <1>2, <2>1, ParserAssumption
  <2> QED
    BY <1>1, <1>3, <2>1, <2>2, CallKeeps
<1>8. CASE LeftReturned
  <2>1. op = "return" /\ f.tried = "left" /\ errors' = errors
    BY <1>8 DEF LeftReturned
  <2>9. f.parser.kind = "or"
    BY <1>2, <2>1
  <2>2. CASE Decides(result)
    <3>1. Return(result) /\ ~result.hasError /\ errorCopied' = (errorCopied \/ result.hasError)
      BY <1>8, <2>2 DEF LeftReturned, Decides
    <3>2. errorCopied' = FALSE
      BY <1>1, <3>1
    <3>3. errors' = Cardinality(Waiting(frames)) - (IF f.tried = "right" THEN 1 ELSE 0)
                      + (IF result.hasError THEN 1 ELSE 0)
      BY <1>1, <1>2, <2>1, <3>1 DEF InResult
    <3> QED
      BY <1>1, <2>1, <3>1, <3>2, <3>3, ReturnKeeps
  <2>3. CASE ~Decides(result)
    <3>1. /\ CallNext("right", f.parser.right) /\ result.hasError
          /\ UNCHANGED <<source, parser, from, result, errorCopied>>
      BY <1>8, <2>3 DEF LeftReturned, Decides
    <3>2. f.parser.right \in Parsers
      BY <1>2, <2>1, <2>9, ParserAssumption
    <3>3. InResult = 1
      BY <2>1, <3>1 DEF InResult
    <3> QED
      BY <1>1, <2>1, <2>9, <3>1, <3>2, <3>3, CallKeeps
  <2> QED
    BY <2>2, <2>3
<1>9. CASE RightReturned
  <2>1. /\ op = "return" /\ f.tried = "right" /\ Return(result)
        /\ errors' = errors - 1 /\ errorCopied' = FALSE
    BY <1>1, <1>9 DEF RightReturned
  <2>2. errors' = Cardinality(Waiting(frames)) - (IF f.tried = "right" THEN 1 ELSE 0)
                    + (IF result.hasError THEN 1 ELSE 0)
    BY <1>1, <1>2, <2>1 DEF InResult
  <2> QED
    BY <1>1, <2>1, <2>2, ReturnKeeps
<1>10. ASSUME NEW asked \in {"used", "caught"}, op = "done", op' = asked,
              UNCHANGED <<source, parser, from, frames, result, errors, errorCopied>>
       PROVE  IInv'
  <2>1. InResult' = InResult
    BY <1>10 DEF InResult
  <2>2. Stack'
    BY <1>10 DEF IInv, Stack, Frames
  <2>3. TypeOK'
    BY <1>10 DEF IInv, TypeOK
  <2> QED
    BY <1>10, <2>1, <2>2, <2>3 DEF IInv, Waiting
<1>11. CASE CallItem \/ CallError
  <2>1. PICK asked \in {"used", "caught"} :
          /\ op = "done" /\ op' = asked
          /\ UNCHANGED <<source, parser, from, frames, result, errors, errorCopied>>
    BY <1>11 DEF CallItem, CallError, Use
  <2> QED
    BY <1>10, <2>1
<1>12. CASE Destroy
  <2>1. /\ op \in {"used", "caught"} /\ op' = "gone"
        /\ errors' = (IF result.hasError THEN errors - 1 ELSE errors)
        /\ UNCHANGED <<source, parser, from, frames, result, errorCopied>>
    BY <1>12 DEF Destroy
  <2>2. frames = <<>> /\ Cardinality(Waiting(frames)) = 0
    BY <1>1, <2>1, NoneWaits
  <2>3. errors' = 0
    BY <1>1, <2>1, <2>2 DEF InResult
  <2>4. InResult' = 0 /\ Cardinality(Waiting(frames))' = 0
    BY <2>1, <2>2 DEF InResult, Waiting
  <2>5. Stack'
    BY <2>1 DEF IInv, Stack, Frames
  <2>6. TypeOK'
    BY <2>1, <2>2, <2>3 DEF IInv, TypeOK
  <2> QED
    BY <1>1, <2>1, <2>3, <2>4, <2>5, <2>6 DEF IInv
<1>13. CASE UNCHANGED vars
  BY <1>13 DEF vars, IInv, TypeOK, Stack, Frames, InResult, Waiting
<1> QED
  BY <1>5, <1>6, <1>7, <1>8, <1>9, <1>11, <1>12, <1>13 DEF Next

-----------------------------------------------------------------------------
LEMMA Invariance == Spec => []IInv
BY Initially, NextKeeps, PTL DEF Spec

(* Every variable keeps its type: no parser is run past the end of its      *)
(* stream, and the result is in place when no call is left.                 *)
THEOREM TypeCorrect == Spec => []TypeOK
<1>1. IInv => TypeOK
  BY DEF IInv
<1> QED
  BY <1>1, Invariance, PTL

(* ErrorLifetimes, for every set of parsers and source: a Result with an    *)
(* Error is never copied, and each Error is destroyed exactly once, by the  *)
(* OrParser whose m_right ran or with the result of main().                 *)
THEOREM ErrorsDieOnce == Spec => []ErrorLifetimes
<1>1. ASSUME IInv PROVE ErrorLifetimes
  <2>1. op \in {"done", "gone"} => Cardinality(Waiting(frames)) = 0
    BY <1>1, NoneWaits DEF IInv, TypeOK
  <2>2. op = "done" => errors = (IF result.hasError THEN 1 ELSE 0)
    BY <1>1, <2>1 DEF IInv, InResult
  <2>3. op = "gone" => errors = 0
    BY <1>1, <2>1 DEF IInv, InResult
  <2> QED
    BY <1>1, <2>2, <2>3 DEF IInv, ErrorLifetimes
<1> QED
  BY <1>1, Invariance, PTL

-----------------------------------------------------------------------------
(* The choice.  Attempts is recursive: that it exists, and what it is made  *)
(* of, is shown by a least depth at which it fails.                         *)

LEMMA LeastOf ==
  ASSUME NEW T \in SUBSET Nat, T # {}
  PROVE  \E n \in T : \A m \in T : n <= m
<1>1. \E n \in T : \A m \in T : ~(<<m, n>> \in OpToRel(<, Nat))
  BY NatLessThanWellFounded, WFMin, Zenon
<1>2. PICK n \in T : \A m \in T : ~(m < n)
  BY <1>1, Zenon DEF OpToRel
<1> QED
  BY <1>2

Below(n) == {p \in Parsers : Depth[p] < n}

IsAttempts(F, P) ==
  F = [p \in P |-> IF p.kind = "or" THEN F[p.left] \o F[p.right] ELSE <<p>>]

LEMMA DepthFacts ==
  ASSUME NEW p \in Parsers
  PROVE  /\ Depth[p] \in Nat
         /\ p.kind = "or" =>
              /\ p.left \in Parsers /\ Depth[p.left] \in Nat /\ Depth[p.left] < Depth[p]
              /\ p.right \in Parsers /\ Depth[p.right] \in Nat /\ Depth[p.right] < Depth[p]
BY ParserAssumption

LEMMA AttemptsBelow ==
  ASSUME NEW n \in Nat
  PROVE  \E F : IsAttempts(F, Below(n))
<1> DEFINE T == {m \in Nat : ~ \E F : IsAttempts(F, Below(m))}
<1>1. SUFFICES ASSUME T # {} PROVE FALSE
  OBVIOUS
<1>2. PICK m \in T : \A k \in T : m <= k
  BY <1>1, LeastOf
<1>3. CASE m = 0
  <2>1. Below(m) = {}
    BY <1>3, DepthFacts DEF Below
  <2> DEFINE F == [p \in {} |-> 0]
  <2>2. IsAttempts(F, {})
    BY DEF IsAttempts
  <2> QED
    BY <1>2, <2>1, <2>2
<1>4. CASE m # 0
  <2>1. m - 1 \in Nat /\ m - 1 \notin T
    BY <1>2, <1>4
  <2>2. PICK F : IsAttempts(F, Below(m - 1))
    BY <2>1
  <2> DEFINE G == [p \in Below(m) |-> IF p.kind = "or" THEN F[p.left] \o F[p.right] ELSE <<p>>]
  <2>3. ASSUME NEW p \in Below(m - 1)
        PROVE  p \in Below(m) /\ G[p] = F[p]
    <3>1. p \in Below(m)
      BY <1>2, DepthFacts DEF Below
    <3>2. F[p] = IF p.kind = "or" THEN F[p.left] \o F[p.right] ELSE <<p>>
      BY <2>2 DEF IsAttempts
    <3> QED
      BY <3>1, <3>2
  <2>4. ASSUME NEW p \in Below(m), p.kind = "or"
        PROVE  p.left \in Below(m - 1) /\ p.right \in Below(m - 1)
    BY <1>2, <2>4, DepthFacts DEF Below
  <2>5. G = [p \in Below(m) |-> IF p.kind = "or" THEN G[p.left] \o G[p.right] ELSE <<p>>]
    <3>1. \A p \in Below(m) :
            (IF p.kind = "or" THEN F[p.left] \o F[p.right] ELSE <<p>>)
              = (IF p.kind = "or" THEN G[p.left] \o G[p.right] ELSE <<p>>)
      <4> SUFFICES ASSUME NEW p \in Below(m), p.kind = "or"
                   PROVE  F[p.left] \o F[p.right] = G[p.left] \o G[p.right]
        OBVIOUS
      <4>1. G[p.left] = F[p.left] /\ G[p.right] = F[p.right]
        BY <2>3, <2>4
      <4> QED
        BY <4>1
    <3> QED
      BY <3>1
  <2>6. IsAttempts(G, Below(m))
    BY <2>5 DEF IsAttempts
  <2> HIDE DEF G
  <2> QED
    BY <1>2, <2>6
<1> QED
  BY <1>3, <1>4

LEMMA AttemptsAgree ==
  ASSUME NEW F, NEW G, NEW n \in Nat, NEW m \in Nat,
         IsAttempts(F, Below(n)), IsAttempts(G, Below(m)),
         NEW p \in Below(n) \cap Below(m)
  PROVE  F[p] = G[p]
<1> DEFINE Both == Below(n) \cap Below(m)
           T == {k \in Nat : \E q \in Both : Depth[q] = k /\ F[q] # G[q]}
<1>1. SUFFICES ASSUME T # {} PROVE FALSE
  <2>1. Depth[p] \in Nat /\ Depth[p] \notin T
    BY <1>1, DepthFacts DEF Below
  <2> QED
    BY <2>1
<1>2. PICK k \in T : \A j \in T : k <= j
  BY <1>1, LeastOf
<1>3. PICK q \in Both : Depth[q] = k /\ F[q] # G[q]
  BY <1>2
<1>4. /\ F[q] = IF q.kind = "or" THEN F[q.left] \o F[q.right] ELSE <<q>>
      /\ G[q] = IF q.kind = "or" THEN G[q.left] \o G[q.right] ELSE <<q>>
  BY <1>3 DEF IsAttempts
<1>5. CASE q.kind = "or"
  <2>1. q.left \in Both /\ q.right \in Both /\ Depth[q.left] < k /\ Depth[q.right] < k
        /\ Depth[q.left] \in Nat /\ Depth[q.right] \in Nat
    BY <1>3, <1>5, DepthFacts DEF Below
  <2>2. Depth[q.left] \notin T /\ Depth[q.right] \notin T
    BY <1>2, <2>1
  <2>3. F[q.left] = G[q.left] /\ F[q.right] = G[q.right]
    BY <2>1, <2>2
  <2> QED
    BY <1>3, <1>4, <1>5, <2>3
<1>6. CASE q.kind # "or"
  BY <1>3, <1>4, <1>6
<1> QED
  BY <1>5, <1>6

LEMMA AttemptsIs == IsAttempts(Attempts, Parsers)
<1> DEFINE Of(p) == CHOOSE F : IsAttempts(F, Below(Depth[p] + 1))
           A == [p \in Parsers |-> Of(p)[p]]
<1>1. ASSUME NEW p \in Parsers
      PROVE  IsAttempts(Of(p), Below(Depth[p] + 1))
  <2>1. Depth[p] + 1 \in Nat
    BY DepthFacts
  <2> QED
    BY <2>1, AttemptsBelow
<1> HIDE DEF Of
<1>2. ASSUME NEW p \in Parsers
      PROVE  A[p] = IF p.kind = "or" THEN A[p.left] \o A[p.right] ELSE <<p>>
  <2>1. p \in Below(Depth[p] + 1) /\ Depth[p] + 1 \in Nat
    BY DepthFacts DEF Below
  <2>2. Of(p)[p] = IF p.kind = "or" THEN Of(p)[p.left] \o Of(p)[p.right] ELSE <<p>>
    BY <1>1, <2>1 DEF IsAttempts
  <2>3. ASSUME NEW q \in Parsers, Depth[q] < Depth[p]
        PROVE  Of(p)[q] = A[q]
    <3>1. q \in Below(Depth[p] + 1) \cap Below(Depth[q] + 1) /\ Depth[q] + 1 \in Nat
      BY <2>3, DepthFacts DEF Below
    <3>2. Of(p)[q] = Of(q)[q]
      BY <1>1, <2>1, <3>1, AttemptsAgree
    <3> QED
      BY <3>2
  <2> QED
    BY <2>2, <2>3, DepthFacts
<1> HIDE DEF A
<1>3. A = [p \in Parsers |-> A[p]]
  BY DEF A
<1>4. A = [p \in Parsers |-> IF p.kind = "or" THEN A[p.left] \o A[p.right] ELSE <<p>>]
  BY <1>2, <1>3
<1> QED
  BY <1>4 DEF Attempts, IsAttempts

LEMMA AttemptsOf ==
  ASSUME NEW p \in Parsers
  PROVE  /\ Attempts[p] \in Seq(Parsers)
         /\ p.kind # "or" => Attempts[p] = <<p>>
         /\ p.kind = "or" => Attempts[p] = Attempts[p.left] \o Attempts[p.right]
<1>1. ASSUME NEW q \in Parsers
      PROVE  Attempts[q] = IF q.kind = "or" THEN Attempts[q.left] \o Attempts[q.right] ELSE <<q>>
  BY AttemptsIs DEF IsAttempts
<1> HIDE DEF Attempts
<1> DEFINE T == {k \in Nat : \E q \in Parsers : Depth[q] = k /\ Attempts[q] \notin Seq(Parsers)}
<1>2. SUFFICES ASSUME T # {} PROVE FALSE
  <2>1. Depth[p] \in Nat /\ Depth[p] \notin T
    BY <1>2, DepthFacts
  <2>2. Attempts[p] \in Seq(Parsers)
    BY <2>1
  <2> QED
    BY <1>1, <2>2
<1>3. PICK k \in T : \A j \in T : k <= j
  BY <1>2, LeastOf
<1>4. PICK q \in Parsers : Depth[q] = k /\ Attempts[q] \notin Seq(Parsers)
  BY <1>3
<1>5. CASE q.kind = "or"
  <2>1. Depth[q.left] \notin T /\ Depth[q.right] \notin T
    BY <1>3, <1>4, <1>5, DepthFacts
  <2>2. Attempts[q.left] \in Seq(Parsers) /\ Attempts[q.right] \in Seq(Parsers)
    BY <1>5, <2>1, DepthFacts
  <2>3. Attempts[q.left] \o Attempts[q.right] \in Seq(Parsers)
    BY <2>2, ConcatProperties
  <2> QED
    BY <1>1, <1>4, <1>5, <2>3
<1>6. CASE q.kind # "or"
  <2>1. Attempts[q] = <<q>>
    BY <1>1, <1>6, Zenon
  <2>2. <<q>> \in Seq(Parsers)
    OBVIOUS
  <2> QED
    BY <1>4, <2>1, <2>2
<1> QED
  BY <1>5, <1>6

(* One of the choices of p succeeds at the end, or before it. *)
Takes(p, atEnd) == (p.kind = "eos") = atEnd
Succeeds(p, atEnd) == \E i \in DOMAIN Attempts[p] : Takes(Attempts[p][i], atEnd)

LEMMA SucceedsOf ==
  ASSUME NEW p \in Parsers, NEW atEnd
  PROVE  /\ p.kind # "or" => (Succeeds(p, atEnd) <=> Takes(p, atEnd))
         /\ p.kind = "or" => (Succeeds(p, atEnd) <=> Succeeds(p.left, atEnd) \/ Succeeds(p.right, atEnd))
<1>1. CASE p.kind # "or"
  <2>1. Attempts[p] = <<p>>
    BY <1>1, AttemptsOf
  <2> HIDE DEF Attempts
  <2> QED
    BY <1>1, <2>1 DEF Succeeds
<1>2. CASE p.kind = "or"
  <2> DEFINE s == Attempts[p.left]
             t == Attempts[p.right]
  <2>1. p.left \in Parsers /\ p.right \in Parsers
    BY <1>2, DepthFacts
  <2>2. Attempts[p] = s \o t /\ s \in Seq(Parsers) /\ t \in Seq(Parsers)
    BY <1>2, <2>1, AttemptsOf
  <2> HIDE DEF Attempts, s, t
  <2>3. /\ Len(s) \in Nat /\ Len(t) \in Nat
        /\ DOMAIN s = 1 .. Len(s) /\ DOMAIN t = 1 .. Len(t)
        /\ DOMAIN (s \o t) = 1 .. Len(s) + Len(t)
        /\ \A i \in 1 .. Len(s) + Len(t) : (s \o t)[i] = IF i <= Len(s) THEN s[i] ELSE t[i - Len(s)]
    BY <2>2, LenProperties, ConcatProperties
  <2>4. ASSUME NEW i \in DOMAIN (s \o t), Takes((s \o t)[i], atEnd)
        PROVE  (\E j \in DOMAIN s : Takes(s[j], atEnd)) \/ (\E j \in DOMAIN t : Takes(t[j], atEnd))
    <3>1. CASE i <= Len(s)
      <4>1. i \in DOMAIN s /\ (s \o t)[i] = s[i]
        BY <2>3, <2>4, <3>1
      <4> QED
        BY <2>4, <4>1
    <3>2. CASE ~(i <= Len(s))
      <4>1. i - Len(s) \in DOMAIN t /\ (s \o t)[i] = t[i - Len(s)]
        BY <2>3, <2>4, <3>2
      <4> QED
        BY <2>4, <4>1
    <3> QED
      BY <3>1, <3>2
  <2>5. ASSUME NEW j \in DOMAIN s, Takes(s[j], atEnd)
        PROVE  \E i \in DOMAIN (s \o t) : Takes((s \o t)[i], atEnd)
    <3>1. j \in DOMAIN (s \o t) /\ (s \o t)[j] = s[j]
      BY <2>3
    <3> QED
      BY <2>5, <3>1
  <2>6. ASSUME NEW j \in DOMAIN t, Takes(t[j], atEnd)
        PROVE  \E i \in DOMAIN (s \o t) : Takes((s \o t)[i], atEnd)
    <3>1. j + Len(s) \in DOMAIN (s \o t) /\ (s \o t)[j + Len(s)] = t[j]
      BY <2>3
    <3> QED
      BY <2>6, <3>1
  <2>7. /\ Succeeds(p, atEnd) <=> \E i \in DOMAIN (s \o t) : Takes((s \o t)[i], atEnd)
        /\ Succeeds(p.left, atEnd) <=> \E j \in DOMAIN s : Takes(s[j], atEnd)
        /\ Succeeds(p.right, atEnd) <=> \E j \in DOMAIN t : Takes(t[j], atEnd)
    BY <2>2 DEF Succeeds, s, t
  <2> QED
    BY <1>2, <2>4, <2>5, <2>6, <2>7
<1> QED
  BY <1>1, <1>2

(* Where main() started there is only one way to succeed. *)
AtEnd == from = Len(source)
Outcome == IF AtEnd THEN Success(NoItem, from) ELSE Success(current(from), next(from))

(* The parser that a call of an OrParser has called. *)
Called(f) == IF f.tried = "left" THEN f.parser.left ELSE f.parser.right

(* The stack is a path into the tree, all of it at the position main()      *)
(* gave; what is to its left has failed.                                    *)
Path ==
  /\ frames # <<>> => frames[1].parser = parser
  /\ \A i \in 1 .. Len(frames) :
       /\ frames[i].at = from
       /\ frames[i].tried = "right" => ~Succeeds(frames[i].parser.left, AtEnd)
  /\ \A i \in 1 .. Len(frames) - 1 :
       frames[i].tried # "none" /\ frames[i + 1].parser = Called(frames[i])

Returned ==
  /\ op = "return" =>
       Last(frames).tried # "none" /\ (result.hasError <=> ~Succeeds(Called(Last(frames)), AtEnd))
  /\ op = "done" => (result.hasError <=> ~Succeeds(parser, AtEnd))
  /\ op \in {"return", "done"} => result \in {Failure(from), Outcome}

Choice == IInv /\ Path /\ Returned

(* The call on top of the stack, and the one below it. *)
LEMMA TopFacts ==
  ASSUME Choice, frames # <<>>
  PROVE  /\ Len(frames) \in Nat \ {0} /\ Last(frames) = frames[Len(frames)]
         /\ Last(frames) \in Frames /\ Last(frames).at = from /\ Last(frames).parser \in Parsers
         /\ from \in 0 .. Len(source)
         /\ Last(frames).tried = "right" => ~Succeeds(Last(frames).parser.left, AtEnd)
         /\ Len(frames) = 1 => Last(frames).parser = parser
         /\ Len(frames) > 1 =>
              /\ frames[Len(frames) - 1].tried # "none"
              /\ Last(frames).parser = Called(frames[Len(frames) - 1])
<1>1. /\ Len(frames) \in Nat \ {0} /\ Last(frames) = frames[Len(frames)]
      /\ Last(frames) \in Frames /\ from \in 0 .. Len(source)
  BY FrameFacts DEF Choice, IInv, TypeOK, Last
<1>2. Len(frames) \in 1 .. Len(frames) /\ (Len(frames) > 1 => Len(frames) - 1 \in 1 .. Len(frames) - 1)
  BY <1>1
<1>3. Last(frames).at = from /\ (Last(frames).tried = "right" => ~Succeeds(Last(frames).parser.left, AtEnd))
  BY <1>1, <1>2 DEF Choice, Path
<1>4. Len(frames) = 1 => Last(frames).parser = parser
  BY <1>1 DEF Choice, Path
<1>5. Len(frames) > 1 =>
        /\ frames[Len(frames) - 1].tried # "none"
        /\ frames[Len(frames) - 1 + 1].parser = Called(frames[Len(frames) - 1])
  BY <1>2 DEF Choice, Path
<1>6. Len(frames) - 1 + 1 = Len(frames)
  BY <1>1
<1>7. Last(frames).parser \in Parsers
  BY <1>1 DEF Frames
<1> QED
  BY <1>1, <1>3, <1>4, <1>5, <1>6, <1>7

LEMMA OutcomeStays ==
  ASSUME UNCHANGED <<source, from>>
  PROVE  AtEnd' = AtEnd /\ Failure(from)' = Failure(from) /\ Outcome' = Outcome
<1>1. AtEnd' = AtEnd
  BY DEF AtEnd
<1>2. Failure(from)' = Failure(from)
  BY DEF Failure
<1>3. Outcome' = Outcome
  BY <1>1 DEF Outcome, Success, current, next
<1> QED
  BY <1>1, <1>2, <1>3

(* A result is returned that has an error exactly if the parser called has  *)
(* no choice that succeeds.                                                 *)
LEMMA ReturnChooses ==
  ASSUME Choice, op \in {"call", "return"}, NEW r \in {Failure(from), Outcome},
         r.hasError <=> ~Succeeds(Last(frames).parser, AtEnd), Return(r)
  PROVE  Path' /\ Returned'
<1> DEFINE n == Len(frames)
<1>1. frames # <<>> /\ frames \in Seq(Frames)
  BY DEF Choice, IInv, TypeOK, Stack
<1>2. /\ frames' = Front(frames) /\ op' = (IF n = 1 THEN "done" ELSE "return")
      /\ result' = r /\ UNCHANGED <<source, parser, from>>
  BY DEF Return
<1>3. /\ n \in Nat \ {0} /\ Len(frames') = n - 1
      /\ \A i \in 1 .. n - 1 : frames'[i] = frames[i]
  BY <1>1, <1>2, FrontFacts
<1>4. AtEnd' = AtEnd /\ Failure(from)' = Failure(from) /\ Outcome' = Outcome
  BY <1>2, OutcomeStays
<1>5. /\ parser' = parser /\ from' = from
      /\ n = 1 => Last(frames).parser = parser
      /\ n > 1 => /\ frames[n - 1].tried # "none"
                  /\ Last(frames).parser = Called(frames[n - 1])
  BY <1>1, <1>2, TopFacts
<1>6. Path'
  <2>1. frames' # <<>> => frames'[1].parser = parser'
    <3>1. frames' # <<>> => 1 \in 1 .. n - 1
      BY <1>2, <1>3, <1>1, FrameFacts DEF Choice
    <3> QED
      BY <1>1, <1>3, <1>5, <3>1 DEF Choice, Path
  <2>2. ASSUME NEW i \in 1 .. Len(frames')
        PROVE  /\ frames'[i].at = from'
               /\ frames'[i].tried = "right" => ~Succeeds(frames'[i].parser.left, AtEnd')
    <3>1. i \in 1 .. Len(frames) /\ frames'[i] = frames[i]
      BY <1>3
    <3> QED
      BY <1>4, <1>5, <3>1 DEF Choice, Path
  <2>3. ASSUME NEW i \in 1 .. Len(frames') - 1
        PROVE  frames'[i].tried # "none" /\ frames'[i + 1].parser = Called(frames'[i])
    <3>1. i \in 1 .. Len(frames) - 1 /\ frames'[i] = frames[i] /\ frames'[i + 1] = frames[i + 1]
      BY <1>3
    <3> QED
      BY <3>1 DEF Choice, Path
  <2> QED
    BY <2>1, <2>2, <2>3 DEF Path, Called
<1>7. Returned'
  <2>1. result' \in {Failure(from)', Outcome'}
    BY <1>2, <1>4
  <2>2. CASE n = 1
    <3>1. r.hasError <=> ~Succeeds(parser, AtEnd)
      BY <1>5, <2>2
    <3>2. result'.hasError <=> ~Succeeds(parser', AtEnd')
      BY <1>2, <1>4, <3>1
    <3> QED
      BY <1>2, <2>1, <2>2, <3>2 DEF Returned
  <2>3. CASE n # 1
    <3>1. n > 1 /\ Len(frames') = n - 1 /\ n - 1 \in 1 .. n - 1
      BY <1>3, <2>3
    <3>2. Last(frames') = frames[n - 1]
      BY <1>3, <3>1 DEF Last
    <3>3. Last(frames').tried # "none" /\ (r.hasError <=> ~Succeeds(Called(Last(frames')), AtEnd))
      BY <1>5, <3>1, <3>2
    <3>4. Last(frames').tried # "none" /\ (result'.hasError <=> ~Succeeds(Called(Last(frames')), AtEnd'))
      BY <1>2, <1>4, <3>3
    <3> QED
      BY <1>2, <2>1, <2>3, <3>4 DEF Returned, Last, Called
  <2> QED
    BY <2>2, <2>3
<1> QED
  BY <1>6, <1>7

(* A call below an OrParser keeps the position, and m_right is called only  *)
(* when m_left has failed.                                                  *)
LEMMA CallChooses ==
  ASSUME Choice, op \in {"call", "return"}, NEW which \in {"left", "right"},
         CallNext(which, IF which = "left" THEN Last(frames).parser.left
                                           ELSE Last(frames).parser.right),
         Last(frames).tried # "right", Last(frames).parser.kind = "or",
         which = "right" => ~Succeeds(Last(frames).parser.left, AtEnd),
         UNCHANGED <<source, parser, from, result>>
  PROVE  Path' /\ Returned'
<1> DEFINE n == Len(frames)
           f == Last(frames)
           x == [f EXCEPT !.tried = which]
           p == IF which = "left" THEN f.parser.left ELSE f.parser.right
           y == Frame(p, f.at)
           called == Append(Front(frames) \o <<x>>, y)
<1>1. frames # <<>> /\ frames \in Seq(Frames)
  BY DEF Choice, IInv, TypeOK, Stack
<1>2. /\ n \in Nat \ {0} /\ f \in Frames /\ f.at = from /\ from \in 0 .. Len(source)
      /\ n = 1 => f.parser = parser
      /\ n > 1 => frames[n - 1].tried # "none" /\ f.parser = Called(frames[n - 1])
  BY <1>1, TopFacts
<1>3. p \in Parsers
  BY <1>2, DepthFacts DEF Frames
<1> HIDE DEF p
<1>4. /\ x \in Frames /\ y \in Frames
      /\ x.tried = which /\ x.at = from /\ x.parser = f.parser
      /\ y.tried = "none" /\ y.at = from /\ y.parser = p
  BY <1>2, <1>3 DEF Frames, Frame
<1>5. Called(x) = p
  BY <1>4 DEF Called, p
<1>6. frames' = called /\ op' = "call"
  BY DEF CallNext, p
<1> HIDE DEF x, y
<1>7. /\ Len(called) = n + 1 /\ called[n] = x /\ called[n + 1] = y
      /\ \A i \in 1 .. n - 1 : called[i] = frames[i]
  BY <1>1, <1>4, CallFacts
<1> HIDE DEF called
<1>8. AtEnd' = AtEnd
  BY OutcomeStays
<1>9. Path'
  <2>1. frames'[1].parser = parser'
    <3>1. CASE n = 1
      BY <1>2, <1>4, <1>6, <1>7, <3>1
    <3>2. CASE n # 1
      <4>1. n \in Nat \ {0}
        BY <1>2
      <4>2. 1 \in 1 .. n - 1
        BY <3>2, <4>1
      <4> QED
        BY <1>1, <1>6, <1>7, <4>2 DEF Choice, Path
    <3> QED
      BY <3>1, <3>2
  <2>2. ASSUME NEW i \in 1 .. Len(frames')
        PROVE  /\ frames'[i].at = from'
               /\ frames'[i].tried = "right" => ~Succeeds(frames'[i].parser.left, AtEnd')
    <3>1. i \in 1 .. n - 1 \/ i = n \/ i = n + 1
      BY <1>2, <1>6, <1>7
    <3>2. CASE i \in 1 .. n - 1
      <4>1. i \in 1 .. Len(frames) /\ frames'[i] = frames[i]
        BY <1>2, <1>6, <1>7, <3>2
      <4> QED
        BY <1>8, <4>1 DEF Choice, Path
    <3>3. CASE i = n
      BY <1>4, <1>6, <1>7, <1>8, <3>3
    <3>4. CASE i = n + 1
      BY <1>4, <1>6, <1>7, <3>4
    <3> QED
      BY <3>1, <3>2, <3>3, <3>4
  <2>3. ASSUME NEW i \in 1 .. Len(frames') - 1
        PROVE  frames'[i].tried # "none" /\ frames'[i + 1].parser = Called(frames'[i])
    <3>1. i \in 1 .. n - 2 \/ (i = n - 1 /\ n > 1) \/ i = n
      BY <1>2, <1>6, <1>7
    <3>2. CASE i \in 1 .. n - 2
      <4>1. i \in 1 .. Len(frames) - 1 /\ frames'[i] = frames[i] /\ frames'[i + 1] = frames[i + 1]
        BY <1>2, <1>6, <1>7, <3>2
      <4> QED
        BY <4>1 DEF Choice, Path
    <3>3. CASE i = n - 1 /\ n > 1
      <4>1. frames'[i] = frames[n - 1] /\ frames'[i + 1] = x
        BY <1>2, <1>6, <1>7, <3>3
      <4> QED
        BY <1>2, <1>4, <3>3, <4>1
    <3>4. CASE i = n
      <4>1. frames'[i] = x /\ frames'[i + 1] = y
        BY <1>6, <1>7, <3>4
      <4> QED
        BY <1>4, <1>5, <4>1
    <3> QED
      BY <3>1, <3>2, <3>3, <3>4
  <2> QED
    BY <2>1, <2>2, <2>3 DEF Path, Called
<1>10. Returned'
  BY <1>6 DEF Returned
<1> QED
  BY <1>9, <1>10

LEMMA ChoiceInitially == Init => Choice
<1> SUFFICES ASSUME Init PROVE Path /\ Returned
  BY Initially DEF Choice
<1>1. Len(frames) = 1 /\ frames[1] = Frame(parser, from)
  BY DEF Init
<1>2. Path
  BY <1>1 DEF Path, Frame
<1>3. Returned
  BY DEF Init, Returned
<1> QED
  BY <1>2, <1>3

LEMMA ChoiceKeeps ==
  ASSUME Choice, [Next]_vars
  PROVE  Choice'
<1> DEFINE f == Last(frames)
<1>1. IInv'
  BY NextKeeps DEF Choice
<1> SUFFICES Path' /\ Returned'
  BY <1>1 DEF Choice
<1>2. op \in {"call", "return"} =>
        /\ f.at = from /\ f.parser \in Parsers
        /\ f.tried # "none" => f.parser.kind = "or"
        /\ f.tried = "right" => ~Succeeds(f.parser.left, AtEnd)
  BY TopFacts DEF Choice, IInv, TypeOK, Frames
<1>3. op = "call" => f.tried = "none"
  BY DEF Choice, IInv, Stack
<1>4. op = "return" =>
        /\ f.tried # "none" /\ result \in {Failure(from), Outcome}
        /\ result.hasError <=> ~Succeeds(Called(f), AtEnd)
  BY DEF Choice, Returned
<1>5. Failure(from).hasError = TRUE /\ Outcome.hasError = FALSE
  BY DEF Failure, Outcome, Success
<1>6. CASE RunEos
  <2> DEFINE r == IF AtEnd THEN Success(NoItem, f.at) ELSE Failure(f.at)
  <2>1. op = "call" /\ f.parser.kind = "eos"
    BY <1>6 DEF RunEos, At
  <2>2. Return(r)
    BY <1>2, <1>6, <2>1 DEF RunEos, ReturnNew, AtEnd, end
  <2>3. Succeeds(f.parser, AtEnd) <=> AtEnd
    BY <1>2, <2>1, SucceedsOf DEF Takes, AtEnd
  <2>4. r = IF AtEnd THEN Outcome ELSE Failure(from)
    BY <1>2, <2>1 DEF Outcome
  <2> HIDE DEF r
  <2>5. r \in {Failure(from), Outcome} /\ (r.hasError <=> ~Succeeds(f.parser, AtEnd))
    BY <1>5, <2>3, <2>4
  <2> QED
    BY <2>1, <2>2, <2>5, ReturnChooses
<1>7. CASE RunItem
  <2> DEFINE r == IF AtEnd THEN Failure(f.at) ELSE Success(current(f.at), next(f.at))
  <2>1. op = "call" /\ f.parser.kind = "item"
    BY <1>7 DEF RunItem, At
  <2>2. Return(r)
    BY <1>2, <1>7, <2>1 DEF RunItem, ReturnNew, AtEnd, end
  <2>3. Succeeds(f.parser, AtEnd) <=> ~AtEnd
    BY <1>2, <2>1, SucceedsOf DEF Takes, AtEnd
  <2>4. r = IF AtEnd THEN Failure(from) ELSE Outcome
    BY <1>2, <2>1 DEF Outcome
  <2> HIDE DEF r
  <2>5. r \in {Failure(from), Outcome} /\ (r.hasError <=> ~Succeeds(f.parser, AtEnd))
    BY <1>5, <2>3, <2>4
  <2> QED
    BY <2>1, <2>2, <2>5, ReturnChooses
<1>8. CASE RunOr
  <2>1. /\ op = "call" /\ f.parser.kind = "or" /\ CallNext("left", f.parser.left)
        /\ UNCHANGED <<source, parser, from, result>>
    BY <1>8 DEF RunOr, At
  <2> QED
    BY <1>3, <2>1, CallChooses
<1>9. CASE LeftReturned
  <2>1. op = "return" /\ f.tried = "left" /\ Called(f) = f.parser.left
    BY <1>9 DEF LeftReturned, Called
  <2>2. f.parser.kind = "or"
    BY <1>2, <2>1
  <2>3. CASE Decides(result)
    <3>1. Return(result) /\ ~result.hasError
      BY <1>9, <2>3 DEF LeftReturned, Decides
    <3>2. Succeeds(f.parser, AtEnd)
      BY <1>2, <1>4, <2>1, <2>2, <3>1, SucceedsOf
    <3> QED
      BY <1>4, <2>1, <3>1, <3>2, ReturnChooses
  <2>4. CASE ~Decides(result)
    <3>1. /\ CallNext("right", f.parser.right) /\ result.hasError
          /\ UNCHANGED <<source, parser, from, result>>
      BY <1>9, <2>4 DEF LeftReturned, Decides
    <3> QED
      BY <1>4, <2>1, <2>2, <3>1, CallChooses
  <2> QED
    BY <2>3, <2>4
<1>10. CASE RightReturned
  <2>1. op = "return" /\ f.tried = "right" /\ Return(result) /\ Called(f) = f.parser.right
    BY <1>10 DEF RightReturned, Called
  <2>2. Succeeds(f.parser, AtEnd) <=> Succeeds(f.parser.right, AtEnd)
    BY <1>2, <2>1, SucceedsOf
  <2> QED
    BY <1>4, <2>1, <2>2, ReturnChooses
<1>11. CASE CallItem \/ CallError \/ Destroy
  <2>1. op' \in {"used", "caught", "gone"} /\ UNCHANGED <<source, parser, from, frames>>
    BY <1>11 DEF CallItem, CallError, Use, Destroy
  <2>2. AtEnd' = AtEnd
    BY <2>1, OutcomeStays
  <2> QED
    BY <2>1, <2>2 DEF Choice, Path, Returned, Called
<1>12. CASE UNCHANGED vars
  <2>1. UNCHANGED <<source, parser, from, frames, op, result>>
    BY <1>12 DEF vars
  <2>2. AtEnd' = AtEnd /\ Failure(from)' = Failure(from) /\ Outcome' = Outcome
    BY <2>1, OutcomeStays
  <2> QED
    BY <2>1, <2>2 DEF Choice, Path, Returned, Called, Last
<1> QED
  BY <1>6, <1>7, <1>8, <1>9, <1>10, <1>11, <1>12 DEF Next

(* OrderedChoice, for OrParsers nested to any depth: the result is that of  *)
(* the first parser that succeeds at the position main() gave, and an error *)
(* there if there is none.                                                  *)
THEOREM FirstChoiceTaken == Spec => []OrderedChoice
<1>1. ASSUME Choice PROVE OrderedChoice
  <2> SUFFICES ASSUME op = "done" PROVE OrderedChoice
    BY DEF OrderedChoice
  <2> DEFINE tries == Attempts[parser]
             taken == {i \in DOMAIN tries : Accepts(tries[i])}
  <2>1. parser \in Parsers /\ tries \in Seq(Parsers)
    BY <1>1, AttemptsOf DEF Choice, IInv, TypeOK
  <2>2. (result.hasError <=> ~Succeeds(parser, AtEnd)) /\ result \in {Failure(from), Outcome}
    BY <1>1 DEF Choice, Returned
  <2>3. DOMAIN tries = 1 .. Len(tries) /\ Len(tries) \in Nat
    BY <2>1, LenProperties
  <2>4. ASSUME NEW q
        PROVE  Accepts(q) <=> Takes(q, AtEnd)
    BY DEF Accepts, Takes, AtEnd, end
  <2>5. Succeeds(parser, AtEnd) <=> taken # {}
    BY <2>4 DEF Succeeds
  <2>6. Failure(from).hasError = TRUE /\ Outcome.hasError = FALSE
    BY DEF Failure, Outcome, Success
  <2>7. CASE taken = {}
    <3>1. result = Failure(from)
      BY <2>2, <2>5, <2>6, <2>7
    <3> QED
      BY <2>7, <3>1 DEF OrderedChoice
  <2>8. CASE taken # {}
    <3>1. taken \in SUBSET Nat
      BY <2>3
    <3>2. \E i \in taken : \A j \in taken : i <= j
      BY <2>8, <3>1, LeastOf
    <3>3. Min(taken) \in taken
      BY <3>2 DEF Min
    <3>4. (tries[Min(taken)].kind = "eos") <=> AtEnd
      BY <2>4, <3>3 DEF Takes, AtEnd
    <3>5. result = Outcome
      BY <2>2, <2>5, <2>6, <2>8
    <3>6. Outcome = IF tries[Min(taken)].kind = "eos" THEN Success(NoItem, from)
                    ELSE Success(source[from + 1], from + 1)
      BY <3>4 DEF Outcome, current, next
    <3> QED
      BY <2>8, <3>5, <3>6 DEF OrderedChoice
  <2> QED
    BY <2>7, <2>8
<1> QED
  BY <1>1, ChoiceInitially, ChoiceKeeps, PTL DEF Spec

=============================================================================
