------------------------- MODULE CardProgramProofs -------------------------
(***************************************************************************)
(* card.cc on a file, for every text, wherever others cut it and however   *)
(* much of it fread() returns: the pass stays in the data but for one      *)
(* character, and the summary counts each card that was read once.         *)
(***************************************************************************)
EXTENDS CardProgram, FiniteSetTheorems, SequenceTheorems, TLAPS

USE DEF cardVars

-----------------------------------------------------------------------------
(* The inductive invariant.                                                 *)

Types ==
  /\ text \in Seq(Characters) /\ written \in 0 .. Len(text)
  /\ phase \in {"open", "size", "vector", "read", "cards", "count",
                "summary", "report", "abort"}
  /\ length \in -1 .. Len(text) /\ numRead \in 0 .. Len(text)
  /\ data \in Seq(Characters) /\ pc \in {"loop", "skip", "card"}
  /\ start \in 1 .. Len(data) + 1
  /\ result \in Seq(Nat) /\ overread \in {0, 1}
  /\ counted \in 0 .. Len(result)
  /\ stats \in [Suits \X Faces -> Nat]
  /\ changes \in 0 .. MaxChanges

(* Before the pass nothing is found or counted.                             *)
Early == {"open", "size", "vector", "read"}

NothingYet ==
  /\ phase \in Early => data = <<>> /\ start = 1 /\ pc = "loop"
  /\ phase \in Early \cup {"cards"} =>
       counted = 0 /\ stats = [c \in Suits \X Faces |-> 0]
  /\ phase \in Early => result = <<>>
  /\ phase = "read" => length >= 0

(* The data are the bytes that were read, and zeros behind them.            *)
BytesRead ==
  phase \in {"cards", "count", "summary"} =>
    /\ numRead <= Len(data)
    /\ \A i \in 1 .. numRead : data[i] = text[i]
    /\ \A i \in numRead + 1 .. Len(data) : data[i] = Zero

(* A card at i, of a suit and the face behind it.                           *)
CardAt(i) == Suit(i) /\ Face(i + 1)

(* The pass has found the cards before start, each once, and none lies over *)
(* start.                                                                   *)
Found ==
  /\ IsInjective(result)
  /\ Range(result) = {i \in 1 .. Len(data) : i < start /\ CardAt(i)}
  /\ \A i \in Range(result) : i + 1 < start

FoundAll == phase \in {"count", "summary"} => start = end

(* The cards counted so far.                                                *)
CountedAs(s, f, n) ==
  {j \in 1 .. n : data[result[j]] = s /\ data[result[j] + 1] = f}

Tallied ==
  phase \in {"count", "summary"} =>
    \A s \in Suits, f \in Faces : stats[<<s, f>>] = Cardinality(CountedAs(s, f, counted))

IInv ==
  /\ Types /\ NothingYet /\ BytesRead /\ Found /\ FoundAll /\ Tallied
  /\ phase = "summary" => counted = Len(result)

-----------------------------------------------------------------------------
(* The pass.                                                                *)

LEMMA MinOfTwo ==
  ASSUME NEW a \in Int, NEW b \in Int
  PROVE  Min({a, b}) = IF a <= b THEN a ELSE b
<1> DEFINE m == IF a <= b THEN a ELSE b
<1>1. m \in {a, b} /\ \A y \in {a, b} : m =< y
  OBVIOUS
<1>2. \A x \in {a, b} : (\A y \in {a, b} : x =< y) => x = m
  OBVIOUS
<1> QED
  BY <1>1, <1>2, Zenon DEF Min

LEMMA AppendNumber ==
  ASSUME NEW s \in Seq(Nat), NEW e \in Nat, IsInjective(s), e \notin Range(s)
  PROVE  /\ Append(s, e) \in Seq(Nat) /\ IsInjective(Append(s, e))
         /\ Len(Append(s, e)) = Len(s) + 1
         /\ Range(Append(s, e)) = Range(s) \cup {e}
<1>1. Len(s) \in Nat /\ DOMAIN s = 1 .. Len(s)
  BY LenProperties
<1>2. /\ Append(s, e) \in Seq(Nat) /\ Len(Append(s, e)) = Len(s) + 1
      /\ DOMAIN Append(s, e) = 1 .. Len(s) + 1
      /\ \A i \in 1 .. Len(s) : Append(s, e)[i] = s[i]
      /\ Append(s, e)[Len(s) + 1] = e
  BY AppendProperties, LenProperties
<1>3. 1 .. Len(s) + 1 = (1 .. Len(s)) \cup {Len(s) + 1} /\ Len(s) + 1 \notin 1 .. Len(s)
  BY <1>1
<1>4. Range(Append(s, e)) = Range(s) \cup {e}
  BY <1>1, <1>2, <1>3 DEF Range
<1>5. IsInjective(Append(s, e))
  BY <1>1, <1>2, <1>3 DEF Range, IsInjective
<1> QED
  BY <1>2, <1>4, <1>5

(* A character that begins no card may be passed by.                        *)
LEMMA PassBy ==
  ASSUME IInv, start' = start + 1, start < end, ~CardAt(start),
         UNCHANGED <<data, result>>
  PROVE  Found'
<1>1. Len(data) \in Nat /\ start \in Nat
  BY LenProperties DEF IInv, Types
<1>2. \A i \in Nat : i < start + 1 <=> i < start \/ i = start
  BY <1>1
<1>3. {i \in 1 .. Len(data) : i < start + 1 /\ CardAt(i)}
        = {i \in 1 .. Len(data) : i < start /\ CardAt(i)}
  BY <1>1, <1>2
<1>4. \A i \in Range(result) : i \in Nat /\ i + 1 < start + 1
  BY <1>1, LenProperties DEF IInv, Found
<1> QED
  BY <1>3, <1>4 DEF IInv, Found, CardAt, Suit, Face, end

LEMMA TakeCard ==
  ASSUME IInv, start' = start + 2, CardAt(start), result' = Append(result, start),
         UNCHANGED data
  PROVE  /\ Found' /\ result' \in Seq(Nat) /\ Len(result') = Len(result) + 1
         /\ start + 2 <= end
<1>1. Len(data) \in Nat /\ start \in Nat /\ start > 0 /\ start + 1 < end
  BY LenProperties DEF IInv, Types, CardAt, Face
<1>2. start \notin Range(result) /\ \A i \in Range(result) : i \in Nat /\ i + 1 < start
  BY <1>1 DEF IInv, Found
<1>3. /\ result' \in Seq(Nat) /\ IsInjective(result') /\ Len(result') = Len(result) + 1
      /\ Range(result') = Range(result) \cup {start}
  BY <1>1, <1>2, AppendNumber DEF IInv, Types, Found
<1>4. ~CardAt(start + 1)
  BY CharacterAssumption DEF CardAt, Suit, Face
<1>5. \A i \in Nat : i < start + 2 <=> i < start \/ i = start \/ i = start + 1
  BY <1>1
<1>6. {i \in 1 .. Len(data) : i < start + 2 /\ CardAt(i)}
        = {i \in 1 .. Len(data) : i < start /\ CardAt(i)} \cup {start}
  BY <1>1, <1>4, <1>5 DEF end
<1>7. \A i \in Range(result) \cup {start} : i + 1 < start + 2
  BY <1>1, <1>2
<1>8. Range(result') = {i \in 1 .. Len(data) : i < start + 2 /\ CardAt(i)}
  BY <1>3, <1>6 DEF IInv, Found
<1>9. Found'
  BY <1>3, <1>7, <1>8 DEF Found, CardAt, Suit, Face, end
<1> QED
  BY <1>1, <1>3, <1>9 DEF end

(* A step of the pass: the parts of the invariant about it.                 *)
LEMMA PassStep ==
  ASSUME IInv, Step
  PROVE  /\ Found' /\ data' = data /\ start' \in 1 .. Len(data) + 1
         /\ pc' \in {"loop", "skip", "card"} /\ overread' \in {0, 1}
         /\ result' \in Seq(Nat) /\ Len(result') >= Len(result)
<1>1. /\ Len(data) \in Nat /\ start \in Nat /\ start > 0 /\ start <= end
      /\ Len(result) \in Nat /\ result \in Seq(Nat) /\ overread \in {0, 1}
  BY LenProperties DEF IInv, Types, end
<1>2. ASSUME UNCHANGED <<data, start, result>> PROVE Found'
  BY <1>2 DEF IInv, Found, CardAt, Suit, Face, end
<1>3. CASE Loop
  BY <1>1, <1>2, <1>3 DEF Loop, end
<1>4. ASSUME NEW space \in BOOLEAN, Skip(space)
      PROVE  /\ Found' /\ data' = data /\ start' \in 1 .. Len(data) + 1
             /\ pc' \in {"loop", "skip", "card"} /\ overread' \in {0, 1} /\ result' = result
  <2>1. overread' \in {0, 1} /\ data' = data /\ result' = result
    BY <1>1, <1>4 DEF Skip, end
  <2>2. CASE Skips(space)
    <3>1. start < end /\ start' = start + 1 /\ pc' = pc /\ pc = "skip"
      BY <1>1, <1>4, <2>2 DEF Skip, Skips, end
    <3>2. data[start] \in Spaces
      BY <1>4, <2>2, <3>1 DEF Skip, Skips
    <3>3. ~CardAt(start)
      BY <3>2, CharacterAssumption DEF CardAt, Suit
    <3>4. Found'
      BY <2>1, <3>1, <3>3, PassBy
    <3>5. start + 1 \in 1 .. Len(data) + 1
      BY <1>1, <3>1 DEF end
    <3> QED
      BY <2>1, <3>1, <3>4, <3>5
  <2>3. CASE ~Skips(space)
    <3>1. start' = start /\ pc' = "card"
      BY <1>4, <2>3 DEF Skip
    <3> QED
      BY <1>1, <1>2, <2>1, <3>1 DEF end
  <2> QED
    BY <2>2, <2>3
<1>5. CASE GetCard
  <2>1. pc' = "loop" /\ data' = data /\ overread' = overread
    BY <1>5 DEF GetCard
  <2>2. CASE CardAt(start)
    <3>1. result' = Append(result, start) /\ start' = start + 2
      BY <1>5, <2>2 DEF GetCard, CardAt
    <3>2. /\ Found' /\ result' \in Seq(Nat) /\ Len(result') = Len(result) + 1
          /\ start + 2 <= end
      BY <2>1, <2>2, <3>1, TakeCard
    <3> QED
      BY <1>1, <2>1, <3>1, <3>2 DEF end
  <2>3. CASE ~CardAt(start) /\ start < end
    <3>1. start + 1 \in Int /\ end \in Int /\ start + 1 <= end
      BY <1>1, <2>3 DEF end
    <3>2. Dropped = start + 1
      BY <3>1, MinOfTwo DEF Dropped
    <3>3. start' = start + 1 /\ result' = result
      BY <1>5, <2>3, <3>2 DEF GetCard, CardAt
    <3>4. Found'
      BY <2>1, <2>3, <3>3, PassBy
    <3> QED
      BY <1>1, <2>1, <3>1, <3>3, <3>4 DEF end
  <2>4. CASE ~CardAt(start) /\ start = end
    <3>1. start + 1 \in Int /\ end \in Int /\ ~(start + 1 <= end)
      BY <1>1, <2>4 DEF end
    <3>2. Dropped = end
      BY <3>1, MinOfTwo DEF Dropped
    <3>3. start' = start /\ result' = result
      BY <1>5, <2>4, <3>2 DEF GetCard, CardAt
    <3> QED
      BY <1>1, <1>2, <2>1, <3>3 DEF end
  <2>5. start < end \/ start = end
    BY <1>1 DEF end
  <2> QED
    BY <2>2, <2>3, <2>4, <2>5
<1> QED
  BY <1>1, <1>3, <1>4, <1>5 DEF Step

LEMMA ReadCardsKeeps ==
  ASSUME IInv, ReadCards
  PROVE  IInv'
<1>1. /\ Found' /\ data' = data /\ start' \in 1 .. Len(data) + 1
      /\ pc' \in {"loop", "skip", "card"} /\ overread' \in {0, 1}
      /\ result' \in Seq(Nat) /\ Len(result') >= Len(result)
  BY PassStep DEF ReadCards
<1>2. /\ phase = "cards" /\ phase' = phase /\ text' = text /\ numRead' = numRead
      /\ UNCHANGED <<written, length, counted, stats, changes>>
  BY DEF ReadCards
<1>3. counted' \in 0 .. Len(result')
  BY <1>1, <1>2, LenProperties DEF IInv, Types
<1>4. Types'
  BY <1>1, <1>2, <1>3 DEF IInv, Types, Characters
<1>5. NothingYet' /\ BytesRead' /\ FoundAll' /\ Tallied'
  BY <1>1, <1>2 DEF IInv, NothingYet, BytesRead, FoundAll, Tallied, Early
<1> QED
  BY <1>1, <1>2, <1>4, <1>5 DEF IInv

-----------------------------------------------------------------------------
(* The other steps.                                                         *)

LEMMA VectorFacts ==
  ASSUME text \in Seq(Characters), length \in Nat, NEW n \in 0 .. Len(text), n <= length
  PROVE  /\ Vector(n) \in Seq(Characters) /\ Len(Vector(n)) = length
         /\ \A i \in 1 .. n : Vector(n)[i] = text[i]
         /\ \A i \in n + 1 .. length : Vector(n)[i] = Zero
<1> DEFINE S == SubSeq(text, 1, n)
           Z == [i \in 1 .. length - n |-> Zero]
<1>1. Len(text) \in Nat /\ n \in Nat /\ length - n \in Nat
  BY LenProperties
<1>2. \A i \in 1 .. n : text[i] \in Characters
  BY <1>1, ElementOfSeq
<1>3. /\ S \in Seq(Characters) /\ Len(S) = n
      /\ \A i \in 1 .. n : S[i] = text[i]
  <2>1. /\ S \in Seq(Characters) /\ Len(S) = IF 1 <= n THEN n - 1 + 1 ELSE 0
        /\ \A i \in 1 .. n - 1 + 1 : S[i] = text[1 + i - 1]
    BY <1>1, <1>2, SubSeqProperties
  <2>2. n - 1 + 1 = n /\ \A i \in 1 .. n : 1 + i - 1 = i
    BY <1>1
  <2> QED
    BY <1>1, <2>1, <2>2
<1>4. Z \in Seq(Characters) /\ Len(Z) = length - n
  <2>1. Z \in [1 .. length - n -> Characters]
    BY ZeroAssumption DEF Characters
  <2> QED
    BY <1>1, <2>1, SeqDef, LenProperties
<1>5. \A i \in 1 .. length - n : Z[i] = Zero
  OBVIOUS
<1> HIDE DEF S, Z
<1>6. /\ S \o Z \in Seq(Characters) /\ Len(S \o Z) = Len(S) + Len(Z)
      /\ \A i \in 1 .. Len(S) + Len(Z) :
           (S \o Z)[i] = IF i <= Len(S) THEN S[i] ELSE Z[i - Len(S)]
  BY <1>3, <1>4, ConcatProperties
<1>7. Vector(n) = S \o Z
  BY DEF Vector, S, Z
<1>8. Len(S) + Len(Z) = length
  BY <1>1, <1>3, <1>4
<1>9. \A i \in 1 .. n : i \in 1 .. length /\ i <= n
  BY <1>1
<1>10. \A i \in n + 1 .. length : i \in 1 .. length /\ ~(i <= n) /\ i - n \in 1 .. length - n
  BY <1>1
<1> QED
  BY <1>3, <1>5, <1>6, <1>7, <1>8, <1>9, <1>10

LEMMA EmptyResult ==
  /\ Range(<<>>) = {} /\ IsInjective(<<>>)
  /\ \A n \in Nat : \A i \in 1 .. n : ~(i < 1)
BY DEF Range, IsInjective

LEMMA ReadKeeps ==
  ASSUME IInv, NEW n \in 0 .. Len(text), Read(n)
  PROVE  IInv'
<1>1. /\ phase = "read" /\ phase' = "cards" /\ n <= length /\ numRead' = n
      /\ data' = Vector(n) /\ start' = 1 /\ pc' = "loop" /\ result' = <<>> /\ overread' = 0
      /\ UNCHANGED <<text, written, length, counted, stats, changes>>
  BY DEF Read, Goto, Start
<1>2. length \in Nat /\ text \in Seq(Characters) /\ counted = 0
  BY <1>1 DEF IInv, NothingYet, Types, Early
<1>3. /\ data' \in Seq(Characters) /\ Len(data') = length
      /\ \A i \in 1 .. n : data'[i] = text[i]
      /\ \A i \in n + 1 .. length : data'[i] = Zero
  BY <1>1, <1>2, VectorFacts
<1>4. Types'
  BY <1>1, <1>2, <1>3, EmptySeq DEF IInv, Types, Characters
<1>5. Found'
  <2>1. \A i \in 1 .. Len(data') : ~(i < start')
    BY <1>1, <1>2, <1>3, EmptyResult
  <2>2. Range(result') = {} /\ IsInjective(result')
    BY <1>1, EmptyResult
  <2> QED
    BY <2>1, <2>2 DEF Found
<1>6. BytesRead'
  BY <1>1, <1>3 DEF BytesRead
<1>7. NothingYet' /\ FoundAll' /\ Tallied'
  BY <1>1 DEF IInv, NothingYet, FoundAll, Tallied, Early
<1> QED
  BY <1>1, <1>4, <1>5, <1>6, <1>7 DEF IInv

(* A range of numbers with the next one.                                    *)
LEMMA CountedNext ==
  ASSUME NEW s, NEW f, NEW n \in Nat
  PROVE  CountedAs(s, f, n + 1)
           = CountedAs(s, f, n) \cup
             (IF data[result[n + 1]] = s /\ data[result[n + 1] + 1] = f THEN {n + 1} ELSE {})
<1>1. 1 .. n + 1 = (1 .. n) \cup {n + 1}
  OBVIOUS
<1> QED
  BY <1>1 DEF CountedAs

LEMMA CountedFinite ==
  ASSUME NEW s, NEW f, NEW n \in Nat
  PROVE  /\ IsFiniteSet(CountedAs(s, f, n)) /\ Cardinality(CountedAs(s, f, n)) \in Nat
         /\ n + 1 \notin CountedAs(s, f, n)
         /\ CountedAs(s, f, 0) = {}
<1>1. IsFiniteSet(1 .. n) /\ CountedAs(s, f, n) \subseteq 1 .. n
  BY FS_Interval DEF CountedAs
<1>2. IsFiniteSet(CountedAs(s, f, n))
  BY <1>1, FS_Subset
<1>3. CountedAs(s, f, 0) = {} /\ n + 1 \notin CountedAs(s, f, n)
  BY DEF CountedAs
<1> QED
  BY <1>2, <1>3, FS_CardinalityType

(* What was found are cards of the data.                                    *)
LEMMA ResultIsCard ==
  ASSUME IInv, NEW j \in 1 .. Len(result)
  PROVE  /\ result[j] \in 1 .. Len(data) /\ result[j] + 1 \in 1 .. Len(data)
         /\ data[result[j]] \in Suits /\ data[result[j] + 1] \in Faces
<1>1. result[j] \in Range(result)
  BY LenProperties DEF IInv, Types, Range
<1>2. result[j] \in 1 .. Len(data) /\ CardAt(result[j]) /\ Len(data) \in Nat
  BY <1>1, LenProperties DEF IInv, Types, Found
<1> QED
  BY <1>2 DEF CardAt, Suit, Face, end

LEMMA CountKeeps ==
  ASSUME IInv, Count
  PROVE  IInv'
<1> DEFINE i == result[counted + 1]
           c == <<data[i], data[i + 1]>>
<1>1. /\ phase = "count" /\ phase' = "count" /\ counted < Len(result) /\ counted' = counted + 1
      /\ stats' = [stats EXCEPT ![c] = stats[c] + 1]
      /\ UNCHANGED <<data, start, pc, result, overread, text, written, length, numRead, changes>>
  BY DEF Count
<1>2. counted \in Nat /\ Len(result) \in Nat /\ counted + 1 \in 1 .. Len(result)
  BY <1>1, LenProperties DEF IInv, Types
<1>3. data[i] \in Suits /\ data[i + 1] \in Faces
  BY <1>2, ResultIsCard
<1> HIDE DEF i
<1>4. c \in Suits \X Faces /\ stats \in [Suits \X Faces -> Nat]
  BY <1>3 DEF IInv, Types
<1> HIDE DEF c
<1>5. /\ stats' \in [Suits \X Faces -> Nat]
      /\ \A x \in Suits \X Faces : stats'[x] = IF x = c THEN stats[x] + 1 ELSE stats[x]
  BY <1>1, <1>4
<1>6. ASSUME NEW s \in Suits, NEW f \in Faces
      PROVE  stats'[<<s, f>>] = Cardinality(CountedAs(s, f, counted + 1))
  <2> DEFINE S == CountedAs(s, f, counted)
  <2>1. stats[<<s, f>>] = Cardinality(S)
    BY <1>1 DEF IInv, Tallied
  <2>2. IsFiniteSet(S) /\ Cardinality(S) \in Nat /\ counted + 1 \notin S
    BY <1>2, CountedFinite
  <2>3. CountedAs(s, f, counted + 1) = S \cup (IF <<s, f>> = c THEN {counted + 1} ELSE {})
    BY <1>2, CountedNext DEF c, i
  <2> HIDE DEF S
  <2>4. CASE <<s, f>> = c
    <3>1. Cardinality(S \cup {counted + 1}) = Cardinality(S) + 1
      BY <2>2, FS_AddElement
    <3> QED
      BY <1>5, <2>1, <2>3, <2>4, <3>1
  <2>5. CASE <<s, f>> # c
    <3>1. S \cup {} = S
      OBVIOUS
    <3> QED
      BY <1>5, <2>1, <2>3, <2>5, <3>1
  <2> QED
    BY <2>4, <2>5
<1>7. Tallied'
  BY <1>1, <1>6 DEF Tallied, CountedAs
<1>8. Types'
  BY <1>1, <1>2, <1>5 DEF IInv, Types, Characters
<1>9. NothingYet' /\ BytesRead' /\ Found' /\ FoundAll'
  BY <1>1 DEF IInv, NothingYet, BytesRead, Found, FoundAll, Early, CardAt, Suit, Face, end
<1> QED
  BY <1>1, <1>7, <1>8, <1>9 DEF IInv

LEMMA CardsReadKeeps ==
  ASSUME IInv, CardsRead
  PROVE  IInv'
<1>1. /\ phase = "cards" /\ phase' = "count" /\ pc = "loop" /\ start = end
      /\ UNCHANGED <<data, start, pc, result, overread, text, written, length, numRead, counted,
                     stats, changes>>
  BY DEF CardsRead, Goto, Returned
<1>2. Tallied'
  <2>1. counted = 0 /\ stats = [c \in Suits \X Faces |-> 0]
    BY <1>1 DEF IInv, NothingYet
  <2>2. \A s \in Suits, f \in Faces : stats[<<s, f>>] = 0
    BY <2>1
  <2>3. \A s \in Suits, f \in Faces : Cardinality(CountedAs(s, f, 0)) = 0
    BY CountedFinite, FS_EmptySet
  <2> QED
    BY <1>1, <2>1, <2>2, <2>3 DEF Tallied, CountedAs
<1>3. Types' /\ Found' /\ FoundAll'
  BY <1>1 DEF IInv, Types, Found, FoundAll, CardAt, Suit, Face, end, Characters
<1>4. NothingYet' /\ BytesRead'
  BY <1>1 DEF IInv, NothingYet, BytesRead, Early
<1> QED
  BY <1>1, <1>2, <1>3, <1>4 DEF IInv

LEMMA InitHolds == Init => IInv
<1> SUFFICES ASSUME Init PROVE IInv
  OBVIOUS
<1>1. /\ data = <<>> /\ start = 1 /\ pc = "loop" /\ result = <<>> /\ overread = 0
      /\ written \in 0 .. Len(text) /\ phase = "open"
      /\ length = 0 /\ numRead = 0 /\ counted = 0 /\ stats = [c \in Suits \X Faces |-> 0]
      /\ changes = 0
  BY DEF Init
<1>2. text \in Seq(Characters)
  <2>1. text \in UNION {[1 .. m -> Characters] : m \in 0 .. MaxLength}
    BY DEF Init, BoundedSeq, SeqOf
  <2>2. \A m \in 0 .. MaxLength : m \in Nat
    BY BoundAssumption
  <2> QED
    BY <2>1, <2>2, SeqDef
<1>3. Len(data) = 0 /\ Len(result) = 0 /\ Len(text) \in Nat
      /\ data \in Seq(Characters) /\ result \in Seq(Nat)
  BY <1>1, <1>2, EmptySeq, LenProperties
<1>4. Types
  BY <1>1, <1>2, <1>3, BoundAssumption DEF Types
<1>5. Found
  <2>1. \A i \in 1 .. Len(data) : ~(i < start)
    BY <1>1, <1>3, EmptyResult
  <2> QED
    BY <1>1, <2>1, EmptyResult DEF Found
<1> QED
  BY <1>1, <1>4, <1>5 DEF IInv, NothingYet, BytesRead, FoundAll, Tallied, Early

LEMMA Inductive == IInv /\ [Next]_vars => IInv'
<1> SUFFICES ASSUME IInv, [Next]_vars PROVE IInv'
  OBVIOUS
<1> USE DEF Early
<1>1. ASSUME UNCHANGED cardVars PROVE Found'
  BY <1>1 DEF IInv, Found, CardAt, Suit, Face, end
<1>2. CASE Change
  <2>1. /\ changes < MaxChanges /\ changes' = changes + 1 /\ written' \in 0 .. Len(text)
        /\ phase \in Early
        /\ UNCHANGED <<cardVars, text, phase, length, numRead, counted, stats>>
    BY <1>2 DEF Change
  <2>2. changes' \in 0 .. MaxChanges
    BY <2>1, BoundAssumption DEF IInv, Types
  <2>3. Types'
    BY <2>1, <2>2 DEF IInv, Types, Characters
  <2>4. NothingYet' /\ BytesRead' /\ FoundAll' /\ Tallied'
    BY <2>1 DEF IInv, NothingYet, BytesRead, FoundAll, Tallied
  <2> QED
    BY <1>1, <2>1, <2>3, <2>4 DEF IInv
<1>3. CASE Open
  BY <1>1, <1>3 DEF Open, Goto, IInv, Types, NothingYet, BytesRead, FoundAll, Tallied, Characters
<1>4. CASE TakeSize
  BY <1>1, <1>4 DEF TakeSize, Goto, IInv, Types, NothingYet, BytesRead, FoundAll, Tallied,
     Characters
<1>5. CASE MakeVector
  BY <1>1, <1>5 DEF MakeVector, Goto, IInv, Types, NothingYet, BytesRead, FoundAll, Tallied,
     Characters
<1>6. CASE \E n \in 0 .. Len(text) : Read(n)
  BY <1>6, ReadKeeps
<1>7. CASE ReadCards
  BY <1>7, ReadCardsKeeps
<1>8. CASE CardsRead
  BY <1>8, CardsReadKeeps
<1>9. CASE Count
  BY <1>9, CountKeeps
<1>10. CASE Summarise
  BY <1>1, <1>10 DEF Summarise, Goto, IInv, Types, NothingYet, BytesRead, FoundAll, Tallied, end,
     CountedAs, Characters
<1>11. CASE UNCHANGED vars
  BY <1>1, <1>11 DEF vars, IInv, Types, NothingYet, BytesRead, FoundAll, Tallied, end, CountedAs,
     Characters
<1> QED
  BY <1>2, <1>3, <1>4, <1>5, <1>6, <1>7, <1>8, <1>9, <1>10, <1>11 DEF Next, Run

LEMMA Invariance == Spec => []IInv
BY InitHolds, Inductive, PTL DEF Spec

-----------------------------------------------------------------------------
(* Results.                                                                 *)

(* The model keeps to its types.                                            *)
THEOREM TypeCorrect == Spec => []TypeOK
<1>1. IInv => TypeOK
  BY DEF IInv, Types, TypeOK
<1> QED
  BY <1>1, Invariance, PTL

(* The pass reads one character past the data at most, whatever they are.   *)
THEOREM ReadsOnePastTheEnd == Spec => []OverreadByOne
<1>1. IInv => OverreadByOne
  BY LenProperties DEF IInv, Types, OverreadByOne
<1> QED
  BY <1>1, Invariance, PTL

(* At the end the cards found are those of the text, one for one.           *)
LEMMA SummaryCounts ==
  ASSUME IInv, phase = "summary", NEW s \in Suits, NEW f \in Faces
  PROVE  stats[<<s, f>>] =
           Cardinality({i \in 1 .. numRead - 1 : text[i] = s /\ text[i + 1] = f})
<1> DEFINE n == Len(result)
           S == CountedAs(s, f, n)
           T == {i \in 1 .. numRead - 1 : text[i] = s /\ text[i + 1] = f}
           g == [j \in S |-> result[j]]
<1>1. /\ n \in Nat /\ counted = n /\ start = end /\ Len(data) \in Nat /\ numRead \in Nat
      /\ numRead <= Len(data)
  BY LenProperties DEF IInv, Types, FoundAll, BytesRead
<1>2. stats[<<s, f>>] = Cardinality(S)
  BY <1>1 DEF IInv, Tallied
<1>3. /\ \A i \in 1 .. numRead : data[i] = text[i]
      /\ \A i \in numRead + 1 .. Len(data) : data[i] = Zero
      /\ Zero \notin Suits /\ Zero \notin Faces
  BY ZeroAssumption, CharacterAssumption DEF IInv, BytesRead
<1>4. ASSUME NEW j \in S
      PROVE  g[j] \in T
  <2>1. j \in 1 .. n /\ data[result[j]] = s /\ data[result[j] + 1] = f
    BY DEF CountedAs
  <2>2. result[j] \in 1 .. Len(data) /\ result[j] + 1 \in 1 .. Len(data)
    BY <2>1, ResultIsCard
  <2>3. result[j] + 1 \in 1 .. numRead
    BY <1>1, <1>3, <2>1, <2>2
  <2>4. result[j] \in 1 .. numRead - 1 /\ result[j] \in 1 .. numRead
    BY <1>1, <2>2, <2>3
  <2> QED
    BY <1>3, <2>1, <2>3, <2>4
<1>5. \A i, j \in S : g[i] = g[j] => i = j
  <2>1. DOMAIN result = 1 .. n
    BY LenProperties DEF IInv, Types
  <2> QED
    BY <2>1 DEF IInv, Found, IsInjective, CountedAs
<1>6. ASSUME NEW i \in T
      PROVE  \E j \in S : g[j] = i
  <2>1. /\ i \in 1 .. Len(data) /\ i + 1 \in 1 .. Len(data) /\ i < end /\ i + 1 < end
        /\ data[i] = s /\ data[i + 1] = f
    <3>1. i \in 1 .. numRead /\ i + 1 \in 1 .. numRead
      BY <1>1
    <3>2. data[i] = s /\ data[i + 1] = f
      BY <1>3, <3>1
    <3> QED
      BY <1>1, <3>1, <3>2 DEF end
  <2>2. CardAt(i)
    BY <2>1 DEF CardAt, Suit, Face
  <2>3. i \in Range(result)
    BY <1>1, <2>1, <2>2 DEF IInv, Found
  <2>4. PICK j \in 1 .. n : result[j] = i
    BY <2>3, LenProperties DEF IInv, Types, Range
  <2>5. j \in S
    BY <2>1, <2>4 DEF CountedAs
  <2> QED
    BY <2>4, <2>5
<1>7. g \in Bijection(S, T)
  <2>1. g \in [S -> T]
    BY <1>4
  <2> QED
    BY <1>5, <1>6, <2>1 DEF Bijection, Injection, Surjection, IsInjective
<1>8. IsFiniteSet(S)
  BY <1>1, CountedFinite
<1> HIDE DEF S, T, g
<1>9. Cardinality(S) = Cardinality(T)
  BY <1>7, <1>8, FS_Bijection DEF ExistsBijection
<1> QED
  BY <1>2, <1>9 DEF T

(* The summary has every card of the bytes that were read, once.            *)
THEOREM SummaryIsExact == Spec => []CountsWhatWasRead
<1>1. IInv => CountsWhatWasRead
  BY SummaryCounts DEF CountsWhatWasRead
<1> QED
  BY <1>1, Invariance, PTL

-----------------------------------------------------------------------------
(* That the program ends, as far as safety says it: its steps run down. *)

(* A step of the pass by what it does: the tests of the loops, a character  *)
(* passed by, a card, or the end met in the inner loop.                     *)
Tests ==
  /\ UNCHANGED <<start, result>>
  /\ (pc = "loop" /\ pc' = "skip" /\ start < end) \/ (pc = "skip" /\ pc' = "card")
Passes ==
  /\ start < end /\ start' = start + 1 /\ result' = result
  /\ (pc = "skip" /\ pc' = "skip") \/ (pc = "card" /\ pc' = "loop")
Takes ==
  /\ start + 1 < end /\ start' = start + 2 /\ Len(result') = Len(result) + 1
  /\ pc = "card" /\ pc' = "loop"
Meets ==
  /\ start = end /\ UNCHANGED <<start, result>>
  /\ pc = "card" /\ pc' = "loop"

LEMMA PassKinds ==
  ASSUME IInv, Step
  PROVE  data' = data /\ (Tests \/ Passes \/ Takes \/ Meets)
<1>1. Len(data) \in Nat /\ start \in Nat /\ start > 0 /\ start <= end /\ end = Len(data) + 1
  BY LenProperties DEF IInv, Types, end
<1>2. CASE Loop
  BY <1>1, <1>2 DEF Loop, Tests
<1>3. ASSUME NEW space \in BOOLEAN, Skip(space)
      PROVE  data' = data /\ (Tests \/ Passes)
  <2>1. CASE Skips(space)
    BY <1>1, <1>3, <2>1 DEF Skip, Skips, Passes
  <2>2. CASE ~Skips(space)
    BY <1>3, <2>2 DEF Skip, Tests
  <2> QED
    BY <2>1, <2>2
<1>4. CASE GetCard
  <2>1. pc = "card" /\ pc' = "loop" /\ data' = data
    BY <1>4 DEF GetCard
  <2>2. CASE CardAt(start)
    <3>1. result' = Append(result, start) /\ start' = start + 2
      BY <1>4, <2>2 DEF GetCard, CardAt
    <3>2. start + 1 < end /\ Len(result') = Len(result) + 1
      BY <1>1, <2>1, <2>2, <3>1, TakeCard
    <3> QED
      BY <2>1, <3>1, <3>2 DEF Takes
  <2>3. CASE ~CardAt(start)
    <3>1. Dropped = IF start + 1 <= end THEN start + 1 ELSE end
      <4>1. start + 1 \in Int /\ end \in Int
        BY <1>1
      <4> QED
        BY <4>1, MinOfTwo DEF Dropped
    <3>2. start' = Dropped /\ result' = result
      BY <1>4, <2>3 DEF GetCard, CardAt
    <3> QED
      BY <1>1, <2>1, <3>1, <3>2 DEF Passes, Meets
  <2> QED
    BY <2>2, <2>3
<1> QED
  BY <1>2, <1>3, <1>4 DEF Step

(* A card takes two characters.                                             *)
Sparse == Len(result) < start

LEMMA StaysSparse ==
  ASSUME IInv, Sparse, [Next]_vars
  PROVE  Sparse'
<1>1. Len(result) \in Nat /\ start \in Nat
  BY LenProperties DEF IInv, Types
<1>2. CASE ReadCards
  <2>1. Tests \/ Passes \/ Takes \/ Meets
    BY <1>2, PassKinds DEF ReadCards
  <2> QED
    BY <1>1, <2>1 DEF Sparse, Tests, Passes, Takes, Meets
<1>3. ASSUME NEW n \in 0 .. Len(text), Read(n) PROVE Sparse'
  BY <1>3, EmptyResult DEF Read, Start, Sparse
<1>4. CASE UNCHANGED cardVars
  BY <1>4 DEF Sparse
<1> QED
  BY <1>2, <1>3, <1>4 DEF Next, Run, Change, Open, TakeSize, MakeVector, CardsRead, Count,
     Summarise, vars

(* What is left of the pass: three steps for each character, and what is    *)
(* left of this round.                                                      *)
Round ==
  IF start = end
  THEN IF pc = "skip" THEN 2 ELSE IF pc = "card" THEN 1 ELSE 0
  ELSE IF pc = "loop" THEN 2 ELSE IF pc = "skip" THEN 1 ELSE 0
PassLeft == 3 * (end - start) + Round

(* What the program has left: its phases, the pass, and a step for each     *)
(* card.                                                                    *)
StepsLeft ==
  IF phase = "open" THEN 4 * Len(text) + 9
  ELSE IF phase = "size" THEN 4 * Len(text) + 8
  ELSE IF phase = "vector" THEN 4 * Len(text) + 7
  ELSE IF phase = "read" THEN 4 * Len(text) + 6
  ELSE IF phase = "cards" THEN PassLeft + Len(data) + 3
  ELSE IF phase = "count" THEN Len(result) - counted + 1
  ELSE 0

LEMMA PassLeftNat ==
  ASSUME IInv
  PROVE  PassLeft \in Nat /\ Round \in 0 .. 2 /\ end - start \in Nat
<1>1. end - start \in Nat
  BY LenProperties DEF IInv, Types, end
<1>2. Round \in 0 .. 2
  BY DEF Round
<1> QED
  BY <1>1, <1>2 DEF PassLeft

LEMMA StepsLeftNat ==
  ASSUME IInv
  PROVE  StepsLeft \in Nat
<1>1. Len(text) \in Nat /\ Len(data) \in Nat /\ Len(result) - counted \in Nat
  BY LenProperties DEF IInv, Types
<1> QED
  BY <1>1, PassLeftNat DEF StepsLeft

LEMMA Weighed ==
  ASSUME NEW e \in Nat, NEW s \in Nat, NEW t \in Nat, NEW q \in Nat, NEW r \in Nat,
         r < q + 3 * (t - s)
  PROVE  3 * (e - t) + r < 3 * (e - s) + q /\ 3 * (e - t) + r \in Int
OBVIOUS

LEMMA PassRunsDown ==
  ASSUME IInv, Step
  PROVE  PassLeft' < PassLeft /\ PassLeft' \in Int
<1>1. /\ end' = end /\ end \in Nat /\ start \in Nat /\ start <= end
      /\ Tests \/ Passes \/ Takes \/ Meets
  BY PassKinds, LenProperties DEF IInv, Types, end
<1>0. end \in Nat /\ start \in Nat
  BY <1>1
<1>2. CASE Tests
  <2>1. start' = start /\ Round' \in Nat /\ Round' < Round /\ Round \in Nat
    BY <1>1, <1>2 DEF Tests, Round
  <2>2. PassLeft' = 3 * (end - start') + Round' /\ PassLeft = 3 * (end - start) + Round
    BY <1>1 DEF PassLeft
  <2>3. start' \in Nat /\ Round \in Nat /\ Round' \in Nat /\ Round' < Round + 3 * (start' - start)
    BY <1>0, <2>1
  <2>4. /\ 3 * (end - start') + Round' < 3 * (end - start) + Round
        /\ 3 * (end - start') + Round' \in Int
    BY <1>0, <2>3, Weighed
  <2> QED
    BY <2>2, <2>4
<1>3. CASE Passes
  <2>1. start < end /\ start' = start + 1 /\ Round \in Nat /\ Round' \in Nat /\ Round' < Round + 3
    BY <1>1, <1>3 DEF Passes, Round
  <2>2. PassLeft' = 3 * (end - start') + Round' /\ PassLeft = 3 * (end - start) + Round
    BY <1>1 DEF PassLeft
  <2>3. start' \in Nat /\ Round \in Nat /\ Round' \in Nat /\ Round' < Round + 3 * (start' - start)
    BY <1>0, <2>1
  <2>4. /\ 3 * (end - start') + Round' < 3 * (end - start) + Round
        /\ 3 * (end - start') + Round' \in Int
    BY <1>0, <2>3, Weighed
  <2> QED
    BY <2>2, <2>4
<1>4. CASE Takes
  <2>1. start' = start + 2 /\ Round \in Nat /\ Round' \in Nat /\ Round' < Round + 3
    BY <1>1, <1>4 DEF Takes, Round
  <2>2. PassLeft' = 3 * (end - start') + Round' /\ PassLeft = 3 * (end - start) + Round
    BY <1>1 DEF PassLeft
  <2>3. start' \in Nat /\ Round \in Nat /\ Round' \in Nat /\ Round' < Round + 3 * (start' - start)
    BY <1>0, <2>1
  <2>4. /\ 3 * (end - start') + Round' < 3 * (end - start) + Round
        /\ 3 * (end - start') + Round' \in Int
    BY <1>0, <2>3, Weighed
  <2> QED
    BY <2>2, <2>4
<1>5. CASE Meets
  <2>1. start' = start /\ Round = 1 /\ Round' = 0
    BY <1>1, <1>5 DEF Meets, Round
  <2>2. PassLeft' = 3 * (end - start') + Round' /\ PassLeft = 3 * (end - start) + Round
    BY <1>1 DEF PassLeft
  <2>3. start' \in Nat /\ Round \in Nat /\ Round' \in Nat /\ Round' < Round + 3 * (start' - start)
    BY <1>0, <2>1
  <2>4. /\ 3 * (end - start') + Round' < 3 * (end - start) + Round
        /\ 3 * (end - start') + Round' \in Int
    BY <1>0, <2>3, Weighed
  <2> QED
    BY <2>2, <2>4
<1> QED
  BY <1>1, <1>2, <1>3, <1>4, <1>5

LEMMA RunRunsDown ==
  ASSUME IInv, Sparse, Run
  PROVE  StepsLeft' < StepsLeft
<1>1. /\ Len(text) \in Nat /\ Len(data) \in Nat /\ Len(result) \in Nat
      /\ counted \in Nat /\ counted <= Len(result) /\ start \in Nat
  BY LenProperties DEF IInv, Types
<1>2. CASE Open \/ TakeSize \/ MakeVector
  BY <1>1, <1>2 DEF Open, TakeSize, MakeVector, Goto, StepsLeft
<1>3. ASSUME NEW n \in 0 .. Len(text), Read(n) PROVE StepsLeft' < StepsLeft
  <2>1. /\ phase = "read" /\ phase' = "cards" /\ data' = Vector(n) /\ start' = 1 /\ pc' = "loop"
        /\ n <= length
    BY <1>3 DEF Read, Goto, Start
  <2>2. length \in Nat /\ length <= Len(text) /\ text \in Seq(Characters)
    BY <1>1, <2>1 DEF IInv, Types, NothingYet, Early
  <2>3. Len(data') = length
    BY <2>1, <2>2, VectorFacts
  <2>4. PassLeft' <= 3 * length + 2 /\ PassLeft' \in Int
    <3>1. end' = length + 1
      BY <2>3 DEF end
    <3>2. Round' \in 0 .. 2
      BY DEF Round
    <3>3. PassLeft' = 3 * ((length + 1) - 1) + Round'
      BY <2>1, <3>1 DEF PassLeft
    <3>4. \A r \in 0 .. 2 : 3 * ((length + 1) - 1) + r \in Int
                           /\ 3 * ((length + 1) - 1) + r <= 3 * length + 2
      BY <2>2
    <3> QED
      BY <3>2, <3>3, <3>4
  <2>5. StepsLeft' = PassLeft' + length + 3
    BY <2>1, <2>3 DEF StepsLeft
  <2>6. StepsLeft = 4 * Len(text) + 6
    BY <2>1 DEF StepsLeft
  <2> QED
    BY <1>1, <2>2, <2>4, <2>5, <2>6
<1>4. CASE ReadCards
  <2>1. phase = "cards" /\ phase' = "cards" /\ data' = data /\ PassLeft' < PassLeft /\ PassLeft' \in Int
    BY <1>4, PassKinds, PassRunsDown DEF ReadCards
  <2>2. StepsLeft' = PassLeft' + Len(data) + 3 /\ StepsLeft = PassLeft + Len(data) + 3
    BY <2>1 DEF StepsLeft
  <2> QED
    BY <1>1, <2>1, <2>2, PassLeftNat
<1>5. CASE CardsRead
  <2>1. /\ phase = "cards" /\ phase' = "count" /\ start = Len(data) + 1
        /\ UNCHANGED <<result, counted>>
    BY <1>5 DEF CardsRead, Goto, Returned, end
  <2>2. StepsLeft' = Len(result) - counted + 1 /\ StepsLeft = PassLeft + Len(data) + 3
    BY <2>1 DEF StepsLeft
  <2> QED
    BY <1>1, <2>1, <2>2, PassLeftNat DEF Sparse
<1>6. CASE Count
  <2>1. phase = "count" /\ phase' = "count" /\ counted' = counted + 1 /\ result' = result
    BY <1>6 DEF Count
  <2> QED
    BY <1>1, <2>1 DEF StepsLeft
<1>7. CASE Summarise
  BY <1>1, <1>7 DEF Summarise, Goto, StepsLeft
<1> QED
  BY <1>2, <1>3, <1>4, <1>5, <1>6, <1>7 DEF Run

(* Every step of the program leaves fewer to come, whatever the file holds; *)
(* what others do to the file adds none; and a program that is aborted has  *)
(* met a file that cannot be sought (card.cc:55-158, myio.hh:130-143).      *)
THEOREM ProgramRunsDown ==
  Spec => /\ [](StepsLeft \in Nat /\ (phase = "abort" => length = -1))
          /\ [][StepsLeft' < StepsLeft \/ (Change /\ StepsLeft' = StepsLeft)]_vars
<1> DEFINE Unsought == phase = "abort" => length = -1
<1>1. Init => Sparse /\ Unsought
  BY EmptyResult DEF Init, Sparse
<1>2. Unsought /\ [Next]_vars => Unsought'
  BY DEF Next, Run, Change, Open, TakeSize, MakeVector, Read, ReadCards, CardsRead, Count,
     Summarise, Goto, vars
<1>3. ASSUME IInv, Sparse, [Next]_vars
      PROVE  [StepsLeft' < StepsLeft \/ (Change /\ StepsLeft' = StepsLeft)]_vars
  <2>1. Change => StepsLeft' = StepsLeft
    BY DEF Change, StepsLeft, PassLeft, Round, end
  <2> QED
    BY <1>3, <2>1, RunRunsDown DEF Next
<1>4. IInv => StepsLeft \in Nat
  BY StepsLeftNat
<1> HIDE DEF Unsought
<1> QED
  BY <1>1, <1>2, <1>3, <1>4, StaysSparse, InitHolds, Inductive, PTL DEF Spec, Unsought

=============================================================================
