--------------------------- MODULE PrintHexProofs ---------------------------
(***************************************************************************)
(* print_hex() for every length, every size of size_t and all options: the *)
(* lines of bytes fit the columns, and the lines printed and those only    *)
(* counted are the lines the bytes need.                                   *)
(***************************************************************************)
EXTENDS PrintHex, FiniteSetTheorems, WellFoundedInduction, TLAPS

USE DEF vars

-----------------------------------------------------------------------------
(* Division. *)

LEMMA DivMod ==
  ASSUME NEW a \in Nat, NEW n \in Nat \ {0}
  PROVE  /\ a % n \in Nat /\ a % n < n /\ a \div n \in Nat
         /\ a = n * (a \div n) + (a % n)
OBVIOUS

(* The quotient and the remainder are the only ones.                        *)
LEMMA DivModUnique ==
  ASSUME NEW n \in Nat \ {0}, NEW q \in Int, NEW r \in Int, NEW p \in Int, NEW s \in Int,
         n * q + r = n * p + s, 0 <= r, r < n, 0 <= s, s < n
  PROVE  q = p /\ r = s
<1>1. n * (q - p) = s - r
  OBVIOUS
<1>2. q - p = 0
  <2>1. CASE q - p >= 1
    <3>1. n * (q - p) >= n
      BY <2>1
    <3> QED
      BY <1>1, <3>1
  <2>2. CASE q - p <= -1
    <3>1. n * (q - p) <= -n
      BY <2>2
    <3> QED
      BY <1>1, <3>1
  <2> QED
    BY <2>1, <2>2
<1> QED
  BY <1>1, <1>2

LEMMA DivModIs ==
  ASSUME NEW n \in Nat \ {0}, NEW a \in Nat, NEW q \in Int, NEW r \in 0 .. n - 1,
         a = n * q + r
  PROVE  a \div n = q /\ a % n = r
<1> DEFINE p == a \div n
           s == a % n
<1>1. s \in Nat /\ s < n /\ p \in Nat /\ a = n * p + s
  BY DivMod
<1> HIDE DEF p, s
<1>2. p = q /\ s = r
  BY <1>1, DivModUnique
<1> QED
  BY <1>2 DEF p, s

(* One more, and rounding up.                                               *)
LEMMA OneMore ==
  ASSUME NEW a \in Nat, NEW n \in Nat \ {0}
  PROVE  IF (a + 1) % n = 0
           THEN a % n = n - 1 /\ (a + 1) \div n = a \div n + 1
           ELSE (a + 1) % n = (a % n) + 1 /\ (a + 1) \div n = a \div n
<1> DEFINE q == a \div n
           r == a % n
<1>1. r \in Nat /\ r < n /\ q \in Nat /\ a = n * q + r
  BY DivMod
<1> HIDE DEF q, r
<1>2. CASE r = n - 1
  <2>1. a + 1 = n * (q + 1) + 0 /\ q + 1 \in Int /\ 0 \in 0 .. n - 1 /\ a + 1 \in Nat
    BY <1>1, <1>2
  <2>2. (a + 1) \div n = q + 1 /\ (a + 1) % n = 0
    BY <2>1, DivModIs
  <2> QED
    BY <1>2, <2>2 DEF q, r
<1>3. CASE r # n - 1
  <2>1. a + 1 = n * q + (r + 1) /\ r + 1 \in 0 .. n - 1 /\ a + 1 \in Nat
    BY <1>1, <1>3
  <2>2. (a + 1) \div n = q /\ (a + 1) % n = r + 1
    BY <1>1, <2>1, DivModIs
  <2>3. r + 1 # 0
    BY <1>1
  <2> QED
    BY <2>2, <2>3 DEF q, r
<1> QED
  BY <1>2, <1>3

LEMMA RoundedUp ==
  ASSUME NEW a \in Nat, NEW n \in Nat \ {0}
  PROVE  (a + n - 1) \div n = IF a % n = 0 THEN a \div n ELSE a \div n + 1
<1> DEFINE q == a \div n
           r == a % n
           b == a + n - 1
<1>1. r \in Nat /\ r < n /\ q \in Nat /\ a = n * q + r
  BY DivMod
<1> HIDE DEF q, r
<1>2. CASE r = 0
  <2>1. b = n * q + (n - 1) /\ n - 1 \in 0 .. n - 1 /\ b \in Nat
    BY <1>1, <1>2
  <2> HIDE DEF b
  <2>2. b \div n = q
    BY <1>1, <2>1, DivModIs
  <2> QED
    BY <1>2, <2>2 DEF q, r, b
<1>3. CASE r # 0
  <2>1. b = n * (q + 1) + (r - 1) /\ r - 1 \in 0 .. n - 1 /\ b \in Nat /\ q + 1 \in Int
    BY <1>1, <1>3
  <2> HIDE DEF b
  <2>2. b \div n = q + 1
    BY <2>1, DivModIs
  <2> QED
    BY <1>3, <2>2 DEF q, r, b
<1> QED
  BY <1>2, <1>3

(* How many of the first numbers n divides, by the least of which that is   *)
(* not so.                                                                  *)
Multiples(n, m) == {p \in 1 .. m : p % n = 0}

LEMMA LeastOf ==
  ASSUME NEW T \in SUBSET Nat, T # {}
  PROVE  \E n \in T : \A m \in T : n <= m
<1>1. \E n \in T : \A m \in T : ~(<<m, n>> \in OpToRel(<, Nat))
  BY NatLessThanWellFounded, WFMin, Zenon
<1>2. PICK n \in T : \A m \in T : ~(m < n)
  BY <1>1, Zenon DEF OpToRel
<1> QED
  BY <1>2

LEMMA MultiplesFinite ==
  ASSUME NEW n \in Nat \ {0}, NEW m \in Nat
  PROVE  /\ IsFiniteSet(Multiples(n, m)) /\ Cardinality(Multiples(n, m)) \in Nat
         /\ m + 1 \notin Multiples(n, m)
         /\ Multiples(n, m + 1) = IF (m + 1) % n = 0 THEN Multiples(n, m) \cup {m + 1}
                                  ELSE Multiples(n, m)
<1>1. IsFiniteSet(1 .. m) /\ Multiples(n, m) \subseteq 1 .. m
  BY FS_Interval DEF Multiples
<1>2. IsFiniteSet(Multiples(n, m))
  BY <1>1, FS_Subset
<1>3. 1 .. m + 1 = (1 .. m) \cup {m + 1} /\ m + 1 \notin 1 .. m
  OBVIOUS
<1>4. m + 1 \notin Multiples(n, m)
  BY <1>1, <1>3
<1>5. Multiples(n, m + 1) = IF (m + 1) % n = 0 THEN Multiples(n, m) \cup {m + 1}
                            ELSE Multiples(n, m)
  BY <1>3, Zenon DEF Multiples
<1> QED
  BY <1>2, <1>4, <1>5, FS_CardinalityType

LEMMA HowManyMultiples ==
  ASSUME NEW n \in Nat \ {0}
  PROVE  \A m \in Nat : Cardinality(Multiples(n, m)) = m \div n
<1> DEFINE T == {m \in Nat : Cardinality(Multiples(n, m)) # m \div n}
<1>1. SUFFICES ASSUME T # {} PROVE FALSE
  OBVIOUS
<1>2. PICK m \in T : \A k \in T : m <= k
  BY <1>1, LeastOf
<1>3. CASE m = 0
  <2>1. Multiples(n, 0) = {} /\ 0 \div n = 0
    <3>1. 0 \in Nat /\ 0 \in 0 .. n - 1 /\ 0 \in Int /\ 0 = n * 0 + 0
      OBVIOUS
    <3> QED
      BY <3>1, DivModIs DEF Multiples
  <2> QED
    BY <1>2, <1>3, <2>1, FS_EmptySet
<1>4. CASE m # 0
  <2> DEFINE k == m - 1
  <2>1. k \in Nat /\ k \notin T /\ k + 1 = m
    BY <1>2, <1>4
  <2>2. Cardinality(Multiples(n, k)) = k \div n
    BY <2>1
  <2> HIDE DEF k
  <2>3. /\ IsFiniteSet(Multiples(n, k)) /\ m \notin Multiples(n, k)
        /\ Multiples(n, m) = IF m % n = 0 THEN Multiples(n, k) \cup {m} ELSE Multiples(n, k)
    BY <2>1, MultiplesFinite
  <2>4. IF m % n = 0 THEN m \div n = k \div n + 1 ELSE m \div n = k \div n
    BY <2>1, OneMore
  <2>5. Cardinality(Multiples(n, k) \cup {m}) = Cardinality(Multiples(n, k)) + 1
    BY <2>3, FS_AddElement
  <2>6. Cardinality(Multiples(n, m)) = m \div n
    BY <2>2, <2>3, <2>4, <2>5
  <2> QED
    BY <1>2, <2>6
<1> QED
  BY <1>3, <1>4

-----------------------------------------------------------------------------
(* The inductive invariant.                                                 *)

Room == columns % SizeLimit
Cell == 2 + sepLen

(* Within a line the width tells how many of its bytes are printed, and     *)
(* each line ended holds numPerLine of them.                                *)
Printing ==
  pc = "print" =>
    /\ cur < length /\ more = 0
    /\ numPerLine > 0 => width = (cur % numPerLine) * Cell /\ lines = cur \div numPerLine

(* Without a division by zero only an empty input is done in a line of no   *)
(* columns.                                                                 *)
Ended ==
  pc = "done" =>
    /\ more >= 0 /\ (more > 0 <=> cur < length)
    /\ length > 0 => numPerLine > 0 /\ lines + more = LinesNeeded

IInv ==
  /\ TypeOK /\ Printing /\ Ended
  /\ FitsColumns

LEMMA OptionFacts ==
  ASSUME TypeOK
  PROVE  /\ Room \in Nat /\ Cell \in Nat \ {0} /\ Cell >= 2
         /\ numPerLine \in Nat /\ numPerLine * Cell <= Room
         /\ length \in Nat /\ cur \in Nat /\ cur <= length
<1>1. /\ columns \in Int /\ SizeLimit \in Nat \ {0} /\ sepLen \in Nat
      /\ length \in Nat /\ cur \in 0 .. length
  BY OptionAssumption DEF TypeOK
<1>2. Room \in Nat
  BY <1>1 DEF Room
<1>3. Cell \in Nat \ {0} /\ Cell >= 2
  BY <1>1 DEF Cell
<1>4. numPerLine = Room \div Cell
  BY DEF numPerLine, Room, Cell
<1> HIDE DEF Room, Cell
<1>5. /\ Room % Cell \in Nat /\ Room \div Cell \in Nat
      /\ Room = Cell * (Room \div Cell) + (Room % Cell)
  BY <1>2, <1>3, DivMod
<1>6. numPerLine \in Nat /\ Room = Cell * numPerLine + (Room % Cell)
  BY <1>4, <1>5
<1>7. \A a, b \in Nat : a * b = b * a
  OBVIOUS
<1>8. numPerLine * Cell = Cell * numPerLine
  BY <1>3, <1>6, <1>7
<1>9. numPerLine * Cell <= Room
  BY <1>2, <1>3, <1>5, <1>6, <1>8
<1> QED
  BY <1>1, <1>2, <1>3, <1>6, <1>9

LEMMA RestFacts ==
  ASSUME NEW n \in Int
  PROVE  RestWidth(n) \in 0 .. 17
<1> DEFINE D == {d \in 0 .. 7 : n >= 16^d}
<1>1. IsFiniteSet(0 .. 7) /\ Cardinality(0 .. 7) = 8
  <2>1. 0 \in Int /\ 7 \in Int
    OBVIOUS
  <2>2. /\ IsFiniteSet(0 .. 7)
        /\ Cardinality(0 .. 7) = IF 0 > 7 THEN 0 ELSE 7 - 0 + 1
    BY <2>1, FS_Interval, Zenon
  <2> QED
    BY <2>2
<1>2. IsFiniteSet(D) /\ Cardinality(D) <= 8
  <2>1. D \in SUBSET (0 .. 7)
    OBVIOUS
  <2> HIDE DEF D
  <2> QED
    BY <1>1, <2>1, FS_Subset
<1>3. Cardinality(D) \in Nat
  BY <1>2, FS_CardinalityType
<1>4. RestWidth(n) = IF n > 0 THEN 4 + Cardinality(D) + 5 ELSE 0
  BY DEF RestWidth, HexDigits
<1> HIDE DEF D
<1> QED
  BY <1>2, <1>3, <1>4

LEMMA InitHolds == Init => IInv
<1> SUFFICES ASSUME Init PROVE IInv
  OBVIOUS
<1>1. TypeOK
  BY OptionAssumption DEF Init, TypeOK
<1>2. Room \in Nat /\ length \in Nat /\ numPerLine \in Nat
  BY <1>1, OptionFacts
<1>3. Printing
  <2>1. ASSUME numPerLine > 0
        PROVE  0 % numPerLine = 0 /\ 0 \div numPerLine = 0
    <3>1. numPerLine \in Nat \ {0} /\ 0 \in Nat /\ 0 \in Int /\ 0 \in 0 .. numPerLine - 1
          /\ 0 = numPerLine * 0 + 0
      BY <1>2, <2>1
    <3> QED
      BY <3>1, DivModIs
  <2>2. 0 * Cell = 0
    BY <1>1, OptionFacts
  <2> QED
    BY <1>2, <2>1, <2>2 DEF Init, Printing
<1>4. Ended
  BY <1>2 DEF Init, Ended
<1> QED
  BY <1>1, <1>2, <1>3, <1>4 DEF Init, IInv, FitsColumns, Room

LEMMA ByteKeeps ==
  ASSUME IInv, PrintByte
  PROVE  IInv'
<1> DEFINE n == numPerLine
<1>1. /\ pc = "print" /\ pc' = "print" /\ n > 0 /\ cur' = cur + 1 /\ width' = width + 2 + sepLen
      /\ (cur + 1) % n # 0 /\ cur + 1 # length
      /\ UNCHANGED <<columns, maxLines, sepLen, length, lines, widest, more>>
  BY DEF PrintByte, LineEnds
<1>2. /\ n \in Nat \ {0} /\ Cell \in Nat /\ length \in Nat /\ cur \in Nat /\ cur < length
      /\ more = 0 /\ width = (cur % n) * Cell /\ lines = cur \div n
  BY <1>1, OptionFacts DEF IInv, Printing
<1>3. n' = n /\ Cell' = Cell /\ Room' = Room
  BY <1>1 DEF numPerLine, Cell, Room
<1> HIDE DEF n
<1>4. (cur + 1) % n = (cur % n) + 1 /\ (cur + 1) \div n = cur \div n /\ cur % n \in Nat
  BY <1>1, <1>2, OneMore, DivMod
<1>5. width' = ((cur + 1) % n) * Cell
  <2>1. width' = (cur % n) * Cell + Cell
    <3>1. width \in Nat /\ sepLen \in Nat
      BY OptionAssumption DEF IInv, TypeOK
    <3>2. width' = width + Cell
      BY <1>1, <3>1 DEF Cell
    <3> QED
      BY <1>2, <3>2
  <2>2. \A a \in Nat : (a + 1) * Cell = a * Cell + Cell
    BY <1>2
  <2> QED
    BY <1>4, <2>1, <2>2
<1>6. width' \in Nat
  BY <1>1, OptionAssumption DEF IInv, TypeOK
<1>7. TypeOK'
  BY <1>1, <1>2, <1>6 DEF IInv, TypeOK
<1>8. Printing'
  BY <1>1, <1>2, <1>3, <1>4, <1>5 DEF Printing, n
<1> QED
  BY <1>1, <1>3, <1>7, <1>8 DEF IInv, Ended, FitsColumns

LEMMA LineKeeps ==
  ASSUME IInv, EndLine
  PROVE  IInv'
<1> DEFINE n == numPerLine
           needed == LinesNeeded
           rem == IF lines + 1 = maxLines THEN needed - maxLines ELSE 0
<1>1. /\ pc = "print" /\ n > 0 /\ cur' = cur + 1 /\ lines' = lines + 1 /\ width' = 0
      /\ (cur + 1) % n = 0 \/ cur + 1 = length
      /\ widest' = Wider(widest, Wider(width + 2, RestWidth(rem)))
      /\ more' = rem
      /\ pc' = IF lines + 1 = maxLines \/ cur + 1 = length THEN "done" ELSE "print"
      /\ UNCHANGED <<columns, maxLines, sepLen, length>>
  BY DEF EndLine, LineEnds
<1>2. /\ n \in Nat \ {0} /\ Cell \in Nat \ {0} /\ Cell >= 2 /\ length \in Nat /\ cur \in Nat
      /\ cur < length /\ more = 0 /\ width = (cur % n) * Cell /\ lines = cur \div n
      /\ n * Cell <= Room /\ Room \in Nat /\ widest <= Room /\ widest \in Nat
      /\ maxLines \in Int /\ lines \in 0 .. cur
  BY <1>1, OptionFacts, OptionAssumption DEF IInv, Printing, TypeOK, FitsColumns, Room
<1>3. n' = n /\ Cell' = Cell /\ Room' = Room /\ needed' = needed
  BY <1>1 DEF numPerLine, Cell, Room, LinesNeeded
<1>4. needed = IF length % n = 0 THEN length \div n ELSE length \div n + 1
  BY <1>2, RoundedUp DEF LinesNeeded
<1>4a. /\ needed \in Nat /\ rem \in Int
      /\ rem = IF lines + 1 = maxLines THEN needed - maxLines ELSE 0
  <2>1. length \div n \in Nat
    BY <1>2, DivMod
  <2> QED
    BY <1>2, <1>4, <2>1
<1> HIDE DEF n, needed, rem
<1>5. widest' \in Nat /\ FitsColumns'
  <2>1. cur % n \in Nat /\ cur % n <= n - 1
    BY <1>2, DivMod
  <2>2. (cur % n) * Cell <= (n - 1) * Cell /\ (n - 1) * Cell = n * Cell - Cell
    <3>1. \A a, b, c \in Nat : a <= b => a * c <= b * c
      OBVIOUS
    <3>2. n - 1 \in Nat /\ Cell \in Nat
      BY <1>2
    <3>3. (n - 1) * Cell = n * Cell - Cell
      BY <1>2
    <3> QED
      BY <2>1, <3>1, <3>2, <3>3
  <2>3. width \in Nat /\ width + 2 <= Room
    <3>1. n * Cell \in Nat
      BY <1>2
    <3>2. width \in Nat
      BY DEF IInv, TypeOK
    <3> QED
      BY <1>2, <2>2, <3>1, <3>2
  <2>4. RestWidth(rem) \in Nat /\ (RestWidth(rem) > 0 => rem > 0)
    BY <1>4a, RestFacts DEF RestWidth
  <2> DEFINE rest == RestWidth(rem)
  <2>5. widest' = Wider(widest, Wider(width + 2, rest)) /\ more' = rem
    BY <1>1
  <2>6. rest \in Nat
    BY <2>4
  <2> HIDE DEF rest
  <2>7. widest' \in Nat /\ (widest' > Room => widest' = rest)
    BY <1>2, <2>3, <2>5, <2>6 DEF Wider
  <2>8. widest' > Room => more' > 0 /\ widest' = RestWidth(more')
    BY <1>2, <2>4, <2>5, <2>7 DEF rest
  <2> QED
    BY <1>3, <2>7, <2>8 DEF FitsColumns, Room
<1>6. lines + 1 = cur \div n + 1 /\ cur \div n \in Nat
  BY <1>2, DivMod
<1>7. CASE (cur + 1) % n = 0 /\ cur + 1 < length
  <2>1. (cur + 1) \div n = cur \div n + 1
    BY <1>2, <1>7, OneMore
  <2>2. lines + 1 < needed
    <3> DEFINE q == (cur + 1) \div n
               p == length \div n
               s == length % n
    <3>1. q \in Nat /\ cur + 1 = n * q + 0
      BY <1>2, <1>7, DivMod
    <3>2. p \in Nat /\ s \in Nat /\ length = n * p + s
      BY <1>2, DivMod
    <3>3. needed = (IF s = 0 THEN p ELSE p + 1) /\ lines + 1 = q
      BY <1>4, <1>6, <2>1
    <3> HIDE DEF q, p, s
    <3>4. n * q < n * p + s
      <4>1. cur + 1 = n * q
        BY <1>2, <3>1
      <4> QED
        BY <1>7, <3>2, <4>1
    <3>5. q <= p
      <4> SUFFICES ASSUME q >= p + 1 PROVE FALSE
        BY <3>1, <3>2
      <4>1. s < n
        BY <1>2, DivMod DEF s
      <4>2. n * q >= n * (p + 1)
        BY <1>2, <3>1, <3>2
      <4>3. n * (p + 1) = n * p + n
        BY <1>2, <3>2
      <4>4. n * p \in Nat /\ n * q \in Nat
        BY <1>2, <3>1, <3>2
      <4> QED
        BY <1>2, <3>2, <3>4, <4>1, <4>2, <4>3, <4>4
    <3>6. s = 0 => q # p
      BY <1>2, <3>1, <3>2, <3>4
    <3> QED
      BY <3>1, <3>2, <3>3, <3>5, <3>6
  <2>4. TypeOK'
    BY <1>1, <1>2, <1>5, <1>7, <1>4a DEF IInv, TypeOK
  <2>5. Printing'
    <3>1. 0 * Cell = 0
      BY <1>2
    <3> QED
      BY <1>1, <1>2, <1>3, <1>6, <1>7, <1>4a, <2>1, <2>2, <3>1 DEF Printing, n
  <2>6. Ended'
    BY <1>1, <1>2, <1>3, <1>7, <1>4a, <2>2 DEF Ended, n, needed
  <2> QED
    BY <1>5, <2>4, <2>5, <2>6 DEF IInv
<1>8. CASE cur + 1 = length
  <2>1. lines + 1 = needed
    BY <1>2, <1>4, <1>6, <1>8, OneMore
  <2>2. pc' = "done" /\ more' = 0
    BY <1>1, <1>2, <1>8, <1>4a, <2>1
  <2>3. TypeOK'
    BY <1>1, <1>2, <1>5, <1>8, <2>2 DEF IInv, TypeOK
  <2>4. Ended'
    BY <1>1, <1>2, <1>3, <1>8, <2>1, <2>2 DEF Ended, n, needed
  <2> QED
    BY <1>5, <2>2, <2>3, <2>4 DEF IInv, Printing
<1> QED
  BY <1>1, <1>2, <1>7, <1>8

LEMMA Inductive == IInv /\ [Next]_vars => IInv'
<1> SUFFICES ASSUME IInv, [Next]_vars PROVE IInv'
  OBVIOUS
<1>1. CASE DivideByZero
  BY <1>1 DEF DivideByZero, IInv, TypeOK, Printing, Ended, FitsColumns
<1>2. CASE UNCHANGED vars
  BY <1>2 DEF IInv, TypeOK, Printing, Ended, FitsColumns, Room, Cell, numPerLine, LinesNeeded
<1> QED
  BY <1>1, <1>2, ByteKeeps, LineKeeps DEF Next

LEMMA Invariance == Spec => []IInv
BY InitHolds, Inductive, PTL DEF Spec

-----------------------------------------------------------------------------
(* Results.                                                                 *)

(* The model keeps to its types.                                            *)
THEOREM TypeCorrect == Spec => []TypeOK
<1>1. IInv => TypeOK
  BY DEF IInv
<1> QED
  BY <1>1, Invariance, PTL

(* No line of bytes is wider than the columns, as the size_t they are       *)
(* converted to, and the line that counts the rest takes at most seventeen. *)
THEOREM LinesFit == Spec => [](FitsColumns /\ (widest > Room => widest <= 17))
<1>1. IInv => FitsColumns /\ (widest > Room => widest <= 17)
  <2> SUFFICES ASSUME IInv PROVE FitsColumns /\ (widest > Room => widest <= 17)
    OBVIOUS
  <2>1. FitsColumns /\ more \in Int
    BY DEF IInv, TypeOK
  <2>2. RestWidth(more) <= 17
    BY <2>1, RestFacts
  <2> QED
    BY <2>1, <2>2 DEF FitsColumns, Room
<1> QED
  BY <1>1, Invariance, PTL

(* A line ends after each multiple of numPerLine and after the last byte.   *)
LEMMA HowManyLines ==
  ASSUME IInv, length > 0, numPerLine > 0
  PROVE  Cardinality({p \in 1 .. length : p % numPerLine = 0 \/ p = length}) = LinesNeeded
<1> DEFINE n == numPerLine
           S == {p \in 1 .. length : p % n = 0 \/ p = length}
           M == Multiples(n, length)
<1>1. n \in Nat \ {0} /\ length \in Nat \ {0}
  BY OptionFacts DEF IInv
<1>2. IsFiniteSet(M) /\ Cardinality(M) = length \div n
  BY <1>1, MultiplesFinite, HowManyMultiples
<1>3. LinesNeeded = IF length % n = 0 THEN length \div n ELSE length \div n + 1
  BY <1>1, RoundedUp DEF LinesNeeded
<1>4. length \in 1 .. length
  BY <1>1
<1>5. CASE length % n = 0
  <2>1. S = M
    BY <1>4, <1>5 DEF Multiples
  <2> QED
    BY <1>2, <1>3, <1>5, <2>1
<1>6. CASE length % n # 0
  <2>1. S = M \cup {length} /\ length \notin M
    BY <1>4, <1>6 DEF Multiples
  <2>2. Cardinality(M \cup {length}) = Cardinality(M) + 1
    BY <1>2, <2>1, FS_AddElement
  <2> QED
    BY <1>2, <1>3, <1>6, <2>1, <2>2
<1> QED
  BY <1>5, <1>6

(* The number in "... more" is that of the lines left out.                  *)
THEOREM NothingUncounted == Spec => []RestIsCounted
<1>1. IInv => RestIsCounted
  BY HowManyLines DEF IInv, Ended, RestIsCounted
<1> QED
  BY <1>1, Invariance, PTL

=============================================================================
