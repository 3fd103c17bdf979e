--------------------------- MODULE StreamFnProofs ---------------------------
(***************************************************************************)
(* The combinators of stream.cc, for every predicate, mapper and size, any *)
(* number of holders of the closure, of copies, of calls and of exceptions.*)
(***************************************************************************)
EXTENDS StreamFn, SequenceTheorems, WellFoundedInduction, TLAPS

-----------------------------------------------------------------------------
(* Sequences of anything: an argument is a number, a vector of them, or     *)
(* what the mapper makes.                                                   *)
IsSeq(s) == s \in Seq(Range(s))

LEMMA SeqFacts ==
  ASSUME NEW s, IsSeq(s)
  PROVE  Len(s) \in Nat /\ DOMAIN s = 1 .. Len(s) /\ (s = <<>> <=> Len(s) = 0)
BY LenProperties, EmptySeq DEF IsSeq

LEMMA EmptyIsSeq == IsSeq(<<>>) /\ Len(<<>>) = 0
<1>1. <<>> \in Seq({})
  BY EmptySeq
<1> QED
  BY <1>1, SeqOfRange, EmptySeq DEF IsSeq

LEMMA OneIsSeq ==
  ASSUME NEW e
  PROVE  IsSeq(<<e>>)
<1>1. <<e>> \in Seq({e})
  OBVIOUS
<1> QED
  BY <1>1, SeqOfRange DEF IsSeq

LEMMA AppendFacts ==
  ASSUME NEW s, NEW e, IsSeq(s)
  PROVE  /\ IsSeq(Append(s, e)) /\ Len(Append(s, e)) = Len(s) + 1
         /\ \A i \in 1 .. Len(s) : Append(s, e)[i] = s[i]
         /\ Append(s, e)[Len(s) + 1] = e
<1> DEFINE S == Range(s) \cup {e}
<1>1. s \in Seq(S) /\ e \in S
  BY SeqMonotonic DEF IsSeq
<1>2. /\ Append(s, e) \in Seq(S) /\ Len(Append(s, e)) = Len(s) + 1
      /\ \A i \in 1 .. Len(s) : Append(s, e)[i] = s[i]
      /\ Append(s, e)[Len(s) + 1] = e
  BY <1>1, AppendProperties
<1>3. IsSeq(Append(s, e))
  BY <1>2, SeqOfRange DEF IsSeq
<1> QED
  BY <1>2, <1>3

LEMMA AppendAsConcat ==
  ASSUME NEW s, NEW e, IsSeq(s)
  PROVE  Append(s, e) = s \o <<e>>
<1> DEFINE S == Range(s) \cup {e}
<1>1. s \in Seq(S) /\ e \in S
  BY SeqMonotonic DEF IsSeq
<1> QED
  BY <1>1, AppendIsConcat

(* Appending to the second of two sequences put together.                   *)
LEMMA ConcatAppend ==
  ASSUME NEW s, NEW u, NEW e, IsSeq(s), IsSeq(u)
  PROVE  s \o Append(u, e) = Append(s \o u, e)
<1> DEFINE S == Range(s) \cup Range(u) \cup {e}
<1>1. s \in Seq(S) /\ u \in Seq(S) /\ e \in S
  BY SeqMonotonic DEF IsSeq
<1>2. s \o u \in Seq(S) /\ <<e>> \in Seq(S)
  BY <1>1, ConcatProperties
<1>3. Append(u, e) = u \o <<e>> /\ Append(s \o u, e) = (s \o u) \o <<e>>
  BY <1>1, <1>2, AppendIsConcat
<1> QED
  BY <1>1, <1>2, <1>3, ConcatAssociative

LEMMA ConcatEmpty ==
  ASSUME NEW s, IsSeq(s)
  PROVE  s \o <<>> = s /\ <<>> \o s = s
BY ConcatEmptySeq DEF IsSeq

LEMMA ConcatIsSeq ==
  ASSUME NEW s, NEW u, IsSeq(s), IsSeq(u)
  PROVE  IsSeq(s \o u)
<1> DEFINE S == Range(s) \cup Range(u)
<1>1. s \in Seq(S) /\ u \in Seq(S)
  BY SeqMonotonic DEF IsSeq
<1> QED
  BY <1>1, ConcatProperties, SeqOfRange DEF IsSeq

LEMMA LeastOf ==
  ASSUME NEW T \in SUBSET Nat, T # {}
  PROVE  \E n \in T : \A m \in T : n <= m
<1>1. \E n \in T : \A m \in T : ~(<<m, n>> \in OpToRel(<, Nat))
  BY NatLessThanWellFounded, WFMin, Zenon
<1>2. PICK n \in T : \A m \in T : ~(m < n)
  BY <1>1, Zenon DEF OpToRel
<1> QED
  BY <1>2

Flattens(f, ss, n) ==
  f = [i \in 1 .. n |-> IF i = 1 THEN ss[i] ELSE f[i - 1] \o ss[i]]

LEMMA FlattensExists ==
  ASSUME NEW ss, NEW n \in Nat
  PROVE  \E f : Flattens(f, ss, n)
<1> DEFINE T == {m \in Nat : ~ \E f : Flattens(f, ss, m)}
<1>1. SUFFICES ASSUME T # {} PROVE FALSE
  OBVIOUS
<1>2. PICK m \in T : \A k \in T : m <= k
  BY <1>1, LeastOf
<1>3. CASE m = 0
  <2> DEFINE f == [i \in 1 .. 0 |-> 0]
  <2>1. Flattens(f, ss, 0)
    BY DEF Flattens
  <2> QED
    BY <1>2, <1>3, <2>1
<1>4. CASE m # 0
  <2>1. m - 1 \in Nat /\ m - 1 \notin T
    BY <1>2, <1>4
  <2>2. PICK f : Flattens(f, ss, m - 1)
    BY <2>1
  <2> DEFINE last == IF m = 1 THEN ss[m] ELSE f[m - 1] \o ss[m]
             g == [i \in 1 .. m |-> IF i = m THEN last ELSE f[i]]
  <2>3. \A i \in 1 .. m : g[i] = IF i = 1 THEN ss[i] ELSE g[i - 1] \o ss[i]
    <3> SUFFICES ASSUME NEW i \in 1 .. m
                 PROVE  g[i] = IF i = 1 THEN ss[i] ELSE g[i - 1] \o ss[i]
      OBVIOUS
    <3>1. i # 1 => i - 1 \in 1 .. m - 1 /\ g[i - 1] = f[i - 1]
      BY <2>1
    <3>2. CASE i = m
      BY <3>1, <3>2
    <3>3. CASE i # m
      <4>1. i \in 1 .. m - 1 /\ g[i] = f[i]
        BY <2>1, <3>3
      <4>2. f[i] = IF i = 1 THEN ss[i] ELSE f[i - 1] \o ss[i]
        BY <2>2, <4>1 DEF Flattens
      <4> QED
        BY <3>1, <4>1, <4>2
    <3> QED
      BY <3>2, <3>3
  <2>4. Flattens(g, ss, m)
    <3> HIDE DEF last
    <3>1. g = [i \in 1 .. m |-> g[i]]
      OBVIOUS
    <3> HIDE DEF g
    <3> QED
      BY <2>3, <3>1 DEF Flattens
  <2> QED
    BY <1>2, <2>4
<1> QED
  BY <1>3, <1>4

LEMMA FlattenIs ==
  ASSUME NEW ss, Len(ss) \in Nat, Len(ss) # 0
  PROVE  \E f : Flattens(f, ss, Len(ss)) /\ FlattenSeq(ss) = f[Len(ss)]
<1> DEFINE g == CHOOSE f : Flattens(f, ss, Len(ss))
<1>1. Flattens(g, ss, Len(ss))
  BY FlattensExists
<1>2. FlattenSeq(ss) = g[Len(ss)]
  BY Zenon DEF FlattenSeq, Flattens
<1> QED
  BY <1>1, <1>2

(* FlattenSeq of a sequence of sequences and one more.                      *)
LEMMA FlattenAppend ==
  ASSUME NEW ss, NEW s, IsSeq(ss), IsSeq(s)
  PROVE  FlattenSeq(Append(ss, s)) = FlattenSeq(ss) \o s
<1> DEFINE more == Append(ss, s)
           n == Len(ss)
<1>1. /\ n \in Nat /\ Len(more) = n + 1 /\ more[n + 1] = s
      /\ \A i \in 1 .. n : more[i] = ss[i]
  BY SeqFacts, AppendFacts
<1> HIDE DEF more
<1>2. PICK g : Flattens(g, more, n + 1) /\ FlattenSeq(more) = g[n + 1]
  BY <1>1, FlattenIs
<1>3. \A i \in 1 .. n + 1 : g[i] = IF i = 1 THEN more[i] ELSE g[i - 1] \o more[i]
  BY <1>2, <1>1 DEF Flattens
<1>4. CASE n = 0
  <2>1. ss = <<>> /\ FlattenSeq(ss) = <<>>
    BY <1>4, SeqFacts DEF FlattenSeq
  <2>2. FlattenSeq(more) = s
    BY <1>1, <1>2, <1>3, <1>4
  <2> QED
    BY <2>1, <2>2, ConcatEmpty DEF more
<1>5. CASE n # 0
  <2>1. PICK f : Flattens(f, ss, n) /\ FlattenSeq(ss) = f[n]
    BY <1>1, <1>5, FlattenIs
  <2>2. \A i \in 1 .. n : f[i] = IF i = 1 THEN ss[i] ELSE f[i - 1] \o ss[i]
    BY <2>1, <1>1 DEF Flattens
  <2>3. \A i \in 1 .. n : g[i] = f[i]
    <3> DEFINE T == {i \in 1 .. n : g[i] # f[i]}
    <3>1. SUFFICES ASSUME T # {} PROVE FALSE
      OBVIOUS
    <3>2. T \in SUBSET Nat
      BY <1>1
    <3>3. PICK i \in T : \A m \in T : i <= m
      BY <3>1, <3>2, LeastOf
    <3>4. i \in 1 .. n /\ i \in 1 .. n + 1 /\ more[i] = ss[i]
      BY <1>1, <3>3
    <3>5. CASE i = 1
      BY <1>3, <2>2, <3>3, <3>4, <3>5
    <3>6. CASE i # 1
      <4>1. i - 1 \in 1 .. n /\ i - 1 \notin T
        BY <1>1, <3>3, <3>4, <3>6
      <4>2. g[i - 1] = f[i - 1]
        BY <4>1
      <4> QED
        BY <1>3, <2>2, <3>3, <3>4, <3>6, <4>2
    <3> QED
      BY <3>5, <3>6
  <2>4. g[n + 1] = g[n] \o s /\ g[n] = f[n]
    <3>1. n \in 1 .. n /\ n + 1 \in 1 .. n + 1 /\ n + 1 # 1 /\ (n + 1) - 1 = n
      BY <1>1, <1>5
    <3>2. g[n + 1] = g[(n + 1) - 1] \o more[n + 1]
      BY <1>3, <3>1, Zenon
    <3> QED
      BY <1>1, <2>3, <3>1, <3>2
  <2> QED
    BY <1>2, <2>1, <2>4 DEF more
<1> QED
  BY <1>4, <1>5

LEMMA FlattenEmpty == FlattenSeq(<<>>) = <<>>
BY EmptyIsSeq DEF FlattenSeq

-----------------------------------------------------------------------------
(* Sequences made item by item from another: one item more makes one more.  *)

Upto(f, n) == f = [i \in 1 .. n |-> f[i]]

LEMMA Grows ==
  ASSUME NEW n \in Nat, NEW f, NEW g, Upto(f, n), Upto(g, n + 1),
         \A i \in 1 .. n : g[i] = f[i]
  PROVE  IsSeq(f) /\ Len(f) = n /\ g = Append(f, g[n + 1])
<1> DEFINE e == g[n + 1]
           S == {f[i] : i \in 1 .. n} \cup {e}
<1>1. f \in [1 .. n -> S]
  BY DEF Upto
<1>2. g \in [1 .. n + 1 -> S]
  <2>1. \A i \in 1 .. n : g[i] \in S
    OBVIOUS
  <2>2. \A i \in 1 .. n + 1 : i \in 1 .. n \/ i = n + 1
    OBVIOUS
  <2>3. \A i \in 1 .. n + 1 : g[i] \in S
    BY <2>1, <2>2
  <2> HIDE DEF S
  <2> QED
    BY <2>3 DEF Upto
<1> HIDE DEF S
<1>3. f \in Seq(S) /\ Len(f) = n /\ g \in Seq(S) /\ Len(g) = n + 1
  BY <1>1, <1>2
<1>4. e \in S
  BY DEF S
<1>5. /\ Append(f, e) \in Seq(S) /\ Len(Append(f, e)) = n + 1
      /\ \A i \in 1 .. n : Append(f, e)[i] = f[i]
      /\ Append(f, e)[n + 1] = e
  BY <1>3, <1>4, AppendProperties
<1>6. \A i \in 1 .. n + 1 : g[i] = Append(f, e)[i]
  <2>1. \A i \in 1 .. n + 1 : i \in 1 .. n \/ i = n + 1
    OBVIOUS
  <2> QED
    BY <1>5, <2>1
<1>7. g = Append(f, e)
  BY <1>3, <1>5, <1>6, SeqEqual
<1>8. IsSeq(f)
  BY <1>3, SeqOfRange DEF IsSeq
<1> QED
  BY <1>3, <1>7, <1>8

LEMMA ArgumentsAppend ==
  ASSUME NEW made, NEW m, IsSeq(made)
  PROVE  /\ IsSeq(Arguments(made)) /\ Len(Arguments(made)) = Len(made)
         /\ Arguments(Append(made, m)) = Append(Arguments(made), m.arg)
<1> DEFINE n == Len(made)
           f == Arguments(made)
           g == Arguments(Append(made, m))
<1>1. /\ n \in Nat /\ DOMAIN made = 1 .. n /\ DOMAIN Append(made, m) = 1 .. n + 1
      /\ \A i \in 1 .. n : Append(made, m)[i] = made[i]
      /\ Append(made, m)[n + 1] = m
  BY SeqFacts, AppendFacts
<1>2. Upto(f, n) /\ Upto(g, n + 1)
  BY <1>1 DEF Arguments, Upto
<1>3. (\A i \in 1 .. n : g[i] = f[i]) /\ g[n + 1] = m.arg
  BY <1>1 DEF Arguments
<1> HIDE DEF f, g, n
<1> QED
  BY <1>1, <1>2, <1>3, Grows DEF f, g, n

LEMMA DeliveredAppend ==
  ASSUME NEW made, NEW m, IsSeq(made)
  PROVE  /\ IsSeq(Delivered(made))
         /\ Delivered(Append(made, m)) = Append(Delivered(made), IF m.ok THEN m.arg ELSE <<>>)
<1> DEFINE n == Len(made)
           f == Delivered(made)
           g == Delivered(Append(made, m))
           e == IF m.ok THEN m.arg ELSE <<>>
<1>1. /\ n \in Nat /\ DOMAIN made = 1 .. n /\ DOMAIN Append(made, m) = 1 .. n + 1
      /\ \A i \in 1 .. n : Append(made, m)[i] = made[i]
      /\ Append(made, m)[n + 1] = m
  BY SeqFacts, AppendFacts
<1>2. Upto(f, n) /\ Upto(g, n + 1)
  BY <1>1 DEF Delivered, Upto
<1>3. (\A i \in 1 .. n : g[i] = f[i]) /\ g[n + 1] = e
  BY <1>1 DEF Delivered
<1> HIDE DEF f, g, n, e
<1>4. IsSeq(f) /\ g = Append(f, e)
  BY <1>1, <1>2, <1>3, Grows
<1> QED
  BY <1>4 DEF f, g, e

LEMMA ChosenAppend ==
  ASSUME NEW S, NEW items \in Seq(S), NEW e \in S
  PROVE  Chosen(Append(items, e)) = Chosen(items) \o (IF Passes(e) THEN <<e>> ELSE <<>>)
<1> DEFINE n == Len(items)
           f == [i \in DOMAIN items |-> IF Passes(items[i]) THEN <<items[i]>> ELSE <<>>]
           more == Append(items, e)
           g == [i \in DOMAIN more |-> IF Passes(more[i]) THEN <<more[i]>> ELSE <<>>]
           p == IF Passes(e) THEN <<e>> ELSE <<>>
<1>1. /\ n \in Nat /\ DOMAIN items = 1 .. n /\ DOMAIN more = 1 .. n + 1
      /\ \A i \in 1 .. n : more[i] = items[i]
      /\ more[n + 1] = e
  BY AppendProperties, LenProperties
<1> HIDE DEF more
<1>2. Upto(f, n) /\ Upto(g, n + 1)
  BY <1>1 DEF Upto
<1>3. (\A i \in 1 .. n : g[i] = f[i]) /\ g[n + 1] = p
  BY <1>1
<1>4. Chosen(items) = FlattenSeq(f) /\ Chosen(more) = FlattenSeq(g)
  BY DEF Chosen
<1>5. IsSeq(p)
  BY OneIsSeq, EmptyIsSeq
<1> HIDE DEF f, g, n, p
<1>6. IsSeq(f) /\ g = Append(f, p)
  BY <1>1, <1>2, <1>3, Grows
<1>7. FlattenSeq(g) = FlattenSeq(f) \o p
  BY <1>5, <1>6, FlattenAppend
<1> QED
  BY <1>4, <1>7 DEF more, p

LEMMA ImagesAppend ==
  ASSUME NEW S, NEW items \in Seq(S), NEW e \in S
  PROVE  Images(Append(items, e)) = Append(Images(items), Mapped(e))
<1> DEFINE n == Len(items)
           f == Images(items)
           more == Append(items, e)
           g == Images(more)
<1>1. /\ n \in Nat /\ DOMAIN items = 1 .. n /\ DOMAIN more = 1 .. n + 1
      /\ \A i \in 1 .. n : more[i] = items[i]
      /\ more[n + 1] = e
  BY AppendProperties, LenProperties
<1> HIDE DEF more
<1>2. Upto(f, n) /\ Upto(g, n + 1)
  BY <1>1 DEF Upto, Images
<1>3. (\A i \in 1 .. n : g[i] = f[i]) /\ g[n + 1] = Mapped(e)
  BY <1>1 DEF Images
<1> HIDE DEF f, g, n
<1>4. g = Append(f, g[n + 1])
  BY <1>1, <1>2, <1>3, Grows
<1>5. g = Append(f, Mapped(e))
  BY <1>3, <1>4
<1> QED
  BY <1>5 DEF f, g, more

LEMMA EmptiesAppend ==
  ASSUME NEW S, NEW items \in Seq(S), NEW e \in S
  PROVE  [n \in DOMAIN Append(items, e) |-> <<>>] = Append([n \in DOMAIN items |-> <<>>], <<>>)
<1> DEFINE n == Len(items)
           f == [i \in DOMAIN items |-> <<>>]
           g == [i \in DOMAIN Append(items, e) |-> <<>>]
<1>1. n \in Nat /\ DOMAIN items = 1 .. n /\ DOMAIN Append(items, e) = 1 .. n + 1
  BY AppendProperties, LenProperties
<1>2. Upto(f, n) /\ Upto(g, n + 1)
  BY <1>1 DEF Upto
<1>3. (\A i \in 1 .. n : g[i] = f[i]) /\ g[n + 1] = <<>>
  BY <1>1
<1> HIDE DEF f, g, n
<1>4. g = Append(f, <<>>)
  BY <1>1, <1>2, <1>3, Grows
<1> QED
  BY <1>4 DEF f, g

(* The items after the first k, and the first k of them. *)
LEMMA RestAppend ==
  ASSUME NEW S, NEW s \in Seq(S), NEW e \in S, NEW k \in Nat
  PROVE  SubSeq(Append(s, e), k + 1, Len(s) + 1) =
           IF k <= Len(s) THEN Append(SubSeq(s, k + 1, Len(s)), e)
           ELSE SubSeq(s, k + 1, Len(s))
<1> DEFINE n == Len(s)
           more == Append(s, e)
<1>1. /\ n \in Nat /\ more \in Seq(S) /\ Len(more) = n + 1 /\ more[n + 1] = e
      /\ \A i \in 1 .. n : more[i] = s[i]
  BY AppendProperties, LenProperties
<1> HIDE DEF more, n
<1>2. CASE k > n
  <2>1. k + 1 \in Int /\ n \in Int /\ n + 1 \in Int /\ n < k + 1 /\ n + 1 < k + 1
    BY <1>1, <1>2
  <2>2. SubSeq(more, k + 1, n + 1) = <<>> /\ SubSeq(s, k + 1, n) = <<>>
    BY <2>1, SubSeqEmpty
  <2>3. ~(k <= n)
    BY <1>1, <1>2
  <2> QED
    BY <2>2, <2>3 DEF more, n
<1>3. CASE k <= n
  <2>1. k + 1 \in 1 .. n + 1 /\ n + 1 \in k + 1 .. n + 1 /\ (n + 1) - 1 = n
    BY <1>1, <1>3
  <2>2. SubSeq(more, k + 1, n + 1) = SubSeq(more, k + 1, n) \o <<e>>
    BY <1>1, <2>1, SubSeqRecursiveSecond
  <2>3. \A i \in k + 1 .. n : more[i] \in S /\ s[i] \in S /\ more[i] = s[i]
    <3>1. \A i \in k + 1 .. n : i \in 1 .. n
      BY <1>1
    <3>2. \A i \in 1 .. n : s[i] \in S
      BY ElementOfSeq DEF n
    <3> QED
      BY <1>1, <3>1, <3>2
  <2>4. /\ SubSeq(more, k + 1, n) \in Seq(S) /\ SubSeq(s, k + 1, n) \in Seq(S)
        /\ Len(SubSeq(more, k + 1, n)) = Len(SubSeq(s, k + 1, n))
        /\ Len(SubSeq(s, k + 1, n)) = IF k + 1 <= n THEN n - (k + 1) + 1 ELSE 0
        /\ \A i \in 1 .. n - (k + 1) + 1 :
             SubSeq(more, k + 1, n)[i] = more[k + 1 + i - 1]
             /\ SubSeq(s, k + 1, n)[i] = s[k + 1 + i - 1]
    <3>1. k + 1 \in Int /\ n \in Int
      BY <1>1
    <3> QED
      BY <3>1, <2>3, SubSeqProperties
  <2>5. \A i \in 1 .. Len(SubSeq(s, k + 1, n)) :
          SubSeq(more, k + 1, n)[i] = SubSeq(s, k + 1, n)[i]
    <3> SUFFICES ASSUME NEW i \in 1 .. Len(SubSeq(s, k + 1, n))
                 PROVE  SubSeq(more, k + 1, n)[i] = SubSeq(s, k + 1, n)[i]
      OBVIOUS
    <3>1. i \in 1 .. n - (k + 1) + 1
      BY <1>1, <2>4
    <3>2. k + 1 + i - 1 \in k + 1 .. n
      BY <1>1, <3>1
    <3> QED
      BY <2>3, <2>4, <3>1, <3>2
  <2>6. SubSeq(more, k + 1, n) = SubSeq(s, k + 1, n)
    BY <2>4, <2>5, SeqEqual
  <2>7. Append(SubSeq(s, k + 1, n), e) = SubSeq(s, k + 1, n) \o <<e>>
    BY <2>4, AppendIsConcat
  <2> QED
    BY <1>3, <2>2, <2>6, <2>7 DEF more, n
<1>4. k > n \/ k <= n
  BY <1>1
<1> QED
  BY <1>2, <1>3, <1>4, Zenon

LEMMA FirstAppend ==
  ASSUME NEW S, NEW s \in Seq(S), NEW e \in S, NEW k \in 0 .. Len(s)
  PROVE  SubSeq(Append(s, e), 1, k) = SubSeq(s, 1, k)
<1> DEFINE n == Len(s)
           more == Append(s, e)
<1>1. /\ n \in Nat /\ more \in Seq(S) /\ Len(more) = n + 1
      /\ \A i \in 1 .. n : more[i] = s[i]
  BY AppendProperties, LenProperties
<1>2. k \in Int /\ 1 \in Int /\ \A i \in 1 .. k : i \in 1 .. n /\ 1 + i - 1 = i
  BY <1>1
<1> HIDE DEF more
<1>3. \A i \in 1 .. k : s[i] \in S /\ more[i] \in S /\ more[i] = s[i]
  BY <1>1, <1>2, ElementOfSeq
<1>4. /\ SubSeq(s, 1, k) \in Seq(S) /\ SubSeq(more, 1, k) \in Seq(S)
      /\ Len(SubSeq(s, 1, k)) = (IF 1 <= k THEN k - 1 + 1 ELSE 0)
      /\ Len(SubSeq(more, 1, k)) = (IF 1 <= k THEN k - 1 + 1 ELSE 0)
      /\ \A i \in 1 .. k - 1 + 1 :
           SubSeq(s, 1, k)[i] = s[1 + i - 1] /\ SubSeq(more, 1, k)[i] = more[1 + i - 1]
  BY <1>2, <1>3, SubSeqProperties
<1>5. Len(SubSeq(s, 1, k)) = k /\ k - 1 + 1 = k
  BY <1>2, <1>4
<1>6. \A i \in 1 .. k : SubSeq(more, 1, k)[i] = SubSeq(s, 1, k)[i]
  BY <1>2, <1>3, <1>4, <1>5
<1>7. SubSeq(more, 1, k) = SubSeq(s, 1, k)
  BY <1>4, <1>5, <1>6, SeqEqual
<1> QED
  BY <1>7 DEF more

-----------------------------------------------------------------------------
(* The inductive invariant. *)

IsPast(p) ==
  p.seen \in Seq(Nat) /\ IsSeq(p.tried) /\ p.state \in [i : Nat, buf : Seq(Nat)]

HistoryTypeOK ==
  /\ seen \in [Holders -> Seq(Nat)]
  /\ DOMAIN tried = Holders /\ \A h \in Holders : IsSeq(tried[h])

(* What is left of the count of skip() and of take().                       *)
Counts(p) ==
  kind \in {"skip", "take"} =>
    p.state.i = IF Count(size) > Len(p.seen) THEN Count(size) - Len(p.seen) ELSE 0

(* A buffer is as long as the batch that threw last, and else not full.     *)
Gathers(p) ==
  kind = "buffer" /\ size > 0 =>
    /\ IsSeq(FlattenSeq(Delivered(p.tried)))
    /\ p.tried = <<>> => Len(p.state.buf) < size
    /\ p.tried # <<>> =>
         LET last == p.tried[Len(p.tried)]
         IN  IF last.ok THEN Len(p.state.buf) < size
             ELSE Len(p.state.buf) = Len(last.arg) /\ Len(p.state.buf) >= size

Named(p) == IsPast(p) /\ Forwards(p) /\ Counts(p) /\ Gathers(p)

IInv == TypeOK /\ HistoryTypeOK /\ \A h \in Holders : Named(Now(h))

USE DEF vars

LEMMA SizeIsInt ==
  ASSUME size \in SizesOf(kind)
  PROVE  size \in Int
BY SizesAssumption DEF SizesOf

LEMMA InitTypes == Init => TypeOK /\ HistoryTypeOK
<1> SUFFICES ASSUME Init PROVE TypeOK /\ HistoryTypeOK
  OBVIOUS
<1>1. <<>> \in Seq(Nat) /\ IsSeq(<<>>)
  BY EmptySeq, EmptyIsSeq
<1>2. size \in Int
  BY SizeIsInt DEF Init
<1>3. closure \in [Holders -> [i : Nat, buf : Seq(Nat)]]
  <2>1. (IF kind \in {"skip", "take"} /\ size > 0 THEN size ELSE 0) \in Nat
    BY <1>2
  <2> QED
    BY <1>1, <2>1 DEF Init
<1>4. HistoryTypeOK
  BY <1>1 DEF Init, HistoryTypeOK
<1> QED
  BY <1>3, <1>4, SizesAssumption DEF Init, TypeOK

(* What a call adds to the past of a closure. *)
LEMMA CalledIs ==
  ASSUME NEW p, IsPast(p), NEW item \in Nat, NEW threw \in BOOLEAN,
         threw => Calls(p.state, item), NEW q, q = Called(p, item, threw)
  PROVE  /\ q.state = After(p.state, item, threw) /\ q.seen = Append(p.seen, item)
         /\ p.seen \in Seq(Nat) /\ IsSeq(p.tried)
         /\ p.state \in [i : Nat, buf : Seq(Nat)] /\ IsPast(q)
         /\ Calls(p.state, item) =>
              q.tried = Append(p.tried, [arg |-> Argument(p.state, item), ok |-> ~threw])
         /\ ~Calls(p.state, item) => q.tried = p.tried /\ ~threw
<1> DEFINE c == p.state
<1>1. /\ q.seen = Append(p.seen, item) /\ q.state = After(c, item, threw)
      /\ q.tried = p.tried \o Made(c, item, threw)
  BY DEF Called
<1>2. p.seen \in Seq(Nat) /\ IsSeq(p.tried) /\ c \in [i : Nat, buf : Seq(Nat)]
  BY DEF IsPast
<1> HIDE DEF c
<1>3. q.seen \in Seq(Nat)
  BY <1>1, <1>2, AppendProperties
<1>4. After(c, item, threw) \in [i : Nat, buf : Seq(Nat)]
  <2>1. /\ c.i \in Nat /\ c.buf \in Seq(Nat) /\ Append(c.buf, item) \in Seq(Nat)
        /\ <<>> \in Seq(Nat)
    BY <1>2, AppendProperties, EmptySeq
  <2>2. (IF c.i > 0 THEN c.i - 1 ELSE c.i) \in Nat
    BY <2>1
  <2>3. ASSUME NEW n \in Nat PROVE [c EXCEPT !.i = n] \in [i : Nat, buf : Seq(Nat)]
    BY <1>2
  <2>4. ASSUME NEW b \in Seq(Nat) PROVE [c EXCEPT !.buf = b] \in [i : Nat, buf : Seq(Nat)]
    BY <1>2
  <2>5. CASE kind \in {"skip", "take"}
    BY <2>2, <2>3, <2>5 DEF After
  <2>6. CASE kind = "buffer" /\ size > 0
    <3>1. (IF Calls(c, item) /\ ~threw THEN <<>> ELSE Append(c.buf, item)) \in Seq(Nat)
      BY <2>1
    <3> QED
      BY <2>4, <2>6, <3>1 DEF After
  <2>7. CASE ~(kind \in {"skip", "take"}) /\ ~(kind = "buffer" /\ size > 0)
    BY <1>2, <2>7 DEF After
  <2> QED
    BY <2>5, <2>6, <2>7
<1>5. CASE Calls(c, item)
  <2> DEFINE m == [arg |-> Argument(c, item), ok |-> ~threw]
  <2>1. q.tried = p.tried \o <<m>>
    BY <1>1, <1>5 DEF Made
  <2> HIDE DEF m
  <2>2. q.tried = Append(p.tried, m)
    BY <1>2, <2>1, AppendAsConcat, Zenon
  <2>3. IsSeq(q.tried)
    <3>1. IsSeq(Append(p.tried, m))
      BY <1>2, AppendFacts
    <3> QED
      BY <2>2, <3>1, Zenon
  <2> QED
    BY <1>1, <1>2, <1>3, <1>4, <1>5, <2>2, <2>3 DEF IsPast, c, m
<1>6. CASE ~Calls(c, item)
  <2>1. q.tried = p.tried /\ ~threw
    BY <1>1, <1>2, <1>6, ConcatEmpty DEF Made, c
  <2> QED
    BY <1>1, <1>2, <1>3, <1>4, <1>6, <2>1 DEF IsPast, c
<1> QED
  BY <1>5, <1>6

(* A call of the closure in h makes it one with this past. *)
LEMMA CallFacts ==
  ASSUME TypeOK, HistoryTypeOK, NEW h \in Holders, NEW threw \in BOOLEAN, Call(h, threw),
         NEW p, p = Now(h), NEW n, n = calls + 1, NEW q, q = Called(p, n, threw)
  PROVE  /\ IsPast(p) /\ n \in Nat /\ (threw => Calls(p.state, n))
         /\ seen' = [seen EXCEPT ![h] = q.seen] /\ tried' = [tried EXCEPT ![h] = q.tried]
         /\ closure' = [closure EXCEPT ![h] = q.state]
<1>1. IsPast(p) /\ n \in Nat
  BY DEF TypeOK, HistoryTypeOK, IsPast, Now
<1>2. p.seen = seen[h] /\ p.tried = tried[h] /\ p.state = closure[h]
  BY DEF Now
<1>3. /\ q.seen = Append(seen[h], n)
      /\ q.tried = tried[h] \o Made(closure[h], n, threw)
      /\ q.state = After(closure[h], n, threw)
  BY <1>2 DEF Called
<1> QED
  BY <1>1, <1>2, <1>3 DEF Call

LEMMA NextTypes ==
  ASSUME TypeOK, HistoryTypeOK, [Next]_vars
  PROVE  TypeOK' /\ HistoryTypeOK'
<1>0. calls \in Nat /\ MaxCalls \in Nat /\ copies \in Nat /\ MaxCopies \in Nat
  BY SizesAssumption DEF TypeOK
<1>1. ASSUME NEW h \in Holders, NEW threw \in BOOLEAN, Call(h, threw)
      PROVE  TypeOK' /\ HistoryTypeOK'
  <2>0. PICK p, n, q : p = Now(h) /\ n = calls + 1 /\ q = Called(p, n, threw)
    OBVIOUS
  <2>1. /\ IsPast(p) /\ n \in Nat /\ (threw => Calls(p.state, n))
        /\ seen' = [seen EXCEPT ![h] = q.seen] /\ tried' = [tried EXCEPT ![h] = q.tried]
        /\ closure' = [closure EXCEPT ![h] = q.state]
    BY <1>1, <2>0, CallFacts
  <2>2. IsPast(q)
    BY <2>0, <2>1, CalledIs
  <2>3. calls' \in 0 .. MaxCalls /\ given' \subseteq 1 .. calls'
    BY <1>0, <1>1 DEF Call, TypeOK
  <2>4. HistoryTypeOK'
    BY <2>1, <2>2 DEF HistoryTypeOK, IsPast
  <2>5. closure' \in [Holders -> [i : Nat, buf : Seq(Nat)]]
    BY <2>1, <2>2 DEF TypeOK, IsPast
  <2> QED
    BY <1>1, <2>3, <2>4, <2>5 DEF Call, TypeOK
<1>2. ASSUME NEW from \in Holders, NEW to \in Holders, Copy(from, to)
      PROVE  TypeOK' /\ HistoryTypeOK'
  <2>1. copies' \in 0 .. MaxCopies
    BY <1>0, <1>2 DEF Copy, TypeOK
  <2>2. HistoryTypeOK'
    BY <1>2 DEF Copy, HistoryTypeOK
  <2> QED
    BY <1>2, <2>1, <2>2 DEF Copy, TypeOK
<1>3. ASSUME NEW last \in 0 .. Len(actions), NEW threw \in BOOLEAN, CallAll(last, threw)
      PROVE  TypeOK' /\ HistoryTypeOK'
  <2>1. calls' \in 0 .. MaxCalls /\ given' \subseteq 1 .. calls'
    BY <1>0, <1>3 DEF CallAll, TypeOK
  <2>2. closure' = closure
    BY <1>3 DEF CallAll, AfterAll, TypeOK
  <2>3. HistoryTypeOK'
    BY <1>3 DEF CallAll, HistoryTypeOK
  <2> QED
    BY <1>3, <2>1, <2>2, <2>3 DEF CallAll, TypeOK
<1>4. CASE UNCHANGED vars
  BY <1>4 DEF TypeOK, HistoryTypeOK
<1> QED
  BY <1>1, <1>2, <1>3, <1>4 DEF Next, Done

(* Every state has the declared types, the closures' among them. *)
THEOREM TypeCorrect == Spec => []TypeOK
<1>1. TypeOK /\ HistoryTypeOK /\ [Next]_vars => TypeOK' /\ HistoryTypeOK'
  BY NextTypes
<1> QED
  BY <1>1, InitTypes, PTL DEF Spec

-----------------------------------------------------------------------------
(* A call, by the combinator: q is what a call makes of p. *)

LEMMA NoKindOrAlways ==
  ASSUME NEW p, Named(p), size \in Int, NEW item \in Nat, NEW threw \in BOOLEAN,
         threw => Calls(p.state, item), NEW q, q = Called(p, item, threw),
         kind \in {"never", "always"}
  PROVE  Forwards(q)
<1>1. /\ p.seen \in Seq(Nat) /\ item \in Nat
      /\ q.seen = Append(p.seen, item) /\ IsSeq(p.tried)
      /\ Calls(p.state, item) =>
           q.tried = Append(p.tried, [arg |-> Argument(p.state, item), ok |-> ~threw])
      /\ ~Calls(p.state, item) => q.tried = p.tried
  BY CalledIs DEF Named
<1>2. Forwards(p)
  BY DEF Named
<1>3. CASE kind = "never"
  <2>1. ~Calls(p.state, item)
    BY <1>3 DEF Calls
  <2> QED
    BY <1>1, <1>2, <1>3, <2>1 DEF Forwards
<1>4. CASE kind = "always"
  <2>1. Calls(p.state, item)
    BY <1>4 DEF Calls
  <2>2. Len(p.tried) = Len(p.seen)
    BY <1>2, <1>4 DEF Forwards
  <2>3. Len(q.tried) = Len(p.tried) + 1
    BY <1>1, <2>1, AppendFacts
  <2>4. Len(q.seen) = Len(p.seen) + 1
    BY <1>1, AppendProperties
  <2> QED
    BY <1>1, <1>4, <2>2, <2>3, <2>4 DEF Forwards
<1> QED
  BY <1>3, <1>4

LEMMA FilterForwards ==
  ASSUME NEW p, Named(p), size \in Int, NEW item \in Nat, NEW threw \in BOOLEAN,
         threw => Calls(p.state, item), NEW q, q = Called(p, item, threw), kind = "filter"
  PROVE  Forwards(q)
<1> DEFINE args == Arguments(p.tried)
<1>1. /\ p.seen \in Seq(Nat) /\ item \in Nat
      /\ q.seen = Append(p.seen, item) /\ IsSeq(p.tried)
      /\ Calls(p.state, item) =>
           q.tried = Append(p.tried, [arg |-> Argument(p.state, item), ok |-> ~threw])
      /\ ~Calls(p.state, item) => q.tried = p.tried
  BY CalledIs DEF Named
<1>2. args = Chosen(p.seen)
  BY DEF Named, Forwards
<1>3. Calls(p.state, item) <=> Passes(item)
  BY DEF Calls
<1>4. Chosen(q.seen) = args \o (IF Passes(item) THEN <<item>> ELSE <<>>)
  BY <1>1, <1>2, ChosenAppend
<1>5. IsSeq(args)
  BY <1>1, ArgumentsAppend
<1>6. Arguments(q.tried) = Chosen(q.seen)
  <2>1. CASE Passes(item)
    <3> DEFINE m == [arg |-> item, ok |-> ~threw]
    <3>1. q.tried = Append(p.tried, m)
      BY <1>1, <1>3, <2>1 DEF Argument
    <3>2. m.arg = item
      OBVIOUS
    <3> HIDE DEF m
    <3>3. Arguments(q.tried) = Append(args, item)
      BY <1>1, <3>1, <3>2, ArgumentsAppend
    <3>4. Append(args, item) = args \o <<item>>
      BY <1>5, AppendAsConcat
    <3> QED
      BY <1>4, <2>1, <3>3, <3>4
  <2>2. CASE ~Passes(item)
    <3>1. Arguments(q.tried) = args
      BY <1>1, <1>3, <2>2
    <3>2. args \o <<>> = args
      BY <1>5, ConcatEmpty
    <3> QED
      BY <1>4, <2>2, <3>1, <3>2
  <2> QED
    BY <2>1, <2>2
<1> QED
  BY <1>1, <1>6 DEF Forwards

LEMMA MapForwards ==
  ASSUME NEW p, Named(p), size \in Int, NEW item \in Nat, NEW threw \in BOOLEAN,
         threw => Calls(p.state, item), NEW q, q = Called(p, item, threw), kind = "map"
  PROVE  Forwards(q)
<1> DEFINE m == [arg |-> Mapped(item), ok |-> ~threw]
<1>1. /\ p.seen \in Seq(Nat) /\ item \in Nat
      /\ q.seen = Append(p.seen, item) /\ IsSeq(p.tried)
      /\ q.tried = Append(p.tried, m)
  BY CalledIs DEF Named, Calls, Argument
<1>2. Arguments(p.tried) = Images(p.seen)
  BY DEF Named, Forwards
<1>3. m.arg = Mapped(item)
  OBVIOUS
<1> HIDE DEF m
<1>4. Arguments(q.tried) = Append(Images(p.seen), Mapped(item))
  BY <1>1, <1>2, <1>3, ArgumentsAppend
<1>5. Images(q.seen) = Append(Images(p.seen), Mapped(item))
  BY <1>1, ImagesAppend
<1> QED
  BY <1>1, <1>4, <1>5 DEF Forwards

LEMMA SkipForwards ==
  ASSUME NEW p, Named(p), size \in Int, NEW item \in Nat, NEW threw \in BOOLEAN,
         threw => Calls(p.state, item), NEW q, q = Called(p, item, threw), kind = "skip"
  PROVE  Forwards(q) /\ Counts(q)
<1> DEFINE m == [arg |-> item, ok |-> ~threw]
           k == Count(size)
           s == p.seen
<1>1. /\ size \in Int /\ s \in Seq(Nat) /\ item \in Nat
      /\ q.seen = Append(s, item) /\ IsSeq(p.tried)
      /\ p.state \in [i : Nat, buf : Seq(Nat)] /\ q.state = After(p.state, item, threw)
      /\ Calls(p.state, item) =>
           q.tried = Append(p.tried, [arg |-> Argument(p.state, item), ok |-> ~threw])
      /\ ~Calls(p.state, item) => q.tried = p.tried
  BY CalledIs DEF Named
<1>2. /\ Arguments(p.tried) = SubSeq(s, k + 1, Len(s))
      /\ p.state.i = IF k > Len(s) THEN k - Len(s) ELSE 0
  BY DEF Named, Forwards, Counts
<1>3. k \in Nat /\ Len(s) \in Nat /\ Len(q.seen) = Len(s) + 1
  <2>1. k \in Nat
    BY <1>1 DEF Count
  <2> QED
    BY <1>1, <2>1, AppendProperties, LenProperties
<1>4. Calls(p.state, item) <=> k <= Len(s)
  <2>1. Calls(p.state, item) <=> p.state.i = 0
    BY DEF Calls
  <2> HIDE DEF k
  <2> QED
    BY <1>2, <1>3, <2>1
<1>5. q.state.i = IF p.state.i > 0 THEN p.state.i - 1 ELSE p.state.i
  BY <1>1 DEF After
<1>6. m.arg = item
  OBVIOUS
<1>7. Calls(p.state, item) => q.tried = Append(p.tried, m)
  BY <1>1 DEF Argument
<1> HIDE DEF m, k, s
<1>8. SubSeq(q.seen, k + 1, Len(s) + 1) =
        IF k <= Len(s) THEN Append(SubSeq(s, k + 1, Len(s)), item) ELSE SubSeq(s, k + 1, Len(s))
  <2>1. SubSeq(Append(s, item), k + 1, Len(s) + 1) =
          IF k <= Len(s) THEN Append(SubSeq(s, k + 1, Len(s)), item)
          ELSE SubSeq(s, k + 1, Len(s))
    BY <1>1, <1>3, RestAppend
  <2> QED
    BY <1>1, <2>1, Zenon
<1>9. Arguments(q.tried) = SubSeq(q.seen, k + 1, Len(q.seen))
  <2>1. CASE k <= Len(s)
    <3>1. Arguments(q.tried) = Append(SubSeq(s, k + 1, Len(s)), item)
      BY <1>1, <1>2, <1>4, <1>6, <1>7, <2>1, ArgumentsAppend
    <3> QED
      BY <1>3, <1>8, <2>1, <3>1
  <2>2. CASE ~(k <= Len(s))
    BY <1>1, <1>2, <1>3, <1>4, <1>8, <2>2
  <2> QED
    BY <2>1, <2>2
<1>10. q.state.i = IF k > Len(q.seen) THEN k - Len(q.seen) ELSE 0
  BY <1>2, <1>3, <1>5
<1> QED
  BY <1>1, <1>9, <1>10 DEF Forwards, Counts, k, s, Count

LEMMA TakeForwards ==
  ASSUME NEW p, Named(p), size \in Int, NEW item \in Nat, NEW threw \in BOOLEAN,
         threw => Calls(p.state, item), NEW q, q = Called(p, item, threw), kind = "take"
  PROVE  Forwards(q) /\ Counts(q)
<1> DEFINE m == [arg |-> item, ok |-> ~threw]
           k == Count(size)
           s == p.seen
<1>1. /\ size \in Int /\ s \in Seq(Nat) /\ item \in Nat
      /\ q.seen = Append(s, item) /\ IsSeq(p.tried)
      /\ p.state \in [i : Nat, buf : Seq(Nat)] /\ q.state = After(p.state, item, threw)
      /\ Calls(p.state, item) =>
           q.tried = Append(p.tried, [arg |-> Argument(p.state, item), ok |-> ~threw])
      /\ ~Calls(p.state, item) => q.tried = p.tried
  BY CalledIs DEF Named
<1>2. /\ Arguments(p.tried) = SubSeq(s, 1, IF k < Len(s) THEN k ELSE Len(s))
      /\ p.state.i = IF k > Len(s) THEN k - Len(s) ELSE 0
  BY DEF Named, Forwards, Counts
<1>3. k \in Nat /\ Len(s) \in Nat /\ Len(q.seen) = Len(s) + 1
  <2>1. k \in Nat
    BY <1>1 DEF Count
  <2> QED
    BY <1>1, <2>1, AppendProperties, LenProperties
<1>4. Calls(p.state, item) <=> k > Len(s)
  <2>1. Calls(p.state, item) <=> p.state.i > 0
    BY DEF Calls
  <2> HIDE DEF k
  <2> QED
    BY <1>2, <1>3, <2>1
<1>5. q.state.i = IF p.state.i > 0 THEN p.state.i - 1 ELSE p.state.i
  BY <1>1 DEF After
<1>6. m.arg = item
  OBVIOUS
<1>7. Calls(p.state, item) => q.tried = Append(p.tried, m)
  BY <1>1 DEF Argument
<1> HIDE DEF m, k, s
<1>8. Arguments(q.tried) = SubSeq(q.seen, 1, IF k < Len(q.seen) THEN k ELSE Len(q.seen))
  <2>1. CASE k > Len(s)
    <3>1. Arguments(p.tried) = s
      <4>1. ~(k < Len(s))
        BY <1>3, <2>1
      <4>2. SubSeq(s, 1, Len(s)) = s
        BY <1>1, SubSeqFull
      <4> QED
        BY <1>2, <4>1, <4>2
    <3>2. Arguments(q.tried) = Append(s, item)
      BY <1>1, <1>4, <1>6, <1>7, <2>1, <3>1, ArgumentsAppend
    <3>3. (IF k < Len(q.seen) THEN k ELSE Len(q.seen)) = Len(q.seen)
      BY <1>3, <2>1
    <3>4. q.seen \in Seq(Nat)
      BY <1>1, AppendProperties
    <3>5. SubSeq(q.seen, 1, Len(q.seen)) = q.seen
      BY <3>4, SubSeqFull
    <3> QED
      BY <1>1, <3>2, <3>3, <3>5
  <2>2. CASE ~(k > Len(s))
    <3>1. k \in 0 .. Len(s)
      BY <1>3, <2>2
    <3>2. SubSeq(q.seen, 1, k) = SubSeq(s, 1, k)
      BY <1>1, <3>1, FirstAppend
    <3>3. (IF k < Len(q.seen) THEN k ELSE Len(q.seen)) = k
      BY <1>3, <2>2
    <3>4. (IF k < Len(s) THEN k ELSE Len(s)) = k
      BY <1>3, <2>2
    <3>5. q.tried = p.tried
      BY <1>1, <1>4, <2>2
    <3> QED
      BY <1>2, <3>2, <3>3, <3>4, <3>5
  <2> QED
    BY <2>1, <2>2
<1>9. q.state.i = IF k > Len(q.seen) THEN k - Len(q.seen) ELSE 0
  BY <1>2, <1>3, <1>5
<1> QED
  BY <1>1, <1>8, <1>9 DEF Forwards, Counts, k, s, Count

(* A buffer of no size makes an always() with an empty vector. *)
LEMMA NoSizeForwards ==
  ASSUME NEW p, Named(p), size \in Int, NEW item \in Nat, NEW threw \in BOOLEAN,
         threw => Calls(p.state, item), NEW q, q = Called(p, item, threw), kind = "buffer",
         size <= 0
  PROVE  Forwards(q)
<1> DEFINE m == [arg |-> <<>>, ok |-> ~threw]
           args == [n \in DOMAIN p.seen |-> <<>>]
<1>0. IsPast(p)
  BY DEF Named
<1>1. /\ p.seen \in Seq(Nat) /\ item \in Nat
      /\ q.seen = Append(p.seen, item) /\ IsSeq(p.tried)
      /\ Calls(p.state, item) =>
           q.tried = Append(p.tried, [arg |-> Argument(p.state, item), ok |-> ~threw])
  BY <1>0, CalledIs
<1>2. q.tried = Append(p.tried, m)
  BY <1>1 DEF Calls, Argument
<1>3. Arguments(p.tried) = args
  BY DEF Named, Forwards
<1>4. m.arg = <<>>
  OBVIOUS
<1> HIDE DEF m, args
<1>5. Arguments(q.tried) = Append(args, <<>>)
  BY <1>1, <1>2, <1>3, <1>4, ArgumentsAppend
<1>6. [n \in DOMAIN q.seen |-> <<>>] = Append(args, <<>>)
  <2>1. [n \in DOMAIN Append(p.seen, item) |-> <<>>] = Append(args, <<>>)
    BY <1>1, EmptiesAppend, Zenon DEF args
  <2> QED
    BY <1>1, <2>1, Zenon
<1> QED
  BY <1>1, <1>5, <1>6 DEF Forwards

(* A buffer that is not full gathers one more item.                         *)
LEMMA BufferGathers ==
  ASSUME NEW p, Named(p), size \in Int, NEW item \in Nat, NEW threw \in BOOLEAN,
         threw => Calls(p.state, item), NEW q, q = Called(p, item, threw), kind = "buffer",
         size > 0, ~Calls(p.state, item)
  PROVE  Forwards(q) /\ Gathers(q)
<1> DEFINE buf == p.state.buf
           s == p.seen
           made == p.tried
<1>0. IsPast(p)
  BY DEF Named
<1>1. /\ size \in Int /\ s \in Seq(Nat) /\ item \in Nat
      /\ q.seen = Append(s, item)
      /\ p.state \in [i : Nat, buf : Seq(Nat)] /\ q.state = After(p.state, item, threw)
      /\ q.tried = made
  <2>1. s \in Seq(Nat) /\ q.seen = Append(s, item)
    BY <1>0, CalledIs
  <2>2. p.state \in [i : Nat, buf : Seq(Nat)]
    BY <1>0 DEF IsPast
  <2>3. q.state = After(p.state, item, threw)
    BY DEF Called
  <2>4. q.tried = made
    BY <1>0, CalledIs
  <2> QED
    BY <2>1, <2>2, <2>3, <2>4
<1>2. buf \in Seq(Nat) /\ q.state.buf = Append(buf, item)
  BY <1>1 DEF After
<1>3. Len(buf) \in Nat /\ Len(q.state.buf) = Len(buf) + 1 /\ Len(buf) + 1 < size
  <2>1. ~Full(Append(buf, item))
    BY <1>1 DEF Calls
  <2>2. Len(Append(buf, item)) = Len(buf) + 1 /\ Len(buf) \in Nat
    BY <1>1, <1>2, AppendProperties, LenProperties
  <2> HIDE DEF buf
  <2> QED
    BY <1>1, <1>2, <2>1, <2>2 DEF Full
<1>4. InBatches(p) /\ Gathers(p)
  <2>1. Forwards(p) /\ Gathers(p)
    BY DEF Named
  <2>2. ~(size <= 0)
    BY <1>1
  <2> QED
    BY <2>1, <2>2 DEF Forwards
<1>5. IsSeq(FlattenSeq(Delivered(made))) /\ IsSeq(buf)
  BY <1>1, <1>2, <1>4, SeqOfRange DEF Gathers, IsSeq
<1> HIDE DEF buf, s
<1>6. FlattenSeq(Delivered(made)) \o q.state.buf = q.seen
  <2>1. FlattenSeq(Delivered(made)) \o Append(buf, item)
        = Append(FlattenSeq(Delivered(made)) \o buf, item)
    BY <1>5, ConcatAppend
  <2>2. FlattenSeq(Delivered(made)) \o buf = s
    BY <1>4 DEF InBatches, buf, s
  <2> QED
    BY <1>1, <1>2, <2>1, <2>2
<1>7. InBatches(q)
  <2>1. \A n \in DOMAIN made :
          Len(made[n].arg) = IF n = 1 \/ made[n - 1].ok THEN size ELSE Len(made[n - 1].arg) + 1
    BY <1>4 DEF InBatches
  <2> HIDE DEF made
  <2> QED
    BY <1>1, <1>6, <2>1 DEF InBatches
<1>8. Gathers(q)
  <2>1. made = <<>> \/ made[Len(made)].ok
    <3>1. ASSUME made # <<>>, ~made[Len(made)].ok PROVE FALSE
      <4>1. Len(buf) >= size
        BY <1>1, <1>4, <3>1 DEF Gathers, buf
      <4> QED
        BY <1>1, <1>3, <4>1
    <3> QED
      BY <3>1
  <2>2. Len(q.state.buf) < size
    BY <1>3
  <2> HIDE DEF made
  <2> QED
    BY <1>1, <1>5, <2>1, <2>2 DEF Gathers
<1> QED
  BY <1>1, <1>7 , <1>8 DEF Forwards

(* A full buffer gives away what it gathered, or keeps it if a threw.       *)
LEMMA BufferDelivers ==
  ASSUME NEW p, Named(p), size \in Int, NEW item \in Nat, NEW threw \in BOOLEAN,
         threw => Calls(p.state, item), NEW q, q = Called(p, item, threw), kind = "buffer",
         size > 0, Calls(p.state, item)
  PROVE  Forwards(q) /\ Gathers(q)
<1> DEFINE buf == p.state.buf
           s == p.seen
           made == p.tried
           batch == Append(buf, item)
           m == [arg |-> batch, ok |-> ~threw]
           flat == FlattenSeq(Delivered(made))
<1>1. /\ size \in Int /\ s \in Seq(Nat) /\ item \in Nat
      /\ q.seen = Append(s, item)
      /\ p.state \in [i : Nat, buf : Seq(Nat)] /\ q.state = After(p.state, item, threw)
      /\ IsSeq(made)
      /\ q.tried = Append(made, [arg |-> Argument(p.state, item), ok |-> ~threw])
  BY CalledIs DEF Named
<1>2. ~(size <= 0)
  BY <1>1
<1>3. q.tried = Append(made, m)
  BY <1>1, <1>2 DEF Argument
<1>4. q.state.buf = IF threw THEN batch ELSE <<>>
  BY <1>1 DEF After
<1>5. /\ buf \in Seq(Nat) /\ batch \in Seq(Nat) /\ Len(buf) \in Nat
      /\ Len(batch) = Len(buf) + 1 /\ Len(batch) >= size
  <2>1. buf \in Seq(Nat)
    BY <1>1
  <2>2. batch \in Seq(Nat) /\ Len(buf) \in Nat /\ Len(batch) = Len(buf) + 1
    BY <1>1, <2>1, AppendProperties, LenProperties
  <2>3. Full(batch)
    BY <1>2 DEF Calls
  <2> QED
    BY <2>1, <2>2, <2>3 DEF Full
<1>6. InBatches(p) /\ Gathers(p)
  <2>1. Forwards(p) /\ Gathers(p)
    BY DEF Named
  <2> QED
    BY <1>2, <2>1 DEF Forwards
<1>7. /\ flat \o buf = s /\ IsSeq(flat)
      /\ \A n \in DOMAIN made :
           Len(made[n].arg) = IF n = 1 \/ made[n - 1].ok THEN size ELSE Len(made[n - 1].arg) + 1
      /\ made = <<>> => Len(buf) < size
      /\ made # <<>> => IF made[Len(made)].ok THEN Len(buf) < size
                       ELSE Len(buf) = Len(made[Len(made)].arg) /\ Len(buf) >= size
  BY <1>6 DEF InBatches, Gathers
<1>8. m.arg = batch /\ m.ok = ~threw
  OBVIOUS
<1>9. IsSeq(buf) /\ IsSeq(batch) /\ IsSeq(s)
  BY <1>1, <1>5, SeqOfRange DEF IsSeq
<1> DEFINE more == q.tried
           n == Len(made)
<1>10. /\ n \in Nat /\ DOMAIN made = 1 .. n /\ (made = <<>> <=> n = 0)
       /\ IsSeq(more) /\ Len(more) = n + 1 /\ DOMAIN more = 1 .. n + 1
       /\ more # <<>>
       /\ \A i \in 1 .. n : more[i] = made[i]
       /\ more[n + 1] = m
  <2> HIDE DEF made, m, more, n
  <2>1. n \in Nat /\ DOMAIN made = 1 .. n /\ (made = <<>> <=> n = 0)
    BY <1>1, SeqFacts DEF n, made
  <2>2. /\ IsSeq(more) /\ Len(more) = n + 1 /\ \A i \in 1 .. n : more[i] = made[i]
        /\ more[n + 1] = m
    <3>1. more = Append(made, m) /\ IsSeq(made)
      BY <1>1, <1>3 DEF more, made
    <3> QED
      BY <3>1, AppendFacts DEF n
  <2>3. DOMAIN more = 1 .. n + 1 /\ more # <<>>
    BY <2>1, <2>2, SeqFacts
  <2> QED
    BY <2>1, <2>2, <2>3
<1>11. FlattenSeq(Delivered(more)) = flat \o (IF threw THEN <<>> ELSE batch)
  <2> DEFINE e == IF m.ok THEN m.arg ELSE <<>>
  <2>1. e = IF threw THEN <<>> ELSE batch
    BY <1>8
  <2>2. IsSeq(e)
    BY <1>9, <2>1, EmptyIsSeq
  <2>3. IsSeq(Delivered(made)) /\ Delivered(Append(made, m)) = Append(Delivered(made), e)
    BY <1>1, DeliveredAppend
  <2> HIDE DEF e
  <2>4. FlattenSeq(Append(Delivered(made), e)) = FlattenSeq(Delivered(made)) \o e
    BY <2>2, <2>3, FlattenAppend
  <2> QED
    BY <1>3, <2>1, <2>3, <2>4
<1> HIDE DEF buf, s, made, batch, m, flat, more, n
<1>12. /\ FlattenSeq(Delivered(more)) \o q.state.buf = q.seen
       /\ IsSeq(FlattenSeq(Delivered(more)))
  <2>1. flat \o batch = Append(s, item)
    <3>0. IsSeq(flat) /\ IsSeq(buf)
      BY <1>7, <1>9
    <3>1. flat \o Append(buf, item) = Append(flat \o buf, item)
      BY <3>0, ConcatAppend
    <3> QED
      BY <1>7, <3>1 DEF batch
  <2>2. CASE threw
    <3>1. FlattenSeq(Delivered(more)) = flat
      BY <1>7, <1>11, <2>2, ConcatEmpty
    <3> QED
      BY <1>1, <1>4, <1>7, <2>1, <2>2, <3>1
  <2>3. CASE ~threw
    <3>1. FlattenSeq(Delivered(more)) = flat \o batch
      BY <1>11, <2>3
    <3>2. IsSeq(flat \o batch)
      BY <1>7, <1>9, ConcatIsSeq
    <3>3. (flat \o batch) \o <<>> = flat \o batch
      BY <3>2, ConcatEmpty
    <3> QED
      BY <1>1, <1>4, <2>1, <2>3, <3>1, <3>2, <3>3
  <2> QED
    BY <2>2, <2>3
<1>13. \A i \in 1 .. n + 1 :
         Len(more[i].arg) = IF i = 1 \/ more[i - 1].ok THEN size ELSE Len(more[i - 1].arg) + 1
  <2> SUFFICES ASSUME NEW i \in 1 .. n + 1
               PROVE  Len(more[i].arg) = IF i = 1 \/ more[i - 1].ok THEN size
                                         ELSE Len(more[i - 1].arg) + 1
    OBVIOUS
  <2>1. CASE i \in 1 .. n
    <3>1. i # 1 => i - 1 \in 1 .. n
      BY <1>10, <2>1
    <3>2. Len(made[i].arg) = IF i = 1 \/ made[i - 1].ok THEN size ELSE Len(made[i - 1].arg) + 1
      BY <1>7, <1>10, <2>1
    <3>3. CASE i = 1
      BY <1>10, <2>1, <3>2, <3>3
    <3>4. CASE i # 1
      <4>1. more[i] = made[i] /\ more[i - 1] = made[i - 1]
        BY <1>10, <2>1, <3>1, <3>4
      <4> QED
        BY <3>2, <3>4, <4>1
    <3> QED
      BY <3>3, <3>4
  <2>2. CASE i = n + 1
    <3>1. more[i].arg = batch
      BY <1>8, <1>10, <2>2
    <3>2. CASE n = 0
      <4>1. Len(buf) < size /\ i = 1
        BY <1>7, <1>10, <2>2, <3>2
      <4>2. Len(batch) = size
        BY <1>1, <1>5, <4>1
      <4> QED
        BY <3>1, <4>1, <4>2
    <3>3. CASE n # 0
      <4>1. i # 1 /\ i - 1 = n /\ more[i - 1] = made[n]
        BY <1>10, <2>2, <3>3
      <4>2. CASE made[n].ok
        <5>1. Len(buf) < size
          BY <1>7, <1>10, <3>3, <4>2 DEF n
        <5>2. Len(batch) = size
          BY <1>1, <1>5, <5>1
        <5> QED
          BY <3>1, <4>1, <4>2, <5>2
      <4>3. CASE ~made[n].ok
        <5>1. Len(buf) = Len(made[n].arg)
          BY <1>7, <1>10, <3>3, <4>3 DEF n
        <5> QED
          BY <1>5, <3>1, <4>1, <4>3, <5>1
      <4> QED
        BY <4>2, <4>3
    <3> QED
      BY <3>2, <3>3
  <2> QED
    BY <1>10, <2>1, <2>2
<1>14. InBatches(q)
  BY <1>1, <1>10, <1>12, <1>13 DEF InBatches, more
<1>15. Gathers(q)
  <2>1. more[Len(more)] = m
    BY <1>10
  <2>2. IF m.ok THEN Len(q.state.buf) < size
        ELSE Len(q.state.buf) = Len(m.arg) /\ Len(q.state.buf) >= size
    <3>1. CASE threw
      BY <1>4, <1>5, <1>8, <3>1
    <3>2. CASE ~threw
      <4>1. Len(<<>>) = 0 /\ 0 < size
        BY <1>1, EmptyIsSeq
      <4> QED
        BY <1>4, <1>8, <3>2, <4>1
    <3> QED
      BY <3>1, <3>2
  <2> QED
    BY <1>1, <1>10, <1>12, <2>1, <2>2 DEF Gathers, more
<1> QED
  BY <1>1, <1>2, <1>14, <1>15 DEF Forwards

LEMMA CalledKeeps ==
  ASSUME NEW p, Named(p), kind \in Kinds, size \in Int, NEW item \in Nat,
         NEW threw \in BOOLEAN, threw => Calls(p.state, item),
         NEW q, q = Called(p, item, threw)
  PROVE  Named(q)
<1>0. IsPast(q)
  <2>1. IsPast(p)
    BY DEF Named
  <2> QED
    BY <2>1, CalledIs
<1> SUFFICES Forwards(q) /\ Counts(q) /\ Gathers(q)
  BY <1>0 DEF Named
<1>2. kind \in {"never", "always", "buffer", "filter", "map", "skip", "take"}
  BY KindsAssumption
<1>3. kind \notin {"skip", "take"} => Counts(q)
  BY DEF Counts
<1>4. ~(kind = "buffer" /\ size > 0) => Gathers(q)
  BY DEF Gathers
<1>5. CASE kind \in {"never", "always"}
  BY <1>3, <1>4, <1>5, NoKindOrAlways
<1>6. CASE kind = "filter"
  BY <1>3, <1>4, <1>6, FilterForwards
<1>7. CASE kind = "map"
  BY <1>3, <1>4, <1>7, MapForwards
<1>8. CASE kind = "skip"
  BY <1>4, <1>8, SkipForwards
<1>9. CASE kind = "take"
  BY <1>4, <1>9, TakeForwards
<1>10. CASE kind = "buffer"
  <2>1. CASE size <= 0
    <3>1. ~(size > 0)
      BY <2>1
    <3> QED
      BY <1>3, <1>4, <1>10, <2>1, <3>1, NoSizeForwards
  <2>2. CASE size > 0
    BY <1>3, <1>10, <2>2, BufferGathers, BufferDelivers
  <2> QED
    BY <2>1, <2>2
<1> QED
  BY <1>2, <1>5, <1>6, <1>7, <1>8, <1>9, <1>10

(* The combinator and its size never change. *)
LEMMA SameForwards ==
  ASSUME NEW p, Forwards(p), UNCHANGED <<kind, size>>
  PROVE  Forwards(p)'
BY DEF Forwards, InBatches

(* A holder that gets the past p. *)
LEMMA BecomesNamed ==
  ASSUME NEW p, Named(p), NEW h, UNCHANGED <<kind, size>>,
         seen'[h] = p.seen, tried'[h] = p.tried, closure'[h] = p.state
  PROVE  Named(Now(h))'
<1>1. IsPast(Now(h))'
  BY DEF Named, IsPast, Now
<1>2. Forwards(Now(h))'
  BY DEF Named, Forwards, InBatches, Now
<1>3. Counts(Now(h))'
  BY DEF Named, Counts, Now
<1>4. Gathers(Now(h))'
  BY DEF Named, Gathers, Now
<1> QED
  BY <1>1, <1>2, <1>3, <1>4 DEF Named

LEMMA NextIInv ==
  ASSUME IInv, [Next]_vars
  PROVE  IInv'
<1>1. TypeOK' /\ HistoryTypeOK'
  BY NextTypes DEF IInv
<1>2. \A h \in Holders : Named(Now(h))
  BY DEF IInv
<1>3. \A h : Now(h).seen = seen[h] /\ Now(h).tried = tried[h] /\ Now(h).state = closure[h]
  BY DEF Now
<1>4. ASSUME NEW g \in Holders, NEW threw \in BOOLEAN, Call(g, threw), NEW h \in Holders
      PROVE  Named(Now(h))'
  <2>0. PICK p, n, q : p = Now(g) /\ n = calls + 1 /\ q = Called(p, n, threw)
    OBVIOUS
  <2>1. /\ IsPast(p) /\ n \in Nat /\ (threw => Calls(p.state, n))
        /\ seen' = [seen EXCEPT ![g] = q.seen] /\ tried' = [tried EXCEPT ![g] = q.tried]
        /\ closure' = [closure EXCEPT ![g] = q.state]
    BY <1>4, <2>0, CallFacts DEF IInv
  <2>2. kind \in Kinds /\ size \in Int /\ UNCHANGED <<kind, size>>
    BY <1>4, SizeIsInt DEF Call, IInv, TypeOK
  <2>3. Named(q)
    BY <1>2, <2>0, <2>1, <2>2, CalledKeeps
  <2> DEFINE r == IF h = g THEN q ELSE Now(h)
  <2>4. Named(r)
    BY <1>2, <2>3
  <2>5. seen'[h] = r.seen /\ tried'[h] = r.tried /\ closure'[h] = r.state
    BY <1>3, <2>1 DEF IInv, TypeOK, HistoryTypeOK
  <2> HIDE DEF r
  <2> QED
    BY <2>2, <2>4, <2>5, BecomesNamed
<1>5. ASSUME NEW from \in Holders, NEW to \in Holders, Copy(from, to), NEW h \in Holders
      PROVE  Named(Now(h))'
  <2> DEFINE p == IF h = to THEN Now(from) ELSE Now(h)
  <2>1. Named(p) /\ UNCHANGED <<kind, size>>
    BY <1>2, <1>5 DEF Copy
  <2>2. seen'[h] = p.seen /\ tried'[h] = p.tried /\ closure'[h] = p.state
    BY <1>3, <1>5 DEF Copy, IInv, TypeOK, HistoryTypeOK
  <2> HIDE DEF p
  <2> QED
    BY <2>1, <2>2, BecomesNamed
<1>6. ASSUME UNCHANGED <<kind, size, closure, seen, tried>>, NEW h \in Holders
      PROVE  Named(Now(h))'
  <2>1. UNCHANGED <<kind, size>> /\ seen'[h] = Now(h).seen /\ tried'[h] = Now(h).tried
        /\ closure'[h] = Now(h).state
    BY <1>3, <1>6
  <2> QED
    BY <1>2, <2>1, BecomesNamed
<1>7. ASSUME NEW last \in 0 .. Len(actions), NEW threw \in BOOLEAN, CallAll(last, threw)
      PROVE  UNCHANGED <<kind, size, closure, seen, tried>>
  BY <1>7 DEF CallAll, AfterAll, IInv, TypeOK
<1>8. \A h \in Holders : Named(Now(h))'
  BY <1>4, <1>5, <1>6, <1>7 DEF Next, Done
<1> QED
  BY <1>1, <1>8 DEF IInv

LEMMA InitIInv == Init => IInv
<1> SUFFICES ASSUME Init PROVE IInv
  OBVIOUS
<1>1. TypeOK /\ HistoryTypeOK
  BY InitTypes
<1>2. ASSUME NEW h \in Holders PROVE Named(Now(h))
  <2> DEFINE p == Now(h)
  <2>0. IsPast(p)
    BY <1>1 DEF TypeOK, HistoryTypeOK, IsPast, Now
  <2>1. /\ p.state.buf = <<>> /\ p.seen = <<>> /\ p.tried = <<>>
        /\ p.state.i = IF kind \in {"skip", "take"} /\ size > 0 THEN size ELSE 0
    BY DEF Init, Now
  <2> HIDE DEF p
  <2>2. size \in Int /\ Count(size) \in Nat /\ Len(<<>>) = 0 /\ DOMAIN <<>> = {}
    <3>1. size \in Int
      BY SizeIsInt DEF Init
    <3> QED
      BY <3>1, EmptyIsSeq DEF Count
  <2>3. Counts(p)
    BY <2>1, <2>2 DEF Counts, Count
  <2>4. /\ Arguments(<<>>) = <<>> /\ Delivered(<<>>) = <<>> /\ Chosen(<<>>) = <<>>
        /\ Images(<<>>) = <<>> /\ [n \in DOMAIN <<>> |-> <<>>] = <<>>
    <3>1. /\ Arguments(<<>>) = <<>> /\ Delivered(<<>>) = <<>>
          /\ Images(<<>>) = <<>> /\ [n \in DOMAIN <<>> |-> <<>>] = <<>>
      BY DEF Arguments, Delivered, Images
    <3>2. Chosen(<<>>) = FlattenSeq(<<>>)
      BY DEF Chosen
    <3> QED
      BY <3>1, <3>2, FlattenEmpty
  <2>5. SubSeq(<<>>, Count(size) + 1, 0) = <<>> /\ SubSeq(<<>>, 1, 0) = <<>>
    <3>1. Count(size) + 1 \in Int /\ 0 \in Int /\ 1 \in Int /\ 0 < Count(size) + 1 /\ 0 < 1
      BY <2>2
    <3> QED
      BY <3>1, SubSeqEmpty
  <2>6. (IF Count(size) < 0 THEN Count(size) ELSE 0) = 0
    BY <2>2
  <2>7. FlattenSeq(<<>>) \o <<>> = <<>> /\ IsSeq(FlattenSeq(<<>>))
    BY FlattenEmpty, EmptyIsSeq, ConcatEmpty
  <2>8. InBatches(p)
    BY <2>1, <2>2, <2>4, <2>7 DEF InBatches
  <2>9. Gathers(p)
    <3>1. size > 0 => 0 < size
      BY <2>2
    <3> QED
      BY <2>1, <2>2, <2>4, <2>7, <3>1 DEF Gathers
  <2>10. Forwards(p)
    BY <1>1, <2>1, <2>2, <2>4, <2>5, <2>6, <2>8, KindsAssumption DEF Forwards, TypeOK
  <2> QED
    BY <2>0, <2>3, <2>9, <2>10 DEF Named, p
<1> QED
  BY <1>1, <1>2 DEF IInv

(* The inductive invariant: besides what each closure has forwarded, its    *)
(* count is what the items seen so far left of it, and its vector is full   *)
(* only if the batch it holds was tried and threw (stream.cc:22-70).        *)
THEOREM Invariance == Spec => []IInv
BY InitIInv, NextIInv, PTL DEF Spec

(* Whatever it is copied to and however often its action throws, each       *)
(* closure does to the items it saw what its name says.                     *)
THEOREM NamesKept == Spec => []ForwardsAsNamed
<1>1. IInv => ForwardsAsNamed
  BY DEF IInv, Named, ForwardsAsNamed
<1> QED
  BY <1>1, Invariance, PTL

-----------------------------------------------------------------------------
(* all().                                                                   *)

ForgetInv == IInv /\ DOMAIN viaAll = DOMAIN actions /\ AllForgets

LEMMA InitForget == Init => ForgetInv
<1> SUFFICES ASSUME Init PROVE ForgetInv
  OBVIOUS
<1>1. given = {} /\ DOMAIN viaAll = DOMAIN actions /\ \A k \in DOMAIN actions : viaAll[k] = {}
  BY DEF Init
<1>2. AllForgets
  BY <1>1 DEF AllForgets
<1> QED
  BY <1>1, <1>2, InitIInv DEF ForgetInv

(* What does not touch the histories of all() leaves what they show.        *)
LEMMA SameForgets ==
  ASSUME ForgetInv, UNCHANGED <<kind, size, given, viaAll>>
  PROVE  DOMAIN viaAll' = DOMAIN actions /\ AllForgets'
<1>1. ASSUME NEW k \in DOMAIN actions, NEW visit \in viaAll[k]
      PROVE  Forwards(visit.past)'
  <2>1. Forwards(visit.past)
    BY DEF ForgetInv, AllForgets
  <2> QED
    BY <2>1, SameForwards
<1>2. AllForgets'
  BY <1>1 DEF ForgetInv, AllForgets, ItemOf
<1> QED
  BY <1>2 DEF ForgetInv

(* The copy all() makes of an action has its past, and this item besides.   *)
LEMMA VisitForwards ==
  ASSUME IInv, NEW h \in Holders, NEW item \in Nat, NEW threw \in BOOLEAN,
         threw => Calls(closure[h], item), NEW q, q = Called(Now(h), item, threw)
  PROVE  Forwards(q) /\ Last(q.seen) = item
<1>1. Named(Now(h)) /\ kind \in Kinds /\ size \in Int /\ Now(h).state = closure[h]
  BY SizeIsInt DEF IInv, TypeOK, Now
<1>2. Named(q)
  BY <1>1, CalledKeeps
<1>3. q.seen = Append(seen[h], item) /\ seen[h] \in Seq(Nat)
  BY DEF Called, Now, IInv, HistoryTypeOK
<1>4. Len(q.seen) = Len(seen[h]) + 1 /\ q.seen[Len(seen[h]) + 1] = item
  BY <1>3, AppendProperties
<1> QED
  BY <1>2, <1>4 DEF Named, Last

LEMMA AllStep ==
  ASSUME ForgetInv, NEW last \in 0 .. Len(actions), NEW threw \in BOOLEAN, CallAll(last, threw)
  PROVE  DOMAIN viaAll' = DOMAIN actions /\ AllForgets'
<1> DEFINE item == calls + 1
           Visit(k) == [past  |-> Called(Now(actions[k]), item, threw /\ k = last),
                        threw |-> threw /\ k = last]
<1>1. /\ UNCHANGED <<kind, size>> /\ given' = given \cup {item}
      /\ viaAll' = [k \in DOMAIN actions |->
                     IF k \in 1 .. last THEN viaAll[k] \cup {Visit(k)} ELSE viaAll[k]]
      /\ IF threw THEN last > 0 /\ Calls(closure[actions[last]], item) ELSE last = Len(actions)
  BY DEF CallAll, Reached
<1>2. /\ item \in Nat /\ given \subseteq 1 .. calls /\ item \notin given
      /\ Len(actions) \in Nat /\ DOMAIN actions = 1 .. Len(actions) /\ \A k \in DOMAIN actions : actions[k] \in Holders
  <2>1. calls \in Nat /\ given \subseteq 1 .. calls /\ actions \in Seq(Holders)
    BY VectorAssumption DEF ForgetInv, IInv, TypeOK
  <2>2. calls + 1 \notin 1 .. calls
    BY <2>1
  <2>3. Len(actions) \in Nat /\ DOMAIN actions = 1 .. Len(actions) /\ \A k \in DOMAIN actions : actions[k] \in Holders
    BY <2>1
  <2> QED
    BY <2>1, <2>2, <2>3
<1>3. ASSUME NEW k \in DOMAIN actions, k \in 1 .. last
      PROVE  /\ Forwards(Visit(k).past) /\ ItemOf(Visit(k)) = item
             /\ Visit(k).threw <=> (threw /\ k = last)
  <2>1. actions[k] \in Holders
    BY <1>2
  <2>2. PICK t \in BOOLEAN : t <=> (threw /\ k = last)
    OBVIOUS
  <2>3. t => Calls(closure[actions[k]], item)
    BY <1>1, <2>2
  <2>4. PICK q : q = Called(Now(actions[k]), item, t)
    OBVIOUS
  <2>5. Forwards(q) /\ Last(q.seen) = item
    BY <1>2, <2>1, <2>3, <2>4, VisitForwards DEF ForgetInv
  <2>6. t = (threw /\ k = last)
    BY <2>2
  <2>7. Visit(k).past = q /\ Visit(k).threw = t
    BY <2>4, <2>6, Zenon
  <2> QED
    BY <2>2, <2>5, <2>7 DEF ItemOf
<1>4. \A k \in DOMAIN actions : \A visit \in viaAll[k] : ItemOf(visit) \in given
  BY DEF ForgetInv, AllForgets
<1> HIDE DEF item, Visit
<1>5. ASSUME NEW k \in DOMAIN actions, NEW visit \in viaAll'[k]
      PROVE  Forwards(visit.past)'
  <2>1. Forwards(visit.past)
    <3>1. CASE visit \in viaAll[k]
      BY <3>1 DEF ForgetInv, AllForgets
    <3>2. CASE visit \notin viaAll[k]
      BY <1>1, <1>3, <3>2
    <3> QED
      BY <3>1, <3>2
  <2> QED
    BY <1>1, <2>1, SameForwards
<1>6. ASSUME NEW k \in DOMAIN actions
      PROVE  {ItemOf(visit) : visit \in viaAll'[k]} =
               {i \in given' : \A j \in 1 .. k - 1 :
                  \A visit \in viaAll'[j] : ItemOf(visit) = i => ~visit.threw}
  <2> DEFINE Missed(via, i) ==
               \E j \in 1 .. k - 1 : \E visit \in via[j] : ItemOf(visit) = i /\ visit.threw
  <2>1. k \in Nat /\ \A j \in 1 .. k - 1 : j \in DOMAIN actions
    BY <1>2
  <2>2. {ItemOf(visit) : visit \in viaAll[k]} = {i \in given : ~Missed(viaAll, i)}
    BY DEF ForgetInv, AllForgets
  <2>3. {ItemOf(visit) : visit \in viaAll'[k]} =
          IF k \in 1 .. last THEN {ItemOf(visit) : visit \in viaAll[k]} \cup {item}
          ELSE {ItemOf(visit) : visit \in viaAll[k]}
    BY <1>1, <1>3
  <2>4. ASSUME NEW i \in given PROVE Missed(viaAll', i) <=> Missed(viaAll, i)
    BY <1>1, <1>2, <1>3, <2>1
  <2>5. Missed(viaAll', item) <=> k \notin 1 .. last
    <3>1. ASSUME NEW j \in 1 .. k - 1, NEW visit \in viaAll'[j], ItemOf(visit) = item,
                 visit.threw
          PROVE  last \in 1 .. k - 1
      <4>1. j \in DOMAIN actions /\ visit \notin viaAll[j]
        BY <1>2, <1>4, <2>1, <3>1
      <4>2. j \in 1 .. last /\ visit = Visit(j)
        BY <1>1, <4>1
      <4>3. j = last
        BY <1>3, <3>1, <4>1, <4>2
      <4> QED
        BY <4>3
    <3>2. ASSUME last \in 1 .. k - 1, threw
          PROVE  Missed(viaAll', item)
      <4>1. last \in DOMAIN actions /\ last \in 1 .. last
        BY <2>1, <3>2
      <4>2. Visit(last) \in viaAll'[last]
        BY <1>1, <4>1
      <4>3. ItemOf(Visit(last)) = item /\ Visit(last).threw
        BY <1>3, <3>2, <4>1
      <4> QED
        BY <3>2, <4>2, <4>3
    <3> DEFINE n == Len(actions)
    <3>0. /\ n \in Nat /\ k \in 1 .. n /\ last \in 0 .. n
          /\ (threw => last > 0) /\ (~threw => last = n)
      BY <1>1, <1>2
    <3> HIDE DEF n
    <3>3. last \in 1 .. k - 1 => k \notin 1 .. last /\ threw
      BY <3>0
    <3>4. k \notin 1 .. last => last \in 1 .. k - 1
      BY <3>0
    <3> QED
      BY <3>1, <3>2, <3>3, <3>4
  <2> HIDE DEF Missed
  <2>6. {i \in given' : ~Missed(viaAll', i)} =
          IF k \in 1 .. last THEN {i \in given : ~Missed(viaAll, i)} \cup {item}
          ELSE {i \in given : ~Missed(viaAll, i)}
    BY <1>1, <2>4, <2>5
  <2>7. {ItemOf(visit) : visit \in viaAll'[k]} = {i \in given' : ~Missed(viaAll', i)}
    BY <2>2, <2>3, <2>6
  <2> QED
    BY <2>7 DEF Missed
<1>7. AllForgets'
  BY <1>5, <1>6 DEF AllForgets, ItemOf
<1> QED
  BY <1>1, <1>7

LEMMA NextForget ==
  ASSUME ForgetInv, [Next]_vars
  PROVE  ForgetInv'
<1>1. IInv'
  BY NextIInv DEF ForgetInv
<1>2. \/ UNCHANGED <<kind, size, given, viaAll>>
      \/ \E last \in 0 .. Len(actions), threw \in BOOLEAN : CallAll(last, threw)
  BY DEF Next, Call, Copy, Done
<1>3. DOMAIN viaAll' = DOMAIN actions /\ AllForgets'
  BY <1>2, SameForgets, AllStep
<1> QED
  BY <1>1, <1>3 DEF ForgetInv

(* all() calls copies of its actions in their order, so that none of them   *)
(* ever counts: each treats every item it gets as the next one after those  *)
(* of the direct calls, and gets all but those for which an action before   *)
(* it threw (stream.cc:72-77).                                              *)
THEOREM AllNeverCounts == Spec => []AllForgets
<1>1. ForgetInv => AllForgets
  BY DEF ForgetInv
<1>2. ForgetInv /\ [Next]_vars => ForgetInv'
  BY NextForget
<1> QED
  BY <1>1, <1>2, InitForget, PTL DEF Spec

=============================================================================
