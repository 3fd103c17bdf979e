--------------------------- MODULE PipelineProofs ---------------------------
(***************************************************************************)
(* The stages of stream4.cc for every chain, any number of threads, every  *)
(* predicate and mapper, and any number of calls and exceptions.           *)
(***************************************************************************)
EXTENDS Pipeline, Integers, SequenceTheorems, WellFoundedInduction, TLAPS

USE DEF history, counters

-----------------------------------------------------------------------------
(* Sequences of anything: an item is a number, a vector of them, a vector   *)
(* of vectors.                                                              *)
IsSeq(s) == s \in Seq(Range(s))

LEMMA SeqFacts ==
  ASSUME NEW s, IsSeq(s)
  PROVE  Len(s) \in Nat /\ DOMAIN s = 1 .. Len(s) /\ (s = <<>> <=> Len(s) = 0)
BY LenProperties, EmptySeq DEF IsSeq

LEMMA EmptyIsSeq == IsSeq(<<>>) /\ Len(<<>>) = 0
<1>1. <<>> \in Seq({})
  BY EmptySeq
<1> QED
  BY <1>1, SeqOfRange, EmptySeq DEF IsSeq

LEMMA OneIsSeq ==
  ASSUME NEW e
  PROVE  IsSeq(<<e>>) /\ Len(<<e>>) = 1
<1>1. <<e>> \in Seq({e}) /\ Len(<<e>>) = 1
  OBVIOUS
<1> QED
  BY <1>1, SeqOfRange DEF IsSeq

LEMMA AppendFacts ==
  ASSUME NEW s, NEW e, IsSeq(s)
  PROVE  /\ IsSeq(Append(s, e)) /\ Len(Append(s, e)) = Len(s) + 1
         /\ \A i \in 1 .. Len(s) : Append(s, e)[i] = s[i]
         /\ Append(s, e)[Len(s) + 1] = e
<1> DEFINE S == Range(s) \cup {e}
<1>1. s \in Seq(S) /\ e \in S
  BY SeqMonotonic DEF IsSeq
<1>2. /\ Append(s, e) \in Seq(S) /\ Len(Append(s, e)) = Len(s) + 1
      /\ \A i \in 1 .. Len(s) : Append(s, e)[i] = s[i]
      /\ Append(s, e)[Len(s) + 1] = e
  BY <1>1, AppendProperties
<1>3. IsSeq(Append(s, e))
  BY <1>2, SeqOfRange DEF IsSeq
<1> QED
  BY <1>2, <1>3

LEMMA TailFacts ==
  ASSUME NEW s, IsSeq(s), Len(s) > 0
  PROVE  /\ IsSeq(Tail(s)) /\ Len(Tail(s)) = Len(s) - 1
         /\ \A i \in 1 .. Len(s) - 1 : Tail(s)[i] = s[i + 1]
<1>1. s # <<>>
  BY SeqFacts
<1> QED
  BY <1>1, HeadTailProperties, SeqOfRange DEF IsSeq

LEMMA SubSeqFacts ==
  ASSUME NEW s, IsSeq(s), NEW m \in 1 .. Len(s) + 1, NEW n \in m - 1 .. Len(s)
  PROVE  /\ IsSeq(SubSeq(s, m, n)) /\ Len(SubSeq(s, m, n)) = n - m + 1
         /\ \A i \in 1 .. n - m + 1 : SubSeq(s, m, n)[i] = s[m + i - 1]
<1>1. Len(s) \in Nat /\ \A i \in m .. n : s[i] \in Range(s)
  BY SeqFacts DEF Range
<1>2. /\ SubSeq(s, m, n) \in Seq(Range(s))
      /\ Len(SubSeq(s, m, n)) = IF m <= n THEN n - m + 1 ELSE 0
      /\ \A i \in 1 .. n - m + 1 : SubSeq(s, m, n)[i] = s[m + i - 1]
  BY <1>1, SubSeqProperties
<1>3. IsSeq(SubSeq(s, m, n))
  BY <1>2, SeqOfRange DEF IsSeq
<1>4. Len(SubSeq(s, m, n)) = n - m + 1
  BY <1>1, <1>2
<1> QED
  BY <1>2, <1>3, <1>4

LEMMA FrontFacts ==
  ASSUME NEW s, IsSeq(s), Len(s) > 0
  PROVE  IsSeq(Front(s)) /\ Len(Front(s)) = Len(s) - 1
<1>1. Len(s) \in Nat /\ 1 \in 1 .. Len(s) + 1 /\ Len(s) - 1 \in 1 - 1 .. Len(s)
  BY SeqFacts
<1>2. IsSeq(SubSeq(s, 1, Len(s) - 1)) /\ Len(SubSeq(s, 1, Len(s) - 1)) = (Len(s) - 1) - 1 + 1
  BY <1>1, SubSeqFacts
<1> QED
  BY <1>1, <1>2 DEF Front

LEMMA EqualSeqs ==
  ASSUME NEW s, NEW u, IsSeq(s), IsSeq(u), Len(s) = Len(u),
         \A i \in 1 .. Len(s) : s[i] = u[i]
  PROVE  s = u
<1> DEFINE S == Range(s) \cup Range(u)
<1>1. s \in Seq(S) /\ u \in Seq(S)
  BY SeqMonotonic DEF IsSeq
<1> QED
  BY <1>1, SeqEqual

(* Appending to the second of two sequences put together.                   *)
LEMMA ConcatAppend ==
  ASSUME NEW s, NEW u, NEW e, IsSeq(s), IsSeq(u)
  PROVE  s \o Append(u, e) = Append(s \o u, e)
<1> DEFINE S == Range(s) \cup Range(u) \cup {e}
<1>1. s \in Seq(S) /\ u \in Seq(S) /\ e \in S
  BY SeqMonotonic DEF IsSeq
<1>2. s \o u \in Seq(S) /\ <<e>> \in Seq(S)
  BY <1>1, ConcatProperties
<1>3. Append(u, e) = u \o <<e>> /\ Append(s \o u, e) = (s \o u) \o <<e>>
  BY <1>1, <1>2, AppendIsConcat
<1> QED
  BY <1>1, <1>2, <1>3, ConcatAssociative

LEMMA ConcatEmpty ==
  ASSUME NEW s, IsSeq(s)
  PROVE  s \o <<>> = s /\ <<>> \o s = s
BY ConcatEmptySeq DEF IsSeq

LEMMA ConcatIsSeq ==
  ASSUME NEW s, NEW u, IsSeq(s), IsSeq(u)
  PROVE  IsSeq(s \o u)
<1> DEFINE S == Range(s) \cup Range(u)
<1>1. s \in Seq(S) /\ u \in Seq(S)
  BY SeqMonotonic DEF IsSeq
<1> QED
  BY <1>1, ConcatProperties, SeqOfRange DEF IsSeq

-----------------------------------------------------------------------------
(* FlattenSeq is recursive: it exists, and appending a batch appends its    *)
(* items.  Both by a least number for which they fail.                      *)

LEMMA LeastOf ==
  ASSUME NEW T \in SUBSET Nat, T # {}
  PROVE  \E n \in T : \A m \in T : n <= m
<1>1. \E n \in T : \A m \in T : ~(<<m, n>> \in OpToRel(<, Nat))
  BY NatLessThanWellFounded, WFMin, Zenon
<1>2. PICK n \in T : \A m \in T : ~(m < n)
  BY <1>1, Zenon DEF OpToRel
<1> QED
  BY <1>2

Flattens(f, ss, n) ==
  f = [i \in 1 .. n |-> IF i = 1 THEN ss[i] ELSE f[i - 1] \o ss[i]]

LEMMA FlattensExists ==
  ASSUME NEW ss, NEW n \in Nat
  PROVE  \E f : Flattens(f, ss, n)
<1> DEFINE T == {m \in Nat : ~ \E f : Flattens(f, ss, m)}
<1>1. SUFFICES ASSUME T # {} PROVE FALSE
  OBVIOUS
<1>2. PICK m \in T : \A k \in T : m <= k
  BY <1>1, LeastOf
<1>3. CASE m = 0
  <2> DEFINE f == [i \in 1 .. 0 |-> 0]
  <2>1. Flattens(f, ss, 0)
    BY DEF Flattens
  <2> QED
    BY <1>2, <1>3, <2>1
<1>4. CASE m # 0
  <2>1. m - 1 \in Nat /\ m - 1 \notin T
    BY <1>2, <1>4
  <2>2. PICK f : Flattens(f, ss, m - 1)
    BY <2>1
  <2> DEFINE last == IF m = 1 THEN ss[m] ELSE f[m - 1] \o ss[m]
             g == [i \in 1 .. m |-> IF i = m THEN last ELSE f[i]]
  <2>3. \A i \in 1 .. m : g[i] = IF i = 1 THEN ss[i] ELSE g[i - 1] \o ss[i]
    <3> SUFFICES ASSUME NEW i \in 1 .. m
                 PROVE  g[i] = IF i = 1 THEN ss[i] ELSE g[i - 1] \o ss[i]
      OBVIOUS
    <3>1. i # 1 => i - 1 \in 1 .. m - 1 /\ g[i - 1] = f[i - 1]
      BY <2>1
    <3>2. CASE i = m
      BY <3>1, <3>2
    <3>3. CASE i # m
      <4>1. i \in 1 .. m - 1 /\ g[i] = f[i]
        BY <2>1, <3>3
      <4>2. f[i] = IF i = 1 THEN ss[i] ELSE f[i - 1] \o ss[i]
        BY <2>2, <4>1 DEF Flattens
      <4> QED
        BY <3>1, <4>1, <4>2
    <3> QED
      BY <3>2, <3>3
  <2>4. Flattens(g, ss, m)
    <3> HIDE DEF last
    <3>1. g = [i \in 1 .. m |-> g[i]]
      OBVIOUS
    <3> HIDE DEF g
    <3> QED
      BY <2>3, <3>1 DEF Flattens
  <2> QED
    BY <1>2, <2>4
<1> QED
  BY <1>3, <1>4

LEMMA FlattenIs ==
  ASSUME NEW ss, Len(ss) \in Nat, Len(ss) # 0
  PROVE  \E f : Flattens(f, ss, Len(ss)) /\ FlattenSeq(ss) = f[Len(ss)]
<1> DEFINE g == CHOOSE f : Flattens(f, ss, Len(ss))
<1>1. Flattens(g, ss, Len(ss))
  BY FlattensExists
<1>2. FlattenSeq(ss) = g[Len(ss)]
  BY Zenon DEF FlattenSeq, Flattens
<1> QED
  BY <1>1, <1>2

(* FlattenSeq of a sequence of sequences and one more.                      *)
LEMMA FlattenAppend ==
  ASSUME NEW ss, NEW s, IsSeq(ss), IsSeq(s)
  PROVE  FlattenSeq(Append(ss, s)) = FlattenSeq(ss) \o s
<1> DEFINE more == Append(ss, s)
           n == Len(ss)
<1>1. /\ n \in Nat /\ Len(more) = n + 1 /\ more[n + 1] = s
      /\ \A i \in 1 .. n : more[i] = ss[i]
  BY SeqFacts, AppendFacts
<1> HIDE DEF more
<1>2. PICK g : Flattens(g, more, n + 1) /\ FlattenSeq(more) = g[n + 1]
  BY <1>1, FlattenIs
<1>3. \A i \in 1 .. n + 1 : g[i] = IF i = 1 THEN more[i] ELSE g[i - 1] \o more[i]
  BY <1>2, <1>1 DEF Flattens
<1>4. CASE n = 0
  <2>1. ss = <<>> /\ FlattenSeq(ss) = <<>>
    BY <1>4, SeqFacts DEF FlattenSeq
  <2>2. FlattenSeq(more) = s
    BY <1>1, <1>2, <1>3, <1>4
  <2> QED
    BY <2>1, <2>2, ConcatEmpty DEF more
<1>5. CASE n # 0
  <2>1. PICK f : Flattens(f, ss, n) /\ FlattenSeq(ss) = f[n]
    BY <1>1, <1>5, FlattenIs
  <2>2. \A i \in 1 .. n : f[i] = IF i = 1 THEN ss[i] ELSE f[i - 1] \o ss[i]
    BY <2>1, <1>1 DEF Flattens
  <2>3. \A i \in 1 .. n : g[i] = f[i]
    <3> DEFINE T == {i \in 1 .. n : g[i] # f[i]}
    <3>1. SUFFICES ASSUME T # {} PROVE FALSE
      OBVIOUS
    <3>2. T \in SUBSET Nat
      BY <1>1
    <3>3. PICK i \in T : \A m \in T : i <= m
      BY <3>1, <3>2, LeastOf
    <3>4. i \in 1 .. n /\ i \in 1 .. n + 1 /\ more[i] = ss[i]
      BY <1>1, <3>3
    <3>5. CASE i = 1
      BY <1>3, <2>2, <3>3, <3>4, <3>5
    <3>6. CASE i # 1
      <4>1. i - 1 \in 1 .. n /\ i - 1 \notin T
        BY <1>1, <3>3, <3>4, <3>6
      <4>2. g[i - 1] = f[i - 1]
        BY <4>1
      <4> QED
        BY <1>3, <2>2, <3>3, <3>4, <3>6, <4>2
    <3> QED
      BY <3>5, <3>6
  <2>4. g[n + 1] = g[n] \o s /\ g[n] = f[n]
    <3>1. n \in 1 .. n /\ n + 1 \in 1 .. n + 1 /\ n + 1 # 1 /\ (n + 1) - 1 = n
      BY <1>1, <1>5
    <3>2. g[n + 1] = g[(n + 1) - 1] \o more[n + 1]
      BY <1>3, <3>1, Zenon
    <3> QED
      BY <1>1, <2>3, <3>1, <3>2
  <2> QED
    BY <1>2, <2>1, <2>4 DEF more
<1> QED
  BY <1>4, <1>5

LEMMA FlattenEmpty == FlattenSeq(<<>>) = <<>>
BY EmptyIsSeq DEF FlattenSeq

-----------------------------------------------------------------------------
(* The calls.  A frame goes down a stage, turns back at a stage that stops  *)
(* the call or at the Action, or goes up again; only a stage on its way up  *)
(* gives a mutex back.                                                      *)

Ops == {"idle", "push", "return", "throw", "reset", "undo"}
Upward == {"return", "throw", "undo"}

Calls ==
  /\ op \in [Threads -> Ops]
  /\ lock \in [Stages -> Threads \cup {Nobody}]
  /\ DOMAIN frames = Threads
  /\ \A t \in Threads :
       /\ IsSeq(frames[t]) /\ Depth(t) <= Len(Chain) + 1
       /\ op[t] = "idle" <=> Depth(t) = 0
       /\ op[t] \in Upward => Depth(t) <= Len(Chain)

(* A thread has the mutexes of the stages it is in or below, its own stage  *)
(* only once the call below it is made.                                     *)
Owns(t, k) == k < Depth(t) \/ (k = Depth(t) /\ op[t] \in Upward)

LockInv ==
  \A k \in Stages, t \in Threads : lock[k] = t <=> Locked(k) /\ Owns(t, k)

OthersStay(t) ==
  /\ DOMAIN frames' = Threads /\ op' \in [Threads -> Ops]
  /\ \A u \in Threads \ {t} : frames'[u] = frames[u] /\ op'[u] = op[u]

(* Where and Select keep reset() from what is below them.                   *)
Stops(k) == Is(k, "where") \/ Is(k, "select")

GoesDown(t) ==
  /\ op[t] \in {"push", "reset"} /\ Depth(t) \in Stages
  /\ op[t] = "reset" => ~Stops(Depth(t))
  /\ OthersStay(t) /\ op'[t] = op[t]
  /\ IsSeq(frames'[t]) /\ Len(frames'[t]) = Depth(t) + 1
  /\ IF Locked(Depth(t)) THEN Acquire(t) ELSE UNCHANGED lock

GoesBack(t) ==
  /\ Depth(t) > 0 /\ OthersStay(t)
  /\ IsSeq(frames'[t]) /\ Len(frames'[t]) = Depth(t) - 1
  /\ op'[t] # op[t] \/ op[t] \in Upward
  /\ IF Depth(t) = 1 THEN op'[t] = "idle" ELSE op'[t] \in Upward

TurnsBack(t) ==
  /\ op[t] \in {"push", "reset"}
  /\ GoesBack(t) /\ UNCHANGED lock
  /\ op[t] = "reset" =>
       /\ op'[t] \in {"idle", "undo"}
       /\ Depth(t) \in Stages => Stops(Depth(t))
  /\ op[t] = "push" => op'[t] \in {"idle", "return", "throw"}

GoesUp(t) ==
  /\ op[t] \in Upward
  /\ GoesBack(t) /\ op'[t] \in {"idle", op[t]}
  /\ IF Locked(Depth(t)) THEN Release(t) ELSE UNCHANGED lock

LEMMA ChainFacts ==
  /\ Len(Chain) \in Nat /\ Stages = 1 .. Len(Chain)
  /\ \A k \in Stages : Chain[k].kind \in Kinds /\ Chain[k].size \in Nat
<1>1. Len(Chain) \in Nat /\ DOMAIN Chain = 1 .. Len(Chain)
  BY ChainAssumption, LenProperties
<1>2. \A k \in 1 .. Len(Chain) : Chain[k] \in [kind : Kinds, size : Nat]
  BY ChainAssumption, ElementOfSeq
<1> QED
  BY <1>1, <1>2 DEF Stages

LEMMA CallMoves ==
  ASSUME Calls, NEW t \in Threads, NEW item, Call(t, item)
  PROVE  /\ OthersStay(t) /\ op'[t] = op[t]
         /\ IsSeq(frames'[t]) /\ Len(frames'[t]) = Depth(t) + 1
<1>1. frames' = [frames EXCEPT ![t] = Append(frames[t], item)] /\ op' = op
  BY DEF Call
<1>2. frames'[t] = Append(frames[t], item)
  BY <1>1 DEF Calls
<1>3. OthersStay(t) /\ op'[t] = op[t]
  BY <1>1 DEF Calls, OthersStay
<1>4. IsSeq(Append(frames[t], item)) /\ Len(Append(frames[t], item)) = Depth(t) + 1
  BY AppendFacts DEF Calls, Depth
<1> QED
  BY <1>2, <1>3, <1>4

LEMMA LeaveMoves ==
  ASSUME Calls, NEW t \in Threads, NEW how \in Upward, Leave(t, how), op[t] # "idle"
  PROVE  /\ Depth(t) \in Nat /\ Depth(t) > 0
         /\ OthersStay(t) /\ op'[t] = IF Depth(t) = 1 THEN "idle" ELSE how
         /\ IsSeq(frames'[t]) /\ Len(frames'[t]) = Depth(t) - 1
<1>1. /\ frames' = [frames EXCEPT ![t] = Front(frames[t])]
      /\ op' = [op EXCEPT ![t] = IF Depth(t) = 1 THEN "idle" ELSE how]
  BY DEF Leave
<1>2. IsSeq(frames[t]) /\ Depth(t) \in Nat /\ Depth(t) > 0
  BY SeqFacts DEF Calls, Depth
<1>3. frames'[t] = Front(frames[t])
  BY <1>1 DEF Calls
<1>4. OthersStay(t) /\ op'[t] = IF Depth(t) = 1 THEN "idle" ELSE how
  BY <1>1 DEF Calls, OthersStay, Ops, Upward
<1>5. IsSeq(Front(frames[t])) /\ Len(Front(frames[t])) = Depth(t) - 1
  BY <1>2, FrontFacts DEF Depth
<1> QED
  BY <1>2, <1>3, <1>4, <1>5

LEMMA Moves ==
  ASSUME Calls, NEW t \in Threads, Step(t)
  PROVE  GoesDown(t) \/ TurnsBack(t) \/ GoesUp(t)
<1> USE DEF At, AtAction, Upward, Stops, Is
<1>0. \A k \in Stages : Chain[k].kind \in Kinds
  BY ChainFacts
<1>1. ASSUME NEW item, Call(t, item), op[t] \in {"push", "reset"}, Depth(t) \in Stages,
             op[t] = "reset" => ~Stops(Depth(t)),
             IF Locked(Depth(t)) THEN Acquire(t) ELSE UNCHANGED lock
      PROVE  GoesDown(t)
  BY <1>1, CallMoves DEF GoesDown
<1>2. ASSUME NEW how \in Upward, Leave(t, how), op[t] \in {"push", "reset"}, UNCHANGED lock,
             how = "undo" <=> op[t] = "reset",
             op[t] = "reset" /\ Depth(t) \in Stages => Stops(Depth(t))
      PROVE  TurnsBack(t)
  BY <1>2, LeaveMoves DEF TurnsBack, GoesBack
<1>3. ASSUME op[t] \in Upward, Leave(t, op[t]),
             IF Locked(Depth(t)) THEN Release(t) ELSE UNCHANGED lock
      PROVE  GoesUp(t)
  BY <1>3, LeaveMoves DEF GoesUp, GoesBack
<1>4. CASE Where(t) /\ UNCHANGED lock
  <2>1. op[t] = "push" /\ Depth(t) \in Stages /\ ~Locked(Depth(t))
    BY <1>4 DEF Where, Locked
  <2>2. Call(t, Item(t)) \/ Leave(t, "return")
    BY <1>4 DEF Where
  <2> QED
    BY <1>1, <1>2, <1>4, <2>1, <2>2
<1>5. CASE (Select(t) \/ Concat(t) \/ ResetConcat(t)) /\ UNCHANGED lock
  <2>1. /\ op[t] \in {"push", "reset"} /\ Depth(t) \in Stages /\ ~Locked(Depth(t))
        /\ op[t] = "reset" => ~Stops(Depth(t))
    BY <1>5 DEF Select, Concat, ResetConcat, Locked
  <2>2. \E item : Call(t, item)
    BY <1>5 DEF Select, Concat, ResetConcat
  <2> QED
    BY <1>1, <1>5, <2>1, <2>2
<1>6. CASE ResetEmpty(t) /\ UNCHANGED lock
  <2>1. Depth(t) = Len(Chain) + 1 => Depth(t) \notin Stages
    BY ChainFacts
  <2>2. op[t] = "reset" /\ Leave(t, "undo") /\ (Depth(t) \in Stages => Stops(Depth(t)))
    BY <1>6, <2>1 DEF ResetEmpty
  <2> QED
    BY <1>2, <1>6, <2>2
<1>7. CASE WindowReturns(t)
  BY <1>3, <1>7 DEF WindowReturns, Locked
<1>8. CASE PlainReturns(t)
  BY <1>3, <1>8 DEF PlainReturns, Locked
<1>9. CASE Unwind(t)
  BY <1>3, <1>9 DEF Unwind, Unguard
<1>10. CASE ResetReturns(t)
  BY <1>3, <1>10 DEF ResetReturns
<1>11. CASE Buffer(t)
  <2> DEFINE held == Append(items[Depth(t)], Item(t))
  <2>1. op[t] = "push" /\ Depth(t) \in Stages /\ Locked(Depth(t))
    BY <1>11 DEF Buffer, Locked
  <2>2. (Acquire(t) /\ Call(t, held)) \/ (Leave(t, "return") /\ UNCHANGED lock)
    BY <1>11 DEF Buffer
  <2> QED
    BY <1>1, <1>2, <2>1, <2>2
<1>12. CASE Window(t)
  BY <1>1, <1>12 DEF Window, Locked
<1>13. CASE Act(t) \/ ActThrows(t)
  BY <1>2, <1>13 DEF Act, ActThrows
<1>14. CASE BufferReturns(t)
  BY <1>3, <1>14 DEF BufferReturns, Locked
<1>15. CASE ConcatReturns(t)
  BY <1>3, <1>15 DEF ConcatReturns, Locked
<1>16. CASE ResetLocked(t)
  BY <1>1, <1>16 DEF ResetLocked, Locked
<1> QED
  BY <1>4, <1>5, <1>6, <1>7, <1>8, <1>9, <1>10, <1>11, <1>12, <1>13, <1>14, <1>15, <1>16
     DEF Step, Down, Up

(* A call begins: one frame, and no mutex.                                  *)
Begins(t) ==
  /\ op[t] = "idle" /\ op'[t] \in {"push", "reset"}
  /\ OthersStay(t) /\ IsSeq(frames'[t]) /\ Len(frames'[t]) = 1
  /\ UNCHANGED lock

LEMMA Beginnings ==
  ASSUME Calls, NEW t \in Threads, CallPush(t) \/ CallReset(t)
  PROVE  Begins(t) /\ UNCHANGED <<items, capacity, took, gave, throws>>
<1>1. PICK e : frames' = [frames EXCEPT ![t] = <<e>>]
  BY DEF CallPush, CallReset
<1>2. frames'[t] = <<e>> /\ IsSeq(<<e>>) /\ Len(<<e>>) = 1
  BY <1>1, OneIsSeq DEF Calls
<1>3. OthersStay(t) /\ op'[t] \in {"push", "reset"} /\ op[t] = "idle"
  BY <1>1 DEF Calls, OthersStay, CallPush, CallReset, Ops
<1> QED
  BY <1>2, <1>3 DEF Begins, CallPush, CallReset

LEMMA CallsKept ==
  ASSUME Calls, NEW t \in Threads,
         Begins(t) \/ GoesDown(t) \/ TurnsBack(t) \/ GoesUp(t)
  PROVE  Calls'
<1>1. Len(Chain) \in Nat /\ Stages = 1 .. Len(Chain)
  BY ChainFacts
<1>2. \A u \in Threads : Depth(u) \in Nat
  BY SeqFacts DEF Calls, Depth
<1>3. OthersStay(t)
  BY DEF Begins, GoesDown, TurnsBack, GoesUp, GoesBack
<1>4. lock' \in [Stages -> Threads \cup {Nobody}]
  <2>1. CASE UNCHANGED lock
    BY <2>1 DEF Calls
  <2>2. CASE Acquire(t)
    BY <2>2 DEF Calls, Acquire
  <2>3. CASE Release(t)
    BY <2>3 DEF Calls, Release
  <2> QED
    BY <2>1, <2>2, <2>3 DEF Begins, GoesDown, TurnsBack, GoesUp
<1>5. ASSUME NEW u \in Threads
      PROVE  /\ IsSeq(frames'[u]) /\ Len(frames'[u]) <= Len(Chain) + 1
             /\ op'[u] = "idle" <=> Len(frames'[u]) = 0
             /\ op'[u] \in Upward => Len(frames'[u]) <= Len(Chain)
  <2>1. CASE u # t
    BY <1>3, <2>1 DEF Calls, OthersStay, Depth
  <2>2. CASE u = t /\ Begins(t)
    BY <1>1, <2>2 DEF Begins, Upward
  <2>3. CASE u = t /\ GoesDown(t)
    <3>1. Len(frames'[t]) # 0 /\ Len(frames'[t]) <= Len(Chain) + 1
      BY <1>1, <1>2, <2>3 DEF GoesDown
    <3>2. op'[t] \notin Upward /\ op'[t] # "idle" /\ IsSeq(frames'[t])
      BY <2>3 DEF GoesDown, Upward
    <3> QED
      BY <2>3, <3>1, <3>2
  <2>4. CASE u = t /\ (TurnsBack(t) \/ GoesUp(t))
    <3>1. GoesBack(t)
      BY <2>4 DEF TurnsBack, GoesUp
    <3>2. Len(frames'[t]) <= Len(Chain) /\ Depth(t) > 0
      BY <1>1, <1>2, <3>1 DEF GoesBack, Calls
    <3>3. Len(frames'[t]) = 0 <=> Depth(t) = 1
      BY <1>2, <3>1 DEF GoesBack
    <3>4. op'[t] = "idle" <=> Depth(t) = 1
      BY <3>1 DEF GoesBack, Upward
    <3> QED
      BY <1>1, <2>4, <3>1, <3>2, <3>3, <3>4 DEF GoesBack
  <2> QED
    BY <2>1, <2>2, <2>3, <2>4
<1> QED
  BY <1>3, <1>4, <1>5 DEF Calls, OthersStay, Depth

LEMMA LocksKept ==
  ASSUME Calls, LockInv, NEW t \in Threads,
         Begins(t) \/ GoesDown(t) \/ TurnsBack(t) \/ GoesUp(t)
  PROVE  LockInv'
<1>1. Len(Chain) \in Nat /\ Stages = 1 .. Len(Chain)
  BY ChainFacts
<1>2. \A u \in Threads : Depth(u) \in Nat
  BY SeqFacts DEF Calls, Depth
<1>3. OthersStay(t)
  BY DEF Begins, GoesDown, TurnsBack, GoesUp, GoesBack
<1>4. SUFFICES ASSUME NEW k \in Stages, NEW u \in Threads
               PROVE  lock'[k] = u <=> Locked(k) /\ Owns(u, k)'
  BY DEF LockInv, Locked, Stages
<1>5. lock[k] = u <=> Locked(k) /\ Owns(u, k)
  BY DEF LockInv
<1>6. lock[k] = t <=> Locked(k) /\ Owns(t, k)
  BY DEF LockInv
<1>7. k \in Nat /\ k > 0 /\ k <= Len(Chain) /\ u # Nobody /\ t # Nobody
  BY <1>1, ThreadAssumption
<1>8. u # t => (Owns(u, k)' <=> Owns(u, k))
  BY <1>3 DEF OthersStay, Owns, Depth
<1>9. CASE Begins(t)
  <2>1. Depth(t) = 0 /\ ~Owns(t, k)
    BY <1>7, <1>9 DEF Begins, Calls, Owns, Upward
  <2>2. ~Owns(t, k)'
    BY <1>7, <1>9 DEF Begins, Owns, Upward, Depth
  <2>3. lock' = lock
    BY <1>9 DEF Begins
  <2> QED
    BY <1>5, <1>8, <2>1, <2>2, <2>3
<1>10. CASE GoesDown(t)
  <2>1. Owns(t, k)' <=> Owns(t, k) \/ k = Depth(t)
    BY <1>2, <1>7, <1>10 DEF GoesDown, Owns, Upward, Depth
  <2>2. CASE Locked(Depth(t))
    <3>1. lock[Depth(t)] = Nobody /\ lock' = [lock EXCEPT ![Depth(t)] = t]
      BY <1>10, <2>2 DEF GoesDown, Acquire
    <3>2. lock'[k] = IF k = Depth(t) THEN t ELSE lock[k]
      BY <3>1 DEF Calls
    <3> QED
      BY <1>5, <1>7, <1>8, <2>1, <2>2, <3>1, <3>2
  <2>3. CASE ~Locked(Depth(t))
    <3>1. lock' = lock
      BY <1>10, <2>3 DEF GoesDown
    <3> QED
      BY <1>5, <1>8, <2>1, <2>3, <3>1
  <2> QED
    BY <2>2, <2>3
<1>11. CASE TurnsBack(t)
  <2>1. Owns(t, k)' <=> Owns(t, k)
    <3>1. Len(frames'[t]) = Depth(t) - 1 /\ op[t] \notin Upward
      BY <1>11 DEF TurnsBack, GoesBack, Upward
    <3>2. Depth(t) # 1 => op'[t] \in Upward
      BY <1>11 DEF TurnsBack, GoesBack
    <3>3. Owns(t, k) <=> k < Depth(t)
      BY <3>1 DEF Owns
    <3>4. Owns(t, k)' <=> k < Depth(t) - 1 \/ (k = Depth(t) - 1 /\ op'[t] \in Upward)
      BY <3>1 DEF Owns, Depth
    <3> QED
      BY <1>2, <1>7, <3>2, <3>3, <3>4
  <2>2. lock' = lock
    BY <1>11 DEF TurnsBack
  <2> QED
    BY <1>5, <1>8, <2>1, <2>2
<1>12. CASE GoesUp(t)
  <2>1. Owns(t, k)' <=> Owns(t, k) /\ k # Depth(t)
    <3>1. Len(frames'[t]) = Depth(t) - 1 /\ op[t] \in Upward
      BY <1>12 DEF GoesUp, GoesBack
    <3>2. Depth(t) # 1 => op'[t] \in Upward
      BY <1>12 DEF GoesUp, GoesBack
    <3>3. Owns(t, k) <=> k <= Depth(t)
      BY <1>2, <1>7, <3>1 DEF Owns
    <3>4. Owns(t, k)' <=> k < Depth(t) - 1 \/ (k = Depth(t) - 1 /\ op'[t] \in Upward)
      BY <3>1 DEF Owns, Depth
    <3> QED
      BY <1>2, <1>7, <3>2, <3>3, <3>4
  <2>2. CASE Locked(Depth(t))
    <3>1. lock'[k] = IF k = Depth(t) THEN Nobody ELSE lock[k]
      BY <1>12, <2>2 DEF GoesUp, Release
    <3>2. k = Depth(t) => Owns(t, k)
      BY <1>12 DEF GoesUp, Owns
    <3> QED
      BY <1>5, <1>6, <1>7, <1>8, <2>1, <2>2, <3>1, <3>2
  <2>3. CASE ~Locked(Depth(t))
    <3>1. lock' = lock
      BY <1>12, <2>3 DEF GoesUp
    <3> QED
      BY <1>5, <1>8, <2>1, <2>3, <3>1
  <2> QED
    BY <2>2, <2>3
<1> QED
  BY <1>9, <1>10, <1>11, <1>12

-----------------------------------------------------------------------------
(* The vectors.                                                             *)

Data ==
  /\ DOMAIN items = Stages /\ DOMAIN took = Stages /\ DOMAIN gave = Stages
  /\ capacity \in [Stages -> Nat] /\ throws \in Nat
  /\ \A k \in Stages :
       /\ IsSeq(items[k]) /\ IsSeq(took[k]) /\ IsSeq(gave[k])
       /\ Len(items[k]) <= capacity[k]
       /\ ~Locked(k) => items[k] = <<>>
  /\ \A t \in Threads : op[t] = "throw" => throws > 0

Quiet(t) ==
  /\ UNCHANGED <<items, capacity, took, gave>>
  /\ \/ UNCHANGED lock
     \/ Release(t) /\ (op[t] \in {"throw", "undo"} \/ Is(Depth(t), "window"))

(* Only the vector of stage k changes.                                      *)
Only(k) ==
  /\ DOMAIN items' = Stages /\ DOMAIN took' = Stages /\ DOMAIN gave' = Stages
  /\ capacity' \in [Stages -> Nat] /\ throws' = throws
  /\ \A j \in Stages \ {k} :
       /\ items'[j] = items[j] /\ capacity'[j] = capacity[j]
       /\ took'[j] = took[j] /\ gave'[j] = gave[j]

LEMMA RoomFacts ==
  ASSUME NEW n \in Nat, NEW cap \in Nat
  PROVE  /\ Room(n, cap) \in Nat /\ Room(n, cap) >= n /\ Room(n, cap) >= cap
         /\ n <= cap => Room(n, cap) = cap
BY DEF Room

LEMMA SlidFacts ==
  ASSUME NEW v, IsSeq(v), NEW cap \in Nat \ {0}, Len(v) <= cap
  PROVE  /\ IsSeq(Slid(v, cap))
         /\ Len(Slid(v, cap)) = IF Len(v) = cap THEN cap - 1 ELSE Len(v)
         /\ \A i \in 1 .. Len(Slid(v, cap)) :
              Slid(v, cap)[i] = v[i + (Len(v) - Len(Slid(v, cap)))]
<1>1. Len(v) \in Nat
  BY SeqFacts
<1>2. CASE Len(v) = cap
  <2>1. Slid(v, cap) = Tail(v)
    BY <1>2 DEF Slid
  <2>2. /\ IsSeq(Tail(v)) /\ Len(Tail(v)) = cap - 1
        /\ \A i \in 1 .. cap - 1 : Tail(v)[i] = v[i + 1]
    BY <1>2, TailFacts
  <2>3. Len(v) - (cap - 1) = 1
    BY <1>2
  <2> QED
    BY <1>2, <2>1, <2>2, <2>3
<1>3. CASE Len(v) < cap
  <2>1. Slid(v, cap) = v /\ Len(v) - Len(v) = 0
    BY <1>1, <1>3 DEF Slid
  <2> QED
    BY <1>1, <1>3, <2>1
<1> QED
  BY <1>1, <1>2, <1>3

(* What a stage accepts, and the room it then has.                          *)
Accepts(k, held, e) ==
  /\ items'[k] = held /\ IsSeq(held) /\ Len(held) \in Nat
  /\ took'[k] = Append(took[k], e)
  /\ capacity'[k] = Room(Len(held), capacity[k])

LEMMA PushEffect ==
  ASSUME Data, NEW t \in Threads, NEW held, IsSeq(held), Depth(t) \in Stages, Push(t, held)
  PROVE  /\ Accepts(Depth(t), held, Item(t)) /\ throws' = throws
         /\ DOMAIN items' = Stages /\ DOMAIN took' = Stages
         /\ capacity' \in [Stages -> Nat]
         /\ \A j \in Stages \ {Depth(t)} :
              items'[j] = items[j] /\ capacity'[j] = capacity[j] /\ took'[j] = took[j]
<1>1. Len(held) \in Nat
  BY SeqFacts
<1>2. Room(Len(held), capacity[Depth(t)]) \in Nat
  BY <1>1, RoomFacts DEF Data
<1>3. /\ items' = [items EXCEPT ![Depth(t)] = held]
      /\ capacity' = [capacity EXCEPT ![Depth(t)] = Room(Len(held), capacity[Depth(t)])]
      /\ took' = [took EXCEPT ![Depth(t)] = Append(took[Depth(t)], Item(t))]
      /\ throws' = throws
  BY DEF Push
<1>4. capacity' \in [Stages -> Nat] /\ capacity'[Depth(t)] = Room(Len(held), capacity[Depth(t)])
  BY <1>2, <1>3 DEF Data
<1>5. items'[Depth(t)] = held /\ took'[Depth(t)] = Append(took[Depth(t)], Item(t))
  BY <1>3 DEF Data
<1> QED
  BY <1>1, <1>3, <1>4, <1>5 DEF Data, Accepts

BufferTakes(t, k) ==
  /\ k \in Stages /\ k = Depth(t) /\ Is(k, "buffer") /\ Only(k) /\ lock[k] = Nobody
  /\ op[t] = "push"
  /\ \E e : Accepts(k, Append(items[k], e), e)
  /\ Len(items'[k]) = Len(items[k]) + 1
  /\ gave'[k] = gave[k]
  /\ IF Len(items'[k]) >= capacity'[k]
       THEN lock'[k] = t /\ op'[t] = "push"
       ELSE lock'[k] = Nobody

WindowTakes(t, k) ==
  /\ k \in Stages /\ k = Depth(t) /\ Is(k, "window") /\ Only(k) /\ lock[k] = Nobody
  /\ op[t] = "push"
  /\ \E e : Accepts(k, Append(Slid(items[k], capacity[k]), e), e)
  /\ gave'[k] = Append(gave[k], items'[k])
  /\ lock'[k] = t /\ op'[t] = "push"

BufferGives(t, k) ==
  /\ k \in Stages /\ k = Depth(t) /\ Is(k, "buffer") /\ Only(k)
  /\ op[t] = "return"
  /\ items'[k] = <<>> /\ took'[k] = took[k] /\ capacity'[k] = capacity[k]
  /\ gave'[k] = Append(gave[k], items[k])
  /\ lock'[k] = Nobody

Clears(t, k) ==
  /\ k \in Stages /\ k = Depth(t) /\ Locked(k) /\ Only(k) /\ lock[k] = Nobody
  /\ items'[k] = <<>> /\ took'[k] = <<>> /\ gave'[k] = <<>>
  /\ capacity'[k] = capacity[k]
  /\ lock'[k] = t /\ op[t] = "reset" /\ op'[t] = "reset"

LEMMA BufferEffect ==
  ASSUME Calls, Data, NEW t \in Threads, Buffer(t)
  PROVE  BufferTakes(t, Depth(t))
<1> DEFINE k == Depth(t)
           e == Item(t)
           held == Append(items[k], e)
<1>1. k \in Stages /\ Is(k, "buffer") /\ lock[k] = Nobody /\ op[t] = "push"
  BY DEF Buffer, At, Is
<1>2. IsSeq(items[k]) /\ IsSeq(held) /\ Len(held) = Len(items[k]) + 1
  BY <1>1, AppendFacts DEF Data
<1>3. Push(t, held) /\ gave' = gave
  BY DEF Buffer
<1>4. Accepts(k, held, e) /\ Only(k)
  BY <1>1, <1>2, <1>3, PushEffect DEF Only, Data
<1>5. IF Len(held) >= Room(Len(held), capacity[k])
        THEN Acquire(t) /\ Call(t, held) ELSE UNCHANGED lock
  BY DEF Buffer
<1>6. Acquire(t) /\ Call(t, held) => lock'[k] = t /\ op'[t] = "push"
  BY <1>1 DEF Acquire, Call, Calls
<1>7. items'[k] = held /\ capacity'[k] = Room(Len(held), capacity[k])
  BY <1>4 DEF Accepts
<1> HIDE DEF k, e
<1>8. IF Len(items'[k]) >= capacity'[k] THEN lock'[k] = t /\ op'[t] = "push" ELSE lock'[k] = Nobody
  BY <1>1, <1>5, <1>6, <1>7
<1>9. \E x : Accepts(k, Append(items[k], x), x)
  BY <1>4
<1> QED
  BY <1>1, <1>2, <1>3, <1>4, <1>7, <1>8, <1>9 DEF BufferTakes, k

LEMMA WindowEffect ==
  ASSUME Calls, Data, NEW t \in Threads, Window(t), capacity[Depth(t)] # 0
  PROVE  WindowTakes(t, Depth(t))
<1> DEFINE k == Depth(t)
           e == Item(t)
           held == Append(Slid(items[k], capacity[k]), e)
<1>1. k \in Stages /\ Is(k, "window") /\ lock[k] = Nobody /\ op[t] = "push"
  BY DEF Window, At, Is, Acquire
<1>2. IsSeq(held)
  BY <1>1, SlidFacts, AppendFacts DEF Data
<1>3. Push(t, held) /\ gave' = [gave EXCEPT ![k] = Append(gave[k], held)]
  BY DEF Window
<1>4. Accepts(k, held, e) /\ Only(k)
  BY <1>1, <1>2, <1>3, PushEffect DEF Only, Data
<1>5. lock'[k] = t /\ op'[t] = "push"
  BY <1>1 DEF Window, Acquire, Call, Calls
<1>6. gave'[k] = Append(gave[k], items'[k])
  BY <1>1, <1>3, <1>4 DEF Data, Accepts
<1>7. \E x : Accepts(k, Append(Slid(items[k], capacity[k]), x), x)
  BY <1>4
<1> QED
  BY <1>1, <1>4, <1>5, <1>6, <1>7 DEF WindowTakes

LEMMA ReturnEffect ==
  ASSUME Calls, Data, NEW t \in Threads, BufferReturns(t)
  PROVE  BufferGives(t, Depth(t))
<1> DEFINE k == Depth(t)
<1>1. k \in Stages /\ Is(k, "buffer") /\ op[t] = "return"
  BY DEF BufferReturns, At, Is
<1>2. /\ items' = [items EXCEPT ![k] = <<>>] /\ gave' = [gave EXCEPT ![k] = Append(gave[k], items[k])]
      /\ took' = took /\ capacity' = capacity /\ throws' = throws
      /\ lock' = [j \in Stages |-> IF j = k THEN Nobody ELSE lock[j]]
  BY DEF BufferReturns, Cleared, Release
<1> QED
  BY <1>1, <1>2 DEF BufferGives, Only, Data

LEMMA ResetEffect ==
  ASSUME Calls, Data, NEW t \in Threads, ResetLocked(t)
  PROVE  Clears(t, Depth(t))
<1> DEFINE k == Depth(t)
<1>1. k \in Stages /\ Locked(k) /\ op[t] = "reset" /\ lock[k] = Nobody
  BY DEF ResetLocked, At, Locked, Acquire
<1>2. /\ items' = [items EXCEPT ![k] = <<>>] /\ gave' = [gave EXCEPT ![k] = <<>>]
      /\ took' = [took EXCEPT ![k] = <<>>] /\ capacity' = capacity /\ throws' = throws
      /\ lock' = [lock EXCEPT ![k] = t] /\ op' = op
  BY DEF ResetLocked, Cleared, Acquire, Call
<1> QED
  BY <1>1, <1>2 DEF Clears, Only, Data, Calls

(* What a step does to the vectors.                                         *)
LEMMA Effects ==
  ASSUME Calls, Data, NEW t \in Threads, Step(t),
         \A k \in Stages : Is(k, "window") => capacity[k] # 0
  PROVE  /\ \/ Quiet(t) \/ BufferTakes(t, Depth(t)) \/ WindowTakes(t, Depth(t))
            \/ BufferGives(t, Depth(t)) \/ Clears(t, Depth(t))
         /\ throws' \in {throws, throws + 1}
         /\ op'[t] = "throw" => throws' > 0
<1>1. Window(t) => Depth(t) \in Stages /\ Is(Depth(t), "window")
  BY DEF Window, At, Is
<1>2. \/ Quiet(t) \/ BufferTakes(t, Depth(t)) \/ WindowTakes(t, Depth(t))
      \/ BufferGives(t, Depth(t)) \/ Clears(t, Depth(t))
  <2>1. CASE (Down(t) \/ Up(t)) /\ UNCHANGED <<items, capacity, took, gave>>
    BY <2>1 DEF Down, Up, WindowReturns, PlainReturns, Unwind, Unguard, ResetReturns, At, Is, Quiet
  <2>2. CASE Act(t) \/ ActThrows(t) \/ ConcatReturns(t)
    BY <2>2 DEF Act, ActThrows, ConcatReturns, Quiet
  <2> QED
    BY <1>1, <2>1, <2>2, BufferEffect, WindowEffect, ReturnEffect, ResetEffect DEF Step
<1>3. throws' = throws \/ (ActThrows(t) /\ throws' = throws + 1)
  BY DEF Step, Act, ActThrows, ConcatReturns, Buffer, Window, BufferReturns, ResetLocked, Push
<1>4. throws' >= throws /\ throws' \in Nat
  BY <1>3 DEF Data
<1>5. op'[t] = "throw" => throws' > 0
  <2>5. CASE op[t] = "throw"
    BY <1>4, <2>5 DEF Data
  <2>6. CASE ActThrows(t)
    BY <2>6 DEF ActThrows, Data
  <2>7. CASE op[t] # "throw" /\ ~ActThrows(t)
    <3>1. op'[t] # "throw"
      <4>1. CASE GoesDown(t)
        BY <2>7, <4>1 DEF GoesDown
      <4>2. CASE GoesUp(t)
        BY <2>7, <4>2 DEF GoesUp
      <4>3. CASE TurnsBack(t)
        <5>1. op[t] \in {"push", "reset"} /\ op' # op
          BY <4>3 DEF TurnsBack, GoesBack, Upward
        <5>2. Leave(t, "return") \/ Leave(t, "undo")
          BY <2>7, <5>1 DEF Step, Down, Up, Where, Select, Concat, ResetConcat, ResetEmpty,
             WindowReturns, PlainReturns, Unwind, ResetReturns, Buffer, Window, Act,
             BufferReturns, ConcatReturns, ResetLocked, Call, At
        <5> QED
          BY <5>2 DEF Leave, Calls
      <4> QED
        BY <4>1, <4>2, <4>3, Moves
    <3> QED
      BY <3>1
  <2> QED
    BY <2>5, <2>6, <2>7
<1> QED
  BY <1>2, <1>3, <1>5, Zenon DEF Data

-----------------------------------------------------------------------------
(* The inductive invariant.                                                 *)

Full(k) == IF Chain[k].size = 0 THEN 1 ELSE Chain[k].size

(* A buffer that passes on its batch, or unwinds from it, still holds it,   *)
(* and it is full.  While nothing was thrown, `size` is the capacity, which *)
(* a buffer(0) only gets with its first item.                               *)
Passing(k) == \E t \in Threads : lock[k] = t /\ op[t] \in {"push", "return", "throw"}

Batch(k) ==
  /\ capacity[k] >= Chain[k].size
  /\ Passing(k) => Len(items[k]) = capacity[k] /\ capacity[k] >= Full(k)
  /\ throws = 0 =>
       /\ capacity[k] = Full(k) \/ (capacity[k] = 0 /\ Chain[k].size = 0)
       /\ ~Passing(k) => Len(items[k]) < Full(k)
  /\ \A i \in 1 .. Len(gave[k]) :
       Len(gave[k][i]) >= Full(k) /\ (throws = 0 => Len(gave[k][i]) = Full(k))

(* What the buffer passed on, and what it holds.                            *)
Kept(k) ==
  IsSeq(FlattenSeq(gave[k])) /\ FlattenSeq(gave[k]) \o items[k] = took[k]

(* A window never grows: it holds the last items, and passed on one window  *)
(* for each.                                                                *)
From(k, i) == IF i <= Chain[k].size THEN 1 ELSE i - Chain[k].size + 1

Slides(k) ==
  /\ capacity[k] = Chain[k].size
  /\ Len(gave[k]) = Len(took[k])
  /\ items[k] = SubSeq(took[k], From(k, Len(took[k])), Len(took[k]))
  /\ \A i \in 1 .. Len(gave[k]) : gave[k][i] = SubSeq(took[k], From(k, i), i)

(* A reset has emptied the stages it passed on its way down; on its way up, *)
(* all those it reached.  A mutex that it still holds above such a stage    *)
(* keeps the others out.                                                    *)
Emptied(t, k) == (\E j \in 1 .. k : lock[j] = t) => items[k] = <<>>

Reset(t) ==
  /\ op[t] = "reset" =>
       /\ \A j \in 1 .. Depth(t) - 1 : ~Stops(j)
       /\ \A k \in 1 .. Depth(t) - 1 : Emptied(t, k)
  /\ op[t] = "undo" =>
       /\ \A j \in 1 .. Depth(t) : ~Stops(j)
       /\ \A k \in Stages : (\A j \in 1 .. k : ~Stops(j)) => Emptied(t, k)

IInv ==
  /\ Calls /\ LockInv /\ Data
  /\ \A k \in Stages : /\ Is(k, "buffer") => Batch(k) /\ Kept(k)
                       /\ Is(k, "window") => Slides(k)
  /\ \A t \in Threads : Reset(t)
  /\ pushes \in 0 .. MaxPushes /\ resets \in 0 .. MaxResets /\ throws \in 0 .. MaxThrows

-----------------------------------------------------------------------------
(* A step of another thread, or in another stage.                           *)

LEMMA Effects2 ==
  ASSUME IInv, NEW t \in Threads, Step(t)
  PROVE  /\ \/ Quiet(t) \/ BufferTakes(t, Depth(t)) \/ WindowTakes(t, Depth(t))
            \/ BufferGives(t, Depth(t)) \/ Clears(t, Depth(t))
         /\ throws' \in {throws, throws + 1}
         /\ op'[t] = "throw" => throws' > 0
<1>1. \A k \in Stages : Is(k, "window") => capacity[k] # 0
  BY ChainAssumption, ChainFacts DEF IInv, Slides, Is
<1> QED
  BY <1>1, Effects DEF IInv

(* The mutexes of the other stages stay as they are, and no step gives one  *)
(* to another thread.                                                       *)
LEMMA LockStays ==
  ASSUME IInv, NEW t \in Threads, GoesDown(t) \/ TurnsBack(t) \/ GoesUp(t), NEW k \in Stages
  PROVE  /\ k # Depth(t) => lock'[k] = lock[k]
         /\ lock'[k] \in {lock[k], t, Nobody}
<1>1. CASE UNCHANGED lock
  BY <1>1
<1>2. CASE Acquire(t)
  BY <1>2 DEF Acquire, IInv, Calls
<1>3. CASE Release(t)
  BY <1>3 DEF Release, IInv, Calls
<1> QED
  BY <1>1, <1>2, <1>3 DEF GoesDown, TurnsBack, GoesUp

(* A stage passes its batch on as long as its mutex is held.                *)
LEMMA PassingStays ==
  ASSUME IInv, NEW t \in Threads,
         Begins(t) \/ GoesDown(t) \/ TurnsBack(t) \/ GoesUp(t),
         NEW k \in Stages, lock'[k] = lock[k]
  PROVE  Passing(k)' <=> Passing(k)
<1> DEFINE Pushes(o) == o \in {"push", "return", "throw"}
<1>1. OthersStay(t)
  BY DEF Begins, GoesDown, TurnsBack, GoesUp, GoesBack
<1>2. Calls' /\ LockInv'
  BY CallsKept, LocksKept DEF IInv
<1>3. k \in Nat /\ k > 0
  BY ChainFacts
<1>4. lock[k] = t => op[t] # "idle" /\ op'[t] # "idle"
  <2>1. ASSUME lock[k] = t PROVE Owns(t, k) /\ Owns(t, k)'
    BY <1>2, <2>1 DEF IInv, LockInv, Locked, Stages
  <2>2. ASSUME lock[k] = t PROVE Depth(t) # 0 /\ Len(frames'[t]) # 0
    BY <1>3, <2>1, <2>2 DEF Owns, Depth
  <2> QED
    BY <1>2, <2>2 DEF IInv, Calls, Depth
<1>5. lock[k] = t => (Pushes(op'[t]) <=> Pushes(op[t]))
  BY <1>4 DEF Begins, GoesDown, TurnsBack, GoesUp, GoesBack, Upward
<1>6. ASSUME NEW u \in Threads
      PROVE  lock[k] = u => (Pushes(op'[u]) <=> Pushes(op[u]))
  BY <1>1, <1>5 DEF OthersStay
<1> QED
  BY <1>6 DEF Passing

(* Nothing changes in a stage.                                              *)
Same(k) ==
  /\ items'[k] = items[k] /\ capacity'[k] = capacity[k]
  /\ took'[k] = took[k] /\ gave'[k] = gave[k]

LEMMA StageCases ==
  ASSUME IInv, NEW t \in Threads, Step(t), NEW k \in Stages
  PROVE  \/ Same(k) /\ lock'[k] = lock[k]
         \/ Same(k) /\ k = Depth(t) /\ Quiet(t) /\ Release(t)
         \/ k = Depth(t) /\ BufferTakes(t, k)
         \/ k = Depth(t) /\ WindowTakes(t, k)
         \/ k = Depth(t) /\ BufferGives(t, k)
         \/ k = Depth(t) /\ Clears(t, k)
<1>1. GoesDown(t) \/ TurnsBack(t) \/ GoesUp(t)
  BY Moves DEF IInv
<1>2. CASE Quiet(t)
  BY <1>1, <1>2, LockStays DEF Quiet, Same
<1>3. CASE ~Quiet(t) /\ k # Depth(t)
  <2>1. Only(Depth(t))
    BY <1>3, Effects2 DEF BufferTakes, WindowTakes, BufferGives, Clears
  <2> QED
    BY <1>1, <1>3, <2>1, LockStays DEF Only, Same
<1>4. CASE ~Quiet(t) /\ k = Depth(t)
  BY <1>4, Effects2
<1> QED
  BY <1>2, <1>3, <1>4

LEMMA DataKept ==
  ASSUME IInv, NEW t \in Threads, Step(t)
  PROVE  Data'
<1>1. \A u \in Threads : op'[u] = "throw" => throws' > 0
  <2>1. GoesDown(t) \/ TurnsBack(t) \/ GoesUp(t)
    BY Moves DEF IInv
  <2>2. OthersStay(t)
    BY <2>1 DEF GoesDown, TurnsBack, GoesUp, GoesBack
  <2>3. throws' >= throws /\ throws' \in Nat
    BY Effects2 DEF IInv, Data
  <2>4. \A u \in Threads \ {t} : op'[u] = "throw" => throws' > 0
    BY <2>2, <2>3 DEF IInv, Data, OthersStay
  <2> QED
    BY <2>4, Effects2
<1>2. /\ DOMAIN items' = Stages /\ DOMAIN took' = Stages /\ DOMAIN gave' = Stages
      /\ capacity' \in [Stages -> Nat] /\ throws' \in Nat
  BY Effects2 DEF Quiet, BufferTakes, WindowTakes, BufferGives, Clears, Only, IInv, Data
<1>3. ASSUME NEW k \in Stages
      PROVE  /\ IsSeq(items'[k]) /\ IsSeq(took'[k]) /\ IsSeq(gave'[k])
             /\ Len(items'[k]) <= capacity'[k]
             /\ ~Locked(k) => items'[k] = <<>>
  <2>1. /\ IsSeq(items[k]) /\ IsSeq(took[k]) /\ IsSeq(gave[k])
        /\ Len(items[k]) <= capacity[k] /\ capacity[k] \in Nat
        /\ ~Locked(k) => items[k] = <<>>
    BY DEF IInv, Data
  <2>2. CASE Same(k)
    BY <2>1, <2>2 DEF Same
  <2>3. CASE BufferTakes(t, k) \/ WindowTakes(t, k)
    <3>1. PICK held, e : Accepts(k, held, e)
      BY <2>3 DEF BufferTakes, WindowTakes
    <3>2. Len(held) <= Room(Len(held), capacity[k])
      BY <2>1, <3>1, RoomFacts DEF Accepts
    <3>3. IsSeq(took'[k]) /\ IsSeq(items'[k])
      BY <2>1, <3>1, AppendFacts DEF Accepts
    <3>4. IsSeq(gave'[k])
      <4>1. gave'[k] = gave[k] \/ gave'[k] = Append(gave[k], held)
        BY <2>3, <3>1 DEF BufferTakes, WindowTakes, Accepts
      <4>2. IsSeq(Append(gave[k], held))
        BY <2>1, AppendFacts
      <4> QED
        BY <2>1, <4>1, <4>2
    <3>5. Locked(k)
      BY <2>3 DEF BufferTakes, WindowTakes, Locked, Is
    <3> QED
      BY <3>1, <3>2, <3>3, <3>4, <3>5 DEF Accepts
  <2>4. CASE BufferGives(t, k)
    BY <2>1, <2>4, AppendFacts, EmptyIsSeq DEF BufferGives
  <2>5. CASE Clears(t, k)
    BY <2>1, <2>5, EmptyIsSeq DEF Clears
  <2> QED
    BY <2>2, <2>3, <2>4, <2>5, StageCases
<1> QED
  BY <1>1, <1>2, <1>3 DEF Data, Locked, Stages

LEMMA BatchKept ==
  ASSUME IInv, NEW t \in Threads, Step(t), NEW k \in Stages, Is(k, "buffer")
  PROVE  Batch(k)'
<1> DEFINE n == Len(items[k])
           size == Chain[k].size
<1>1. /\ n \in Nat /\ capacity[k] \in Nat /\ n <= capacity[k] /\ IsSeq(items[k])
      /\ IsSeq(gave[k]) /\ Len(gave[k]) \in Nat /\ throws \in Nat /\ size \in Nat
  BY SeqFacts, ChainFacts DEF IInv, Data
<1>2. Batch(k)
  BY DEF IInv
<1>3. throws' \in Nat /\ (throws' = 0 => throws = 0)
  BY <1>1, Effects2
<1>4. Full(k) \in Nat /\ Full(k) >= 1 /\ Full(k) >= size /\ (size > 0 => Full(k) = size)
  BY <1>1 DEF Full
<1>5. Calls /\ LockInv /\ t # Nobody /\ Nobody \notin Threads
      /\ (GoesDown(t) \/ TurnsBack(t) \/ GoesUp(t))
  BY Moves, ThreadAssumption DEF IInv
<1>6. lock'[k] = Nobody => ~Passing(k)'
  BY <1>5 DEF Passing
<1>7. CASE Same(k) /\ lock'[k] = lock[k]
  <2>1. Passing(k)' <=> Passing(k)
    BY <1>5, <1>7, PassingStays
  <2> QED
    BY <1>2, <1>3, <1>7, <2>1 DEF Same, Batch, Full
<1>8. CASE Same(k) /\ k = Depth(t) /\ Quiet(t) /\ Release(t) /\ lock'[k] # lock[k]
  <2>1. lock'[k] = Nobody /\ ~Passing(k)'
    BY <1>6, <1>8 DEF Release
  <2>2. throws' = 0 => op[t] = "undo"
    <3>1. op[t] = "throw" => throws > 0
      BY DEF IInv, Data
    <3>2. ~Is(k, "window")
      BY DEF Is
    <3>3. op[t] \in {"throw", "undo"}
      BY <1>8, <3>2 DEF Quiet
    <3> QED
      BY <1>1, <1>3, <3>1, <3>3
  <2>3. op[t] = "undo" => ~Passing(k)
    <3>1. op[t] = "undo" => lock[k] = t
      BY <1>5, <1>8 DEF LockInv, Locked, Owns, Upward, Is
    <3> QED
      BY <3>1 DEF Passing
  <2> QED
    BY <1>2, <1>3, <1>8, <2>1, <2>2, <2>3 DEF Same, Batch, Full
<1>9. CASE BufferTakes(t, k)
  <2>1. ~Passing(k)
    BY <1>5, <1>9 DEF Passing, BufferTakes
  <2>2. /\ Len(items'[k]) = n + 1 /\ capacity'[k] = Room(n + 1, capacity[k])
        /\ gave'[k] = gave[k]
    BY <1>9 DEF BufferTakes, Accepts
  <2>3. /\ capacity'[k] \in Nat /\ capacity'[k] >= n + 1 /\ capacity'[k] >= capacity[k]
        /\ n + 1 <= capacity[k] => capacity'[k] = capacity[k]
    <3>1. n + 1 \in Nat /\ capacity[k] \in Nat
      BY <1>1
    <3>2. /\ Room(n + 1, capacity[k]) \in Nat /\ Room(n + 1, capacity[k]) >= n + 1
          /\ Room(n + 1, capacity[k]) >= capacity[k]
          /\ n + 1 <= capacity[k] => Room(n + 1, capacity[k]) = capacity[k]
      BY <3>1, RoomFacts
    <3> QED
      BY <2>2, <3>2
  <2>4. Passing(k)' <=> Len(items'[k]) >= capacity'[k]
    <3>1. IF Len(items'[k]) >= capacity'[k]
            THEN lock'[k] = t /\ op'[t] = "push" ELSE lock'[k] = Nobody
      BY <1>9 DEF BufferTakes
    <3> QED
      BY <1>6, <3>1 DEF Passing
  <2>5. capacity'[k] >= size /\ capacity'[k] >= Full(k)
    BY <1>1, <1>2, <1>4, <2>3 DEF Batch, Full
  <2>6. throws' = 0 => capacity'[k] = Full(k)
    <3>1. CASE throws' = 0 /\ capacity[k] = Full(k)
      BY <1>1, <1>2, <1>3, <1>4, <2>1, <2>3, <3>1 DEF Batch
    <3>2. CASE throws' = 0 /\ capacity[k] = 0 /\ size = 0
      <4>1. n = 0 /\ Full(k) = 1
        BY <1>1, <3>2 DEF Full
      <4>2. Room(1, 0) = 1
        BY DEF Room
      <4> QED
        BY <2>2, <3>2, <4>1, <4>2
    <3> QED
      BY <1>2, <1>3, <3>1, <3>2 DEF Batch
  <2>7. \A i \in 1 .. Len(gave'[k]) :
          Len(gave'[k][i]) >= Full(k) /\ (throws' = 0 => Len(gave'[k][i]) = Full(k))
    BY <1>2, <1>3, <2>2 DEF Batch
  <2>8. Passing(k)' => Len(items'[k]) = capacity'[k]
    BY <1>1, <2>2, <2>3, <2>4
  <2>9. throws' = 0 /\ ~Passing(k)' => Len(items'[k]) < Full(k)
    BY <1>1, <2>2, <2>3, <2>4, <2>6
  <2> QED
    BY <2>5, <2>6, <2>7, <2>8, <2>9 DEF Batch, Full
<1>10. CASE WindowTakes(t, k)
  BY <1>10 DEF WindowTakes, Is
<1>11. CASE BufferGives(t, k)
  <2>1. Passing(k)
    <3>1. lock[k] = t
      BY <1>5, <1>11 DEF LockInv, Locked, Owns, Upward, Is, BufferGives
    <3> QED
      BY <1>11, <3>1 DEF Passing, BufferGives
  <2>2. n >= Full(k) /\ (throws = 0 => n = Full(k)) /\ capacity[k] >= Full(k)
    BY <1>1, <1>2, <1>4, <2>1 DEF Batch
  <2>3. /\ items'[k] = <<>> /\ capacity'[k] = capacity[k] /\ gave'[k] = Append(gave[k], items[k])
        /\ Len(items'[k]) = 0 /\ ~Passing(k)'
    BY <1>6, <1>11, EmptyIsSeq DEF BufferGives
  <2>4. /\ Len(gave'[k]) = Len(gave[k]) + 1 /\ gave'[k][Len(gave[k]) + 1] = items[k]
        /\ \A i \in 1 .. Len(gave[k]) : gave'[k][i] = gave[k][i]
    BY <1>1, <2>3, AppendFacts
  <2>5. ASSUME NEW i \in 1 .. Len(gave'[k])
        PROVE  Len(gave'[k][i]) >= Full(k) /\ (throws' = 0 => Len(gave'[k][i]) = Full(k))
    <3>1. CASE i \in 1 .. Len(gave[k])
      BY <1>2, <1>3, <2>4, <3>1 DEF Batch
    <3>2. CASE i = Len(gave[k]) + 1
      BY <1>3, <2>2, <2>4, <3>2
    <3> QED
      BY <1>1, <2>4, <3>1, <3>2
  <2>6. 0 < Full(k)
    BY <1>4
  <2>7. throws' = 0 => capacity'[k] = Full(k) \/ (capacity'[k] = 0 /\ size = 0)
    BY <1>2, <1>3, <2>3 DEF Batch
  <2>8. capacity'[k] >= size
    BY <1>2, <2>3 DEF Batch
  <2> QED
    BY <2>3, <2>5, <2>6, <2>7, <2>8 DEF Batch, Full
<1>12. CASE Clears(t, k)
  <2>1. lock'[k] = t /\ op'[t] = "reset" /\ ~Passing(k)'
    BY <1>12 DEF Clears, Passing
  <2>2. capacity'[k] = capacity[k] /\ Len(items'[k]) = 0 /\ Len(gave'[k]) = 0
    BY <1>12, EmptyIsSeq DEF Clears
  <2>3. 0 < Full(k)
    BY <1>4
  <2> QED
    BY <1>2, <1>3, <2>1, <2>2, <2>3 DEF Batch, Full
<1> QED
  BY <1>7, <1>8, <1>9, <1>10, <1>11, <1>12, StageCases

LEMMA KeptKept ==
  ASSUME IInv, NEW t \in Threads, Step(t), NEW k \in Stages, Is(k, "buffer")
  PROVE  Kept(k)'
<1>1. IsSeq(items[k]) /\ IsSeq(took[k]) /\ IsSeq(gave[k])
  BY DEF IInv, Data
<1>2. Kept(k)
  BY DEF IInv
<1>3. CASE Same(k)
  BY <1>2, <1>3 DEF Same, Kept
<1>4. CASE BufferTakes(t, k)
  <2>1. PICK e : /\ items'[k] = Append(items[k], e) /\ took'[k] = Append(took[k], e)
                 /\ gave'[k] = gave[k]
    BY <1>4 DEF BufferTakes, Accepts
  <2>2. FlattenSeq(gave[k]) \o Append(items[k], e) = Append(FlattenSeq(gave[k]) \o items[k], e)
    <3> DEFINE f == FlattenSeq(gave[k])
    <3>1. IsSeq(f)
      BY <1>2 DEF Kept
    <3> HIDE DEF f
    <3>2. f \o Append(items[k], e) = Append(f \o items[k], e)
      BY <1>1, <3>1, ConcatAppend
    <3> QED
      BY <3>2 DEF f
  <2> QED
    BY <1>2, <2>1, <2>2 DEF Kept
<1>5. CASE BufferGives(t, k)
  <2>1. /\ items'[k] = <<>> /\ took'[k] = took[k] /\ gave'[k] = Append(gave[k], items[k])
    BY <1>5 DEF BufferGives
  <2>2. FlattenSeq(Append(gave[k], items[k])) = FlattenSeq(gave[k]) \o items[k]
    BY <1>1, FlattenAppend
  <2>3. FlattenSeq(gave'[k]) = took[k]
    BY <1>2, <2>1, <2>2 DEF Kept
  <2> QED
    BY <1>1, <2>1, <2>3, ConcatEmpty DEF Kept
<1>6. CASE WindowTakes(t, k)
  BY <1>6 DEF WindowTakes, Is
<1>7. CASE Clears(t, k)
  <2>1. items'[k] = <<>> /\ took'[k] = <<>> /\ gave'[k] = <<>>
    BY <1>7 DEF Clears
  <2>2. FlattenSeq(<<>>) = <<>> /\ IsSeq(<<>>) /\ <<>> \o <<>> = <<>>
    BY FlattenEmpty, EmptyIsSeq, ConcatEmpty
  <2> QED
    BY <2>1, <2>2 DEF Kept
<1> QED
  BY <1>3, <1>4, <1>5, <1>6, <1>7, StageCases

(* A longer history has the same windows.                                   *)
LEMMA EarlierWindow ==
  ASSUME NEW s, NEW e, IsSeq(s), NEW m \in 1 .. Len(s) + 1, NEW n \in m - 1 .. Len(s)
  PROVE  SubSeq(Append(s, e), m, n) = SubSeq(s, m, n)
<1> DEFINE more == Append(s, e)
<1>1. /\ Len(s) \in Nat /\ IsSeq(more) /\ Len(more) = Len(s) + 1
      /\ \A i \in 1 .. Len(s) : more[i] = s[i]
  BY SeqFacts, AppendFacts
<1>2. m \in 1 .. Len(more) + 1 /\ n \in m - 1 .. Len(more)
  BY <1>1
<1> HIDE DEF more
<1>3. /\ IsSeq(SubSeq(more, m, n)) /\ Len(SubSeq(more, m, n)) = n - m + 1
      /\ \A i \in 1 .. n - m + 1 : SubSeq(more, m, n)[i] = more[m + i - 1]
  BY <1>1, <1>2, SubSeqFacts
<1>4. /\ IsSeq(SubSeq(s, m, n)) /\ Len(SubSeq(s, m, n)) = n - m + 1
      /\ \A i \in 1 .. n - m + 1 : SubSeq(s, m, n)[i] = s[m + i - 1]
  BY SubSeqFacts
<1>5. \A i \in 1 .. n - m + 1 : m + i - 1 \in 1 .. Len(s)
  BY <1>1
<1> QED
  BY <1>1, <1>3, <1>4, <1>5, EqualSeqs DEF more

(* The window of one item more.                                             *)
LEMMA NextWindow ==
  ASSUME NEW k \in Stages, Chain[k].size > 0, NEW s, NEW e, IsSeq(s)
  PROVE  LET v == SubSeq(s, From(k, Len(s)), Len(s))
         IN  /\ IsSeq(v) /\ Len(v) <= Chain[k].size
             /\ Append(Slid(v, Chain[k].size), e)
                  = SubSeq(Append(s, e), From(k, Len(s) + 1), Len(s) + 1)
             /\ Len(Append(Slid(v, Chain[k].size), e)) <= Chain[k].size
<1> DEFINE L == Len(s)
           size == Chain[k].size
           a == From(k, L)
           b == From(k, L + 1)
           v == SubSeq(s, a, L)
           u == Slid(v, size)
           more == Append(s, e)
           n == Len(v)
           m == Len(u)
<1>1. L \in Nat /\ size \in Nat \ {0}
  BY SeqFacts, ChainFacts
<1>2. /\ a = IF L <= size THEN 1 ELSE L - size + 1
      /\ b = IF L + 1 <= size THEN 1 ELSE (L + 1) - size + 1
  BY DEF From
<1>3. a \in 1 .. L + 1 /\ L \in a - 1 .. L
  BY <1>1, <1>2
<1> HIDE DEF a, b
<1>4. /\ IsSeq(v) /\ n = L - a + 1
      /\ \A i \in 1 .. L - a + 1 : v[i] = s[a + i - 1]
  BY <1>3, SubSeqFacts
<1> HIDE DEF v
<1>5. n \in Nat /\ n <= size
  BY <1>1, <1>2, <1>4
<1>6. /\ IsSeq(u) /\ m = IF n = size THEN size - 1 ELSE n
      /\ \A i \in 1 .. m : u[i] = v[i + (n - m)]
  BY <1>1, <1>4, <1>5, SlidFacts
<1> HIDE DEF u
<1>7. /\ IsSeq(Append(u, e)) /\ Len(Append(u, e)) = m + 1
      /\ \A i \in 1 .. m : Append(u, e)[i] = u[i]
      /\ Append(u, e)[m + 1] = e
  BY <1>6, AppendFacts
<1>8. /\ IsSeq(more) /\ Len(more) = L + 1 /\ more[L + 1] = e
      /\ \A i \in 1 .. L : more[i] = s[i]
  BY AppendFacts
<1> HIDE DEF more
<1> HIDE DEF L, size, n, m
<1>9. m \in Nat /\ m + 1 <= size /\ b = a + (n - m) /\ (L + 1) - b + 1 = m + 1
  BY <1>1, <1>2, <1>4, <1>5, <1>6
<1>10. a \in Nat /\ a > 0 /\ b \in 1 .. L + 2 /\ L + 1 \in b - 1 .. L + 1
  BY <1>1, <1>2
<1>11. /\ IsSeq(SubSeq(more, b, L + 1)) /\ Len(SubSeq(more, b, L + 1)) = m + 1
       /\ \A i \in 1 .. m + 1 : SubSeq(more, b, L + 1)[i] = more[b + i - 1]
  <2>1. b \in 1 .. Len(more) + 1 /\ L + 1 \in b - 1 .. Len(more)
    BY <1>1, <1>8, <1>10
  <2>2. /\ IsSeq(SubSeq(more, b, L + 1)) /\ Len(SubSeq(more, b, L + 1)) = (L + 1) - b + 1
        /\ \A i \in 1 .. (L + 1) - b + 1 : SubSeq(more, b, L + 1)[i] = more[b + i - 1]
    BY <1>8, <2>1, SubSeqFacts
  <2> QED
    BY <1>9, <2>2
<1>12. ASSUME NEW i \in 1 .. m + 1
       PROVE  Append(u, e)[i] = SubSeq(more, b, L + 1)[i]
  <2>1. CASE i = m + 1
    <3>1. b + i - 1 = L + 1
      BY <1>1, <1>9, <1>10, <2>1
    <3> QED
      BY <1>7, <1>8, <1>11, <2>1, <3>1
  <2>2. CASE i \in 1 .. m
    <3>1. i + (n - m) \in 1 .. L - a + 1 /\ a + (i + (n - m)) - 1 = b + i - 1 /\ b + i - 1 \in 1 .. L
      <4>1. /\ i \in Int /\ 1 <= i /\ i <= m /\ n - m >= 0 /\ n = L - a + 1
            /\ n \in Int /\ m \in Int /\ L \in Int /\ a \in Int /\ a > 0 /\ b \in Int /\ b > 0
        BY <1>1, <1>4, <1>5, <1>6, <1>9, <1>10, <2>2
      <4>2. b = a + (n - m) /\ b + m - 1 = L
        BY <1>9, <4>1
      <4> QED
        BY <4>1, <4>2
    <3>2. Append(u, e)[i] = s[a + (i + (n - m)) - 1]
      BY <1>4, <1>6, <1>7, <2>2, <3>1
    <3> QED
      BY <1>8, <1>11, <3>1, <3>2
  <2>3. i = m + 1 \/ i \in 1 .. m
    BY <1>9
  <2> QED
    BY <2>1, <2>2, <2>3
<1>13. Append(u, e) = SubSeq(more, b, L + 1)
  BY <1>7, <1>11, <1>12, EqualSeqs
<1> QED
  BY <1>4, <1>5, <1>7, <1>9, <1>13 DEF L, size, a, b, v, u, more, n, m

LEMMA SlidesKept ==
  ASSUME IInv, NEW t \in Threads, Step(t), NEW k \in Stages, Is(k, "window")
  PROVE  Slides(k)'
<1> DEFINE L == Len(took[k])
           size == Chain[k].size
<1>1. /\ IsSeq(took[k]) /\ IsSeq(gave[k]) /\ L \in Nat
      /\ size \in Nat /\ size > 0
  BY SeqFacts, ChainFacts, ChainAssumption DEF IInv, Data, Is
<1>2. Slides(k)
  BY DEF IInv
<1>3. CASE Same(k)
  BY <1>2, <1>3 DEF Same, Slides, From
<1>4. CASE BufferTakes(t, k) \/ BufferGives(t, k)
  BY <1>4 DEF BufferTakes, BufferGives, Is
<1>5. CASE WindowTakes(t, k)
  <2> DEFINE v == SubSeq(took[k], From(k, L), L)
  <2>1. PICK e : /\ items'[k] = Append(Slid(items[k], capacity[k]), e)
                 /\ took'[k] = Append(took[k], e)
                 /\ capacity'[k] = Room(Len(items'[k]), capacity[k])
                 /\ Len(items'[k]) \in Nat
    BY <1>5 DEF WindowTakes, Accepts
  <2>2. items[k] = v /\ capacity[k] = size
    BY <1>2 DEF Slides
  <2>3. /\ items'[k] = SubSeq(took'[k], From(k, L + 1), L + 1)
        /\ Len(items'[k]) <= size
    <3>1. /\ Append(Slid(v, size), e) = SubSeq(Append(took[k], e), From(k, L + 1), L + 1)
          /\ Len(Append(Slid(v, size), e)) <= size
      BY <1>1, NextWindow, Zenon
    <3> QED
      BY <2>1, <2>2, <3>1, Zenon
  <2>4. Len(took'[k]) = L + 1
    BY <1>1, <2>1, AppendFacts
  <2>5. capacity'[k] = size
    BY <1>1, <2>1, <2>2, <2>3, RoomFacts
  <2>6. /\ Len(gave'[k]) = L + 1 /\ gave'[k][L + 1] = items'[k]
        /\ \A i \in 1 .. L : gave'[k][i] = gave[k][i]
    BY <1>1, <1>2, <1>5, AppendFacts DEF WindowTakes, Slides
  <2>7. ASSUME NEW i \in 1 .. L + 1
        PROVE  gave'[k][i] = SubSeq(took'[k], From(k, i), i)
    <3>1. CASE i = L + 1
      BY <2>3, <2>6, <3>1
    <3>2. CASE i \in 1 .. L
      <4>1. From(k, i) \in 1 .. L + 1 /\ i \in From(k, i) - 1 .. L
        BY <1>1, <3>2 DEF From
      <4>2. SubSeq(took'[k], From(k, i), i) = SubSeq(took[k], From(k, i), i)
        BY <1>1, <2>1, <4>1, EarlierWindow
      <4> QED
        BY <1>2, <2>6, <3>2, <4>2 DEF Slides
    <3> QED
      BY <1>1, <3>1, <3>2
  <2> QED
    BY <2>3, <2>4, <2>5, <2>6, <2>7 DEF Slides, From
<1>6. CASE Clears(t, k)
  <2>1. /\ items'[k] = <<>> /\ took'[k] = <<>> /\ gave'[k] = <<>>
        /\ capacity'[k] = capacity[k]
    BY <1>6 DEF Clears
  <2>2. From(k, 0) = 1 /\ SubSeq(<<>>, 1, 0) = <<>>
    BY <1>1, SubSeqEmpty DEF From
  <2> QED
    BY <1>2, <2>1, <2>2, EmptyIsSeq DEF Slides, From
<1> QED
  BY <1>3, <1>4, <1>5, <1>6, StageCases

(* A stage that a reset of thread u emptied stays empty: the others have to *)
(* wait above it.                                                           *)
LEMMA EmptiedStays ==
  ASSUME IInv, NEW t \in Threads, Step(t), NEW u \in Threads, u # t,
         NEW k \in Stages, Emptied(u, k)
  PROVE  Emptied(u, k)'
<1>1. GoesDown(t) \/ TurnsBack(t) \/ GoesUp(t)
  BY Moves DEF IInv
<1>2. SUFFICES ASSUME NEW j \in 1 .. k, lock'[j] = u
               PROVE  items'[k] = <<>>
  BY DEF Emptied
<1>3. j \in Stages /\ j \in Nat /\ k \in Nat /\ j <= k
  BY ChainFacts
<1>4. lock[j] = u
  BY <1>1, <1>2, <1>3, LockStays, ThreadAssumption
<1>5. items[k] = <<>>
  BY <1>4 DEF Emptied
<1>6. CASE k = Depth(t) /\ lock[k] = Nobody
  <2>1. j < Depth(t)
    BY <1>3, <1>4, <1>6, ThreadAssumption
  <2>2. lock[j] = t
    BY <1>3, <1>4, <2>1 DEF IInv, LockInv, Owns
  <2> QED
    BY <1>4, <2>2
<1> QED
  BY <1>5, <1>6, StageCases DEF Same, BufferTakes, WindowTakes, BufferGives, Clears

LEMMA ResetOfOther ==
  ASSUME IInv, NEW t \in Threads, Step(t), NEW u \in Threads, u # t
  PROVE  Reset(u)'
<1>1. op'[u] = op[u] /\ frames'[u] = frames[u]
  <2>1. GoesDown(t) \/ TurnsBack(t) \/ GoesUp(t)
    BY Moves DEF IInv
  <2> QED
    BY <2>1 DEF GoesDown, TurnsBack, GoesUp, GoesBack, OthersStay
<1>2. Depth(u) \in Nat /\ Depth(u) <= Len(Chain) + 1
  BY SeqFacts DEF IInv, Calls, Depth
<1>3. Reset(u) /\ \A k \in Stages : Emptied(u, k) => Emptied(u, k)'
  BY EmptiedStays DEF IInv
<1>4. 1 .. Depth(u) - 1 \subseteq Stages
  BY <1>2, ChainFacts
<1>5. ASSUME op[u] = "reset"
      PROVE  /\ \A j \in 1 .. Depth(u) - 1 : ~Stops(j)
             /\ \A k \in 1 .. Depth(u) - 1 : Emptied(u, k)'
  BY <1>3, <1>4, <1>5 DEF Reset
<1>6. ASSUME op[u] = "undo"
      PROVE  /\ \A j \in 1 .. Depth(u) : ~Stops(j)
             /\ \A k \in Stages : (\A j \in 1 .. k : ~Stops(j)) => Emptied(u, k)'
  BY <1>3, <1>6 DEF Reset
<1> QED
  BY <1>1, <1>5, <1>6 DEF Reset, Depth, Emptied, Stops, Is, Stages

LEMMA ResetKept ==
  ASSUME IInv, NEW t \in Threads, Step(t)
  PROVE  Reset(t)'
<1> DEFINE d == Depth(t)
<1>1. d \in Nat /\ d <= Len(Chain) + 1 /\ Stages = 1 .. Len(Chain) /\ Len(Chain) \in Nat
  BY SeqFacts, ChainFacts DEF IInv, Calls, Depth
<1>2. Reset(t) /\ t # Nobody
  BY ThreadAssumption DEF IInv
<1> HIDE DEF d
<1>3. CASE GoesDown(t)
  <2>1. CASE op[t] = "push"
    BY <1>3, <2>1 DEF GoesDown, Reset
  <2>2. CASE op[t] = "reset"
    <3>1. op'[t] = "reset" /\ Len(frames'[t]) = d + 1 /\ d \in Stages /\ ~Stops(d)
      BY <1>3, <2>2 DEF GoesDown, d
    <3>2. Quiet(t) \/ Clears(t, d)
      BY <2>2, <3>1, Effects2 DEF BufferTakes, WindowTakes, BufferGives, d
    <3>3. items'[d] = <<>>
      <4>1. CASE Clears(t, d)
        BY <4>1 DEF Clears
      <4>2. CASE Quiet(t)
        <5>1. ~Locked(d)
          <6> SUFFICES ASSUME Locked(d) PROVE FALSE
            OBVIOUS
          <6>1. lock[d] = Nobody /\ lock'[d] = t
            BY <1>3 DEF GoesDown, Acquire, IInv, Calls, d
          <6>2. lock'[d] = lock[d] \/ lock'[d] = Nobody
            BY <3>1, <4>2 DEF Quiet, Release, d
          <6> QED
            BY <1>2, <6>1, <6>2
        <5> QED
          BY <3>1, <4>2, <5>1 DEF IInv, Data, Quiet
      <4> QED
        BY <3>2, <4>1, <4>2
    <3>4. \A j \in 1 .. d - 1 : j \in Stages /\ items'[j] = items[j] /\ lock'[j] = lock[j]
      <4>1. \A j \in 1 .. d - 1 : j \in Stages /\ j # d
        BY <1>1
      <4>2. \A j \in Stages \ {d} : items'[j] = items[j]
        BY <3>2 DEF Quiet, Clears, Only
      <4>3. \A j \in Stages \ {d} : lock'[j] = lock[j]
        BY <1>3, LockStays DEF d
      <4> QED
        BY <4>1, <4>2, <4>3
    <3>5. /\ \A j \in 1 .. d - 1 : ~Stops(j)
          /\ \A k \in 1 .. d - 1 : Emptied(t, k)
      BY <1>2, <2>2 DEF Reset, d
    <3>6. \A k \in 1 .. d : k \in 1 .. d - 1 \/ k = d
      BY <1>1
    <3>7. ASSUME NEW k \in 1 .. d
          PROVE  ~Stops(k) /\ Emptied(t, k)'
      <4>1. CASE k = d
        BY <3>1, <3>3, <4>1 DEF Emptied
      <4>2. CASE k \in 1 .. d - 1
        <5>1. \A j \in 1 .. k : j \in 1 .. d - 1
          BY <1>1, <4>2
        <5> QED
          BY <3>4, <3>5, <4>2, <5>1 DEF Emptied
      <4> QED
        BY <3>6, <4>1, <4>2
    <3>8. 1 .. Len(frames'[t]) - 1 = 1 .. d
      BY <1>1, <3>1
    <3> QED
      BY <3>1, <3>7, <3>8 DEF Reset, Depth, Stops, Is, Emptied
  <2> QED
    BY <1>3, <2>1, <2>2 DEF GoesDown
<1>4. CASE TurnsBack(t) \/ GoesUp(t)
  <2>1. SUFFICES ASSUME op'[t] = "undo" PROVE Reset(t)'
    <3>1. op'[t] # "reset"
      BY <1>4 DEF TurnsBack, GoesUp, GoesBack, Upward
    <3> QED
      BY <3>1 DEF Reset
  <2>2. Len(frames'[t]) = d - 1 /\ d > 0
    BY <1>4 DEF TurnsBack, GoesUp, GoesBack, d
  <2>3. op[t] \in {"reset", "undo"}
    BY <1>4, <2>1 DEF TurnsBack, GoesUp
  <2>4. UNCHANGED items
    BY <2>1, <2>3, Effects2 DEF Quiet, BufferTakes, WindowTakes, BufferGives, Clears
  <2>5. ASSUME NEW j \in Stages, lock'[j] = t
        PROVE  lock[j] = t
    <3>1. CASE UNCHANGED lock
      BY <2>5, <3>1
    <3>2. CASE Release(t)
      BY <1>2, <2>5, <3>2 DEF Release
    <3> QED
      BY <1>4, <3>1, <3>2 DEF TurnsBack, GoesUp
  <2>6. \A j \in 1 .. d - 1 : ~Stops(j)
    <3>1. 1 .. d - 1 \subseteq 1 .. d
      BY <1>1
    <3> QED
      BY <1>2, <2>3, <3>1 DEF Reset, d
  <2>7. ASSUME NEW k \in Stages, \A j \in 1 .. k : ~Stops(j)
        PROVE  Emptied(t, k)
    <3>1. CASE op[t] = "undo"
      BY <1>2, <2>7, <3>1 DEF Reset
    <3>2. CASE op[t] = "reset"
      <4>1. d \in Stages => Stops(d)
        BY <1>4, <3>2 DEF TurnsBack, GoesUp, Upward, d
      <4>2. k \in 1 .. d - 1
        BY <1>1, <2>2, <2>7, <4>1
      <4> QED
        BY <1>2, <3>2, <4>2 DEF Reset, d
    <3> QED
      BY <2>3, <3>1, <3>2
  <2>8. ASSUME NEW k \in Stages, \A j \in 1 .. k : ~Stops(j)
        PROVE  Emptied(t, k)'
    <3>1. 1 .. k \subseteq Stages
      BY <1>1
    <3> QED
      BY <2>4, <2>5, <2>7, <2>8, <3>1 DEF Emptied
  <2> QED
    BY <2>1, <2>2, <2>6, <2>8 DEF Reset, Depth, Stops, Is, Stages, Emptied
<1> QED
  BY <1>3, <1>4, Moves DEF IInv

-----------------------------------------------------------------------------
(* The invariant holds.                                                     *)

LEMMA InitHolds == Init => IInv
<1> SUFFICES ASSUME Init PROVE IInv
  OBVIOUS
<1>1. /\ \A k \in Stages : Chain[k].kind \in Kinds /\ Chain[k].size \in Nat
      /\ Len(Chain) \in Nat /\ Stages = 1 .. Len(Chain)
  BY ChainFacts
<1>2. \A t \in Threads : frames[t] = <<>> /\ op[t] = "idle" /\ Depth(t) = 0
  BY EmptyIsSeq DEF Init, Depth
<1>3. Calls
  BY <1>1, <1>2, EmptyIsSeq DEF Calls, Init, Ops, Upward, Depth
<1>4. LockInv
  <2>1. \A t \in Threads, k \in Stages : ~Owns(t, k)
    BY <1>1, <1>2 DEF Owns, Upward
  <2> QED
    BY <2>1, ThreadAssumption DEF LockInv, Init
<1>5. \A k \in Stages : /\ items[k] = <<>> /\ took[k] = <<>> /\ gave[k] = <<>>
                        /\ capacity[k] = IF Locked(k) THEN Chain[k].size ELSE 0
  BY DEF Init, Empty
<1>6. Data
  BY <1>1, <1>2, <1>5, EmptyIsSeq DEF Data, Init, Empty
<1>7. ASSUME NEW k \in Stages, Is(k, "buffer")
      PROVE  Batch(k) /\ Kept(k)
  <2>1. ~Passing(k)
    BY ThreadAssumption DEF Passing, Init
  <2>2. capacity[k] = Chain[k].size
    BY <1>5, <1>7 DEF Locked, Is
  <2>3. Batch(k)
    BY <1>1, <1>5, <2>1, <2>2, EmptyIsSeq DEF Batch, Full
  <2>4. Kept(k)
    BY <1>5, FlattenEmpty, EmptyIsSeq, ConcatEmpty DEF Kept
  <2> QED
    BY <2>3, <2>4
<1>8. ASSUME NEW k \in Stages, Is(k, "window")
      PROVE  Slides(k)
  <2>1. capacity[k] = Chain[k].size /\ From(k, 0) = 1 /\ SubSeq(<<>>, 1, 0) = <<>>
    BY <1>1, <1>5, <1>8, SubSeqEmpty DEF Locked, Is, From
  <2> QED
    <3>1. Len(took[k]) = 0 /\ Len(gave[k]) = 0 /\ items[k] = <<>> /\ took[k] = <<>>
      BY <1>5, EmptyIsSeq
    <3>2. items[k] = SubSeq(took[k], From(k, Len(took[k])), Len(took[k]))
      BY <2>1, <3>1, Zenon
    <3> QED
      BY <2>1, <3>1, <3>2 DEF Slides
<1>9. \A t \in Threads : Reset(t)
  BY <1>2 DEF Reset
<1>10. pushes \in 0 .. MaxPushes /\ resets \in 0 .. MaxResets /\ throws \in 0 .. MaxThrows
  BY BoundAssumption DEF Init
<1> QED
  BY <1>3, <1>4, <1>6, <1>7, <1>8, <1>9, <1>10 DEF IInv

LEMMA CountersKept ==
  ASSUME IInv, Next
  PROVE  /\ pushes' \in 0 .. MaxPushes /\ resets' \in 0 .. MaxResets
         /\ throws' \in 0 .. MaxThrows
BY BoundAssumption DEF IInv, Next, Done, vars, CallPush, CallReset, Step, Buffer, Window, Act,
   ActThrows, BufferReturns, ConcatReturns, ResetLocked, Push

(* The beginning of a call changes nothing but the frames of its thread.    *)
LEMMA BeginningKeeps ==
  ASSUME IInv, NEW t \in Threads, CallPush(t) \/ CallReset(t), Next
  PROVE  IInv'
<1>1. Begins(t) /\ UNCHANGED <<items, capacity, took, gave, throws>>
  BY Beginnings DEF IInv
<1>2. Calls' /\ LockInv'
  BY <1>1, CallsKept, LocksKept DEF IInv
<1>3. UNCHANGED lock /\ \A u \in Threads \ {t} : op'[u] = op[u] /\ frames'[u] = frames[u]
  BY <1>1 DEF Begins, OthersStay
<1>4. Data'
  BY <1>1, <1>3 DEF IInv, Data, Begins, Locked, Stages
<1>5. ASSUME NEW k \in Stages
      PROVE  /\ Is(k, "buffer") => Batch(k)' /\ Kept(k)'
             /\ Is(k, "window") => Slides(k)'
  <2>1. Passing(k)' <=> Passing(k)
    BY <1>1, <1>3, PassingStays
  <2>2. /\ items' = items /\ capacity' = capacity /\ took' = took
        /\ gave' = gave /\ throws' = throws
    BY <1>1
  <2>3. Batch(k) => Batch(k)'
    BY <2>1, <2>2 DEF Batch, Full
  <2>4. (Kept(k) => Kept(k)') /\ (Slides(k) => Slides(k)')
    BY <2>2 DEF Kept, Slides, From
  <2> QED
    BY <2>3, <2>4 DEF IInv
<1>6. ASSUME NEW u \in Threads
      PROVE  Reset(u)'
  <2>1. CASE u = t
    <3>1. op'[t] # "undo" /\ 1 .. Len(frames'[t]) - 1 = {}
      BY <1>1 DEF Begins
    <3> QED
      BY <2>1, <3>1 DEF Reset, Depth
  <2>2. CASE u # t
    BY <1>1, <1>3, <2>2 DEF IInv, Reset, Depth, Stops, Is, Emptied, Stages
  <2> QED
    BY <2>1, <2>2
<1> QED
  BY <1>2, <1>4, <1>5, <1>6, CountersKept DEF IInv, Is, Stages

LEMMA StepKeeps ==
  ASSUME IInv, NEW t \in Threads, Step(t), Next
  PROVE  IInv'
<1>1. Calls' /\ LockInv'
  BY Moves, CallsKept, LocksKept DEF IInv
<1>2. \A k \in Stages : /\ Is(k, "buffer") => Batch(k)' /\ Kept(k)'
                        /\ Is(k, "window") => Slides(k)'
  BY BatchKept, KeptKept, SlidesKept
<1>3. \A u \in Threads : Reset(u)'
  BY ResetKept, ResetOfOther
<1> QED
  BY <1>1, <1>2, <1>3, DataKept, CountersKept DEF IInv, Is, Stages

LEMMA Inductive == IInv /\ [Next]_vars => IInv'
<1> SUFFICES ASSUME IInv, [Next]_vars PROVE IInv'
  OBVIOUS
<1>1. CASE UNCHANGED vars
  <2>1. Calls' /\ LockInv'
    BY <1>1 DEF vars, IInv, Calls, LockInv, Owns, Locked, Stages, Depth
  <2>2. Data'
    BY <1>1 DEF vars, IInv, Data, Locked, Stages
  <2>3. ASSUME NEW k \in Stages
        PROVE  /\ Batch(k) => Batch(k)'
               /\ Kept(k) => Kept(k)'
               /\ Slides(k) => Slides(k)'
    <3>1. Passing(k)' <=> Passing(k)
      BY <1>1 DEF vars, Passing
    <3> QED
      BY <1>1, <3>1 DEF vars, Batch, Full, Kept, Slides, From
  <2>4. \A t \in Threads : Reset(t)'
    BY <1>1 DEF vars, IInv, Reset, Depth, Stops, Is, Emptied, Stages
  <2> QED
    BY <1>1, <2>1, <2>2, <2>3, <2>4 DEF vars, IInv, Is, Stages
<1>2. CASE Next /\ ~Done
  BY <1>2, BeginningKeeps, StepKeeps DEF Next
<1> QED
  BY <1>1, <1>2 DEF Next, Done

LEMMA Invariance == Spec => []IInv
BY InitHolds, Inductive, PTL DEF Spec

-----------------------------------------------------------------------------
(* Results.                                                                 *)

(* The model keeps to its types: a frame per stage the call is in, and no   *)
(* more items than a vector has room for.                                   *)
THEOREM TypeCorrect == Spec => []TypeOK
<1>1. IInv => TypeOK
  BY SeqFacts DEF IInv, Calls, Data, TypeOK, Ops, Depth
<1> QED
  BY <1>1, Invariance, PTL

(* A buffer keeps its items: what it passed on and what it holds are what   *)
(* it took since it was last reset, whatever throws below it.               *)
THEOREM NothingIsLost == Spec => []BufferKeepsAll
<1>1. IInv => BufferKeepsAll
  BY DEF IInv, Kept, BufferKeepsAll
<1> QED
  BY <1>1, Invariance, PTL

(* A batch has the size of its buffer until the Action throws, and is never *)
(* smaller: a push_back of a full vector waits at the mutex until the batch *)
(* has been passed on.                                                      *)
THEOREM BatchesAreFull == Spec => []BatchSizes
<1>1. IInv => BatchSizes
  <2> SUFFICES ASSUME IInv, NEW k \in Stages, Is(k, "buffer"), NEW i \in DOMAIN gave[k]
               PROVE  /\ Len(gave[k][i]) >= Full(k)
                      /\ throws = 0 => Len(gave[k][i]) = Full(k)
    BY DEF BatchSizes, Full
  <2>1. i \in 1 .. Len(gave[k])
    BY SeqFacts DEF IInv, Data
  <2> QED
    BY <2>1 DEF IInv, Batch
<1> QED
  BY <1>1, Invariance, PTL

(* Each window is the items up to its own, as many as it has room for.      *)
THEOREM WindowsAreTheLast == Spec => []WindowSlides
<1>1. IInv => WindowSlides
  <2> SUFFICES ASSUME IInv, NEW k \in Stages, Is(k, "window"), NEW i \in DOMAIN gave[k]
               PROVE  gave[k][i] = SubSeq(took[k], From(k, i), i)
    BY DEF WindowSlides, From
  <2>1. i \in 1 .. Len(gave[k])
    BY SeqFacts DEF IInv, Data
  <2> QED
    BY <2>1 DEF IInv, Slides
<1> QED
  BY <1>1, Invariance, PTL

(* A reset leaves nothing behind below a mutex, whoever pushes meanwhile.   *)
THEOREM ResetLeavesNothing == Spec => []ResetClears
<1>1. IInv => ResetClears
  <2> SUFFICES ASSUME IInv, NEW t \in Threads, op[t] = "undo",
                      NEW j \in 1 .. Depth(t), Locked(j),
                      NEW k \in Depth(t) .. Len(Chain),
                      \A i \in Depth(t) .. k : ~Is(i, "where") /\ ~Is(i, "select")
               PROVE  items[k] = <<>>
    BY DEF ResetClears
  <2>1. /\ Depth(t) \in Nat /\ Depth(t) <= Len(Chain)
        /\ Stages = 1 .. Len(Chain) /\ Len(Chain) \in Nat
    BY SeqFacts, ChainFacts DEF IInv, Calls, Depth, Upward
  <2>2. j \in Stages /\ k \in Stages /\ j \in 1 .. k
    BY <2>1
  <2>3. lock[j] = t
    BY <2>1, <2>2 DEF IInv, LockInv, Owns, Upward
  <2>4. \A i \in 1 .. k : ~Stops(i)
    <3>1. \A i \in 1 .. k : i \in 1 .. Depth(t) \/ i \in Depth(t) .. k
      BY <2>1
    <3> QED
      BY <3>1 DEF IInv, Reset, Stops
  <2> QED
    BY <2>2, <2>3, <2>4 DEF IInv, Reset, Emptied
<1> QED
  BY <1>1, Invariance, PTL

(* t is about to take the mutex of its stage, and u has it. *)
WaitsFor(t, u) ==
  op[t] \in {"push", "reset"} /\ Depth(t) \in Stages /\ lock[Depth(t)] = u

WaitsGoDown ==
  \A t, u \in Threads : WaitsFor(t, u) => Depth(t) < Depth(u) \/ op[u] \in Upward

(* A thread that waits for a mutex waits for one that is further down or on *)
(* its way up already, which does not wait: however often threads push and  *)
(* reset, the waiting has no circle (stream4.cc:112-182).                   *)
THEOREM NoCircleOfWaits == Spec => []WaitsGoDown
<1>1. IInv => WaitsGoDown
  BY DEF IInv, LockInv, Owns, WaitsGoDown, WaitsFor
<1> QED
  BY <1>1, Invariance, PTL

=============================================================================
