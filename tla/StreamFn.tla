------------------------------ MODULE StreamFn ------------------------------
(***************************************************************************)
(* The combinators of stream.cc.  Each returns a closure that calls the    *)
(* action a it was given, and keeps its own state, a count or a vector,    *)
(* inside the closure: copying the std::function copies the state, while   *)
(* both copies go on calling the same a.  The action may throw.            *)
(***************************************************************************)
EXTENDS Integers, Sequences, SequencesExt

CONSTANTS
  Holders,     \* the variables that can hold the closure
  actions,     \* the vector that all() is given, as holders in its order
  Kinds,       \* the combinators made in this instance
  Sizes,       \* the int each is given
  Passes(_),   \* the predicate of filter
  Mapped(_),   \* the function of map
  MaxCalls,    \* bound: calls of a holder, or of all()
  MaxCopies    \* bound: copies from one holder to another

ASSUME KindsAssumption ==
  Kinds \subseteq {"never", "always", "buffer", "filter", "map", "skip", "take"}

ASSUME SizesAssumption == Sizes \subseteq Int /\ MaxCalls \in Nat /\ MaxCopies \in Nat

ASSUME VectorAssumption == actions \in Seq(Holders)

VARIABLES
  kind, size,  \* the combinator that was called, and its int
  closure,     \* the state of the closure in each holder
  seen,        \* history: the items each holder's closure was called with,
               \* those before it was copied included
  tried,       \* history: its calls of a, with those that threw
  given,       \* history: the items all() was called with
  viaAll,      \* history: the calls all() made, by place in the vector
  calls, copies

vars == <<kind, size, closure, seen, tried, given, viaAll, calls, copies>>

(* The ints that the combinator k can be given, 0 if it takes none. *)
SizesOf(k) == IF k \in {"buffer", "skip", "take"} THEN Sizes ELSE {0}

TypeOK ==
  /\ kind \in Kinds /\ size \in SizesOf(kind)
  /\ closure \in [Holders -> [i : Nat, buf : Seq(Nat)]]
  /\ calls \in 0 .. MaxCalls /\ given \subseteq 1 .. calls /\ copies \in 0 .. MaxCopies

(* A combinator is called and its result copied to every holder.  first() is *)
(* take() of 1; take(0) makes the same closure as any other take.           *)
Init ==
  /\ kind \in Kinds /\ size \in SizesOf(kind)
  /\ closure = [h \in Holders |->
       [i |-> IF kind \in {"skip", "take"} /\ size > 0 THEN size ELSE 0, buf |-> <<>>]]
  /\ seen = [h \in Holders |-> <<>>]
  /\ tried = [h \in Holders |-> <<>>]
  /\ given = {} /\ viaAll = [k \in DOMAIN actions |-> {}]
  /\ calls = 0 /\ copies = 0

-----------------------------------------------------------------------------
(* The closures, called with an item. *)

(* Mutant: a buffer that is one past full. *)
Full_Late(buf) == Len(buf) > size

Full(buf) == Len(buf) >= size

(* Whether a is called, and with what.  A buffer of no size is an always()  *)
(* with an empty vector.                                                    *)
Calls(c, item) ==
  \/ kind \in {"always", "map"}
  \/ kind = "filter" /\ Passes(item)
  \/ kind = "buffer" /\ (size <= 0 \/ Full(Append(c.buf, item)))
  \/ kind = "skip" /\ c.i = 0
  \/ kind = "take" /\ c.i > 0

Argument(c, item) ==
  CASE kind = "buffer" -> IF size <= 0 THEN <<>> ELSE Append(c.buf, item)
    [] kind = "map"    -> Mapped(item)
    [] kind = "always" -> 0
    [] OTHER           -> item

(* The count goes down before a is called; a buffer is cleared only after a *)
(* has returned.                                                            *)
After(c, item, threw) ==
  CASE kind \in {"skip", "take"} -> [c EXCEPT !.i = IF @ > 0 THEN @ - 1 ELSE @]
    [] kind = "buffer" /\ size > 0 ->
         [c EXCEPT !.buf = IF Calls(c, item) /\ ~threw THEN <<>> ELSE Append(@, item)]
    [] OTHER -> c

Made(c, item, threw) ==
  IF Calls(c, item) THEN <<[arg |-> Argument(c, item), ok |-> ~threw]>> ELSE <<>>

(* A closure with its past, and what a call makes of it. *)
Now(h) == [seen |-> seen[h], tried |-> tried[h], state |-> closure[h]]

Called(p, item, threw) ==
  [seen  |-> Append(p.seen, item),
   tried |-> p.tried \o Made(p.state, item, threw),
   state |-> After(p.state, item, threw)]

-----------------------------------------------------------------------------
Call(h, threw) ==
  LET item == calls + 1
  IN  /\ calls < MaxCalls /\ calls' = item
      /\ threw => Calls(closure[h], item)
      /\ closure' = [closure EXCEPT ![h] = After(@, item, threw)]
      /\ seen' = [seen EXCEPT ![h] = Append(@, item)]
      /\ tried' = [tried EXCEPT ![h] = @ \o Made(closure[h], item, threw)]
      /\ UNCHANGED <<kind, size, given, viaAll, copies>>

(* Assigning one std::function to another copies the closure. *)
Copy(from, to) ==
  /\ from # to
  /\ copies < MaxCopies /\ copies' = copies + 1
  /\ closure' = [closure EXCEPT ![to] = closure[from]]
  /\ seen' = [seen EXCEPT ![to] = seen[from]]
  /\ tried' = [tried EXCEPT ![to] = tried[from]]
  /\ UNCHANGED <<kind, size, given, viaAll, calls>>

(* Mutant: the loop of all() takes the actions by reference. *)
AfterAll_ByReference(c, item) == After(c, item, FALSE)

(* The loop of all() copies each action, calls the copy and throws it away. *)
AfterAll(c, item) == c

(* Mutant: the loop goes on after an action threw. *)
Reached_GoesOn(last) == DOMAIN actions

(* The places whose action the loop calls. *)
Reached(last) == 1 .. last

(* all() calls the actions in the order of the vector; one that throws is   *)
(* the last.                                                                *)
CallAll(last, threw) ==
  LET item == calls + 1
      Visit(k) == [past  |-> Called(Now(actions[k]), item, threw /\ k = last),
                   threw |-> threw /\ k = last]
  IN  /\ calls < MaxCalls /\ calls' = item
      /\ IF threw THEN last > 0 /\ Calls(closure[actions[last]], item) ELSE last = Len(actions)
      /\ closure' = [h \in Holders |-> AfterAll(closure[h], item)]
      /\ given' = given \cup {item}
      /\ viaAll' = [k \in DOMAIN actions |->
                      IF k \in Reached(last) THEN viaAll[k] \cup {Visit(k)} ELSE viaAll[k]]
      /\ UNCHANGED <<kind, size, seen, tried, copies>>

Done == calls = MaxCalls /\ UNCHANGED vars

Next ==
  \/ \E h \in Holders, threw \in BOOLEAN : Call(h, threw)
  \/ \E from, to \in Holders : Copy(from, to)
  \/ \E last \in 0 .. Len(actions), threw \in BOOLEAN : CallAll(last, threw)
  \/ Done

Spec == Init /\ [][Next]_vars

-----------------------------------------------------------------------------
(* Properties. *)

Arguments(made) == [n \in DOMAIN made |-> made[n].arg]
Delivered(made) == [n \in DOMAIN made |-> IF made[n].ok THEN made[n].arg ELSE <<>>]
Chosen(items) ==
  FlattenSeq([n \in DOMAIN items |-> IF Passes(items[n]) THEN <<items[n]>> ELSE <<>>])
Images(items) == [n \in DOMAIN items |-> Mapped(items[n])]
Count(n) == IF n > 0 THEN n ELSE 0

(* A buffer delivers every item once, in order, in batches of its size, one *)
(* larger after each attempt that threw.                                    *)
InBatches(p) ==
  /\ FlattenSeq(Delivered(p.tried)) \o p.state.buf = p.seen
  /\ \A n \in DOMAIN p.tried :
       Len(p.tried[n].arg) =
         IF n = 1 \/ p.tried[n - 1].ok THEN size ELSE Len(p.tried[n - 1].arg) + 1

(* What a closure has done to the items of its past. *)
Forwards(p) ==
  CASE kind = "never"  -> p.tried = <<>>
    [] kind = "always" -> Len(p.tried) = Len(p.seen)
    [] kind = "filter" -> Arguments(p.tried) = Chosen(p.seen)
    [] kind = "map"    -> Arguments(p.tried) = Images(p.seen)
    [] kind = "skip"   -> Arguments(p.tried) = SubSeq(p.seen, Count(size) + 1, Len(p.seen))
    [] kind = "take"   -> Arguments(p.tried) =
                            SubSeq(p.seen, 1, IF Count(size) < Len(p.seen) THEN Count(size)
                                              ELSE Len(p.seen))
    [] kind = "buffer" -> IF size <= 0
                          THEN Arguments(p.tried) = [n \in DOMAIN p.seen |-> <<>>]
                          ELSE InBatches(p)

(* Each closure does to the items it saw what its name says, in spite of    *)
(* copies that share its past and calls that threw: skip() passes on all    *)
(* after the first ones, take() only these, and buffer() every item in      *)
(* batches (stream.cc:10-70).                                               *)
ForwardsAsNamed == \A h \in Holders : Forwards(Now(h))

ItemOf(visit) == Last(visit.past.seen)

(* However many calls of all() came before, finished or left by a throw,    *)
(* each treats its item as the next one after those the action was called   *)
(* with directly: nothing that all() counted or gathered is left.  And of   *)
(* the items given to all() an action misses those, and only those, for     *)
(* which an action before it in the vector threw (stream.cc:72-77).         *)
AllForgets ==
  \A k \in DOMAIN actions :
    /\ \A visit \in viaAll[k] : Forwards(visit.past)
    /\ {ItemOf(visit) : visit \in viaAll[k]} =
         {item \in given : \A j \in 1 .. k - 1 :
            \A visit \in viaAll[j] : ItemOf(visit) = item => ~visit.threw}

=============================================================================
