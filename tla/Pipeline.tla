------------------------------ MODULE Pipeline ------------------------------
(***************************************************************************)
(* The synchronous stages of stream4.cc: Where, Select, Buffer, Window and *)
(* Concat composed by >> into a chain that ends in an Action.  Threads     *)
(* push items into the first stage and reset it.  A call runs down the     *)
(* chain, one frame per stage, and returns up again; Buffer and Window     *)
(* keep their mutex while what is below them runs.  The Action at the end  *)
(* may throw, and the exception unwinds the frames.                        *)
(***************************************************************************)
EXTENDS Naturals, Sequences, SequencesExt

CONSTANTS
  Threads, Nobody,
  Chain,         \* the stages before the Action: records of kind and size
  Passes(_),     \* the predicate of where
  Mapped(_),     \* the mapper of select
  MaxPushes,     \* bound: calls of operator()
  MaxResets,     \* bound: calls of reset()
  MaxThrows      \* bound: exceptions of the Action

Kinds == {"where", "select", "buffer", "window", "concat"}
Stages == DOMAIN Chain
Locked(k) == Chain[k].kind \in {"buffer", "window"}

ASSUME ThreadAssumption == Nobody \notin Threads

ASSUME BoundAssumption == MaxPushes \in Nat /\ MaxResets \in Nat /\ MaxThrows \in Nat

(* Window(0) would erase from an empty vector. *)
ASSUME ChainAssumption ==
  /\ Chain \in Seq([kind : Kinds, size : Nat])
  /\ \A k \in Stages : Chain[k].kind = "window" => Chain[k].size > 0

VARIABLES
  items,     \* items_ of each stage
  capacity,  \* items_.capacity()
  lock,      \* lock_: the thread that holds it
  op,        \* what each thread does
  frames,    \* the argument of each frame of its call, stage 1 first
  out,       \* what the Action received
  other,     \* what the other action of a Concat received
  took,      \* history: what each stage accepted since its last reset
  gave,      \* history: what it passed on since its last reset, a buffer
             \* counting a batch when the call below it returns
  pushes, resets, throws

history == <<took, gave>>
counters == <<pushes, resets, throws>>
vars == <<items, capacity, lock, op, frames, out, other, history, counters>>

TypeOK ==
  /\ DOMAIN items = Stages /\ DOMAIN took = Stages /\ DOMAIN gave = Stages
  /\ capacity \in [Stages -> Nat]
  /\ \A k \in Stages : Len(items[k]) <= capacity[k]
  /\ lock \in [Stages -> Threads \cup {Nobody}]
  /\ op \in [Threads -> {"idle", "push", "return", "throw", "reset", "undo"}]
  /\ \A t \in Threads : /\ Len(frames[t]) <= Len(Chain) + 1
                        /\ op[t] = "idle" <=> frames[t] = <<>>
  /\ pushes \in 0 .. MaxPushes /\ resets \in 0 .. MaxResets /\ throws \in 0 .. MaxThrows

Empty == [k \in Stages |-> <<>>]

(* The constructors: nothing held, room for `size` items reserved. *)
Init ==
  /\ items = Empty
  /\ capacity = [k \in Stages |-> IF Locked(k) THEN Chain[k].size ELSE 0]
  /\ lock = [k \in Stages |-> Nobody]
  /\ op = [t \in Threads |-> "idle"]
  /\ frames = [t \in Threads |-> <<>>]
  /\ out = <<>> /\ other = <<>>
  /\ took = Empty /\ gave = Empty
  /\ pushes = 0 /\ resets = 0 /\ throws = 0

-----------------------------------------------------------------------------
(* Frames. *)

Depth(t) == Len(frames[t])
Item(t) == Last(frames[t])
At(t, what, kind) ==
  op[t] = what /\ Depth(t) \in Stages /\ Chain[Depth(t)].kind = kind
AtAction(t, what) == op[t] = what /\ Depth(t) = Len(Chain) + 1

(* The stage of thread t calls the next one with this argument. *)
Call(t, item) ==
  /\ frames' = [frames EXCEPT ![t] = Append(@, item)]
  /\ UNCHANGED op

(* The frame of thread t is left: by a return, a throw, the end of a reset. *)
Leave(t, how) ==
  /\ frames' = [frames EXCEPT ![t] = Front(@)]
  /\ op' = [op EXCEPT ![t] = IF Depth(t) = 1 THEN "idle" ELSE how]

(* Mutant: no mutex. *)
Acquire_Nothing(t) == UNCHANGED lock

(* The guard of the stage of thread t, and its end if there is one. *)
Acquire(t) == lock[Depth(t)] = Nobody /\ lock' = [lock EXCEPT ![Depth(t)] = t]
Release(t) == lock' = [k \in Stages |-> IF k = Depth(t) THEN Nobody ELSE lock[k]]

(* Mutants: items_ is not cleared; the erase comes one item late; an        *)
(* exception goes past lock() and unlock().                                 *)
Cleared_Nothing(v) == v
Slid_Late(v, cap) == IF Len(v) > cap THEN Tail(v) ELSE v
Unguard_Nothing(t) == UNCHANGED lock

(* items_.clear() *)
Cleared(v) == <<>>

(* A full window erases its oldest item. *)
Slid(v, cap) == IF Len(v) >= cap THEN Tail(v) ELSE v

(* An exception ends the guards on its way: the items stay. *)
Unguard(t) == Release(t)

(* vector::push_back, whose reallocation makes room for half as much again. *)
Room(n, cap) == IF n <= cap THEN cap ELSE IF cap + cap \div 2 >= n THEN cap + cap \div 2 ELSE n

(* push_back of the item of thread t into the vector of its stage. *)
Push(t, held) ==
  LET k == Depth(t)
  IN  /\ items' = [items EXCEPT ![k] = held]
      /\ capacity' = [capacity EXCEPT ![k] = Room(Len(held), @)]
      /\ took' = [took EXCEPT ![k] = Append(@, Item(t))]
      /\ UNCHANGED <<out, other, counters>>

-----------------------------------------------------------------------------
(* A push goes down: operator() of each stage up to its call of action_.    *)

CallPush(t) ==
  /\ op[t] = "idle" /\ pushes < MaxPushes
  /\ pushes' = pushes + 1
  /\ op' = [op EXCEPT ![t] = "push"]
  /\ frames' = [frames EXCEPT ![t] = <<pushes + 1>>]
  /\ UNCHANGED <<items, capacity, lock, out, other, history, resets, throws>>

Where(t) ==
  At(t, "push", "where") /\ IF Passes(Item(t)) THEN Call(t, Item(t)) ELSE Leave(t, "return")

Select(t) == At(t, "push", "select") /\ Call(t, Mapped(Item(t)))

(* Concat calls action_ first. *)
Concat(t) == At(t, "push", "concat") /\ Call(t, Item(t))

(* A buffer that is full after the item passes on the vector and keeps the  *)
(* mutex; otherwise the guard releases it.                                  *)
Buffer(t) ==
  LET held == Append(items[Depth(t)], Item(t))
      full == Len(held) >= Room(Len(held), capacity[Depth(t)])
  IN  /\ At(t, "push", "buffer")
      /\ lock[Depth(t)] = Nobody
      /\ Push(t, held)
      /\ IF full THEN Acquire(t) /\ Call(t, held) ELSE Leave(t, "return") /\ UNCHANGED lock
      /\ UNCHANGED gave

(* A window passes on the vector with every item. *)
Window(t) ==
  LET k == Depth(t)
      held == Append(Slid(items[k], capacity[k]), Item(t))
  IN  /\ At(t, "push", "window")
      /\ Acquire(t)
      /\ Push(t, held)
      /\ Call(t, held) /\ gave' = [gave EXCEPT ![k] = Append(@, held)]

Act(t) ==
  /\ AtAction(t, "push") /\ Leave(t, "return")
  /\ out' = Append(out, Item(t))
  /\ UNCHANGED <<items, capacity, lock, other, history, counters>>

ActThrows(t) ==
  /\ AtAction(t, "push") /\ Leave(t, "throw")
  /\ throws < MaxThrows /\ throws' = throws + 1
  /\ UNCHANGED <<items, capacity, lock, out, other, history, pushes, resets>>

-----------------------------------------------------------------------------
(* A call returns, or an exception unwinds it. *)

BufferReturns(t) ==
  LET k == Depth(t)
  IN  /\ At(t, "return", "buffer")
      /\ items' = [items EXCEPT ![k] = Cleared(@)]
      /\ gave' = [gave EXCEPT ![k] = Append(@, items[k])]
      /\ Release(t) /\ Leave(t, "return")
      /\ UNCHANGED <<capacity, out, other, took, counters>>

(* Concat then calls other_, here an Action. *)
ConcatReturns(t) ==
  /\ At(t, "return", "concat") /\ Leave(t, "return")
  /\ other' = Append(other, Item(t))
  /\ UNCHANGED <<items, capacity, lock, out, history, counters>>

WindowReturns(t) == At(t, "return", "window") /\ Release(t) /\ Leave(t, "return")

PlainReturns(t) ==
  (At(t, "return", "where") \/ At(t, "return", "select")) /\ Leave(t, "return") /\ UNCHANGED lock

Unwind(t) ==
  /\ op[t] = "throw" /\ Leave(t, "throw")
  /\ IF Locked(Depth(t)) THEN Unguard(t) ELSE UNCHANGED lock

-----------------------------------------------------------------------------
(* reset(): Buffer and Window clear their items and reset what is below     *)
(* them with the mutex held, Concat resets both its actions, and Where,     *)
(* Select and Action do nothing.                                            *)

CallReset(t) ==
  /\ op[t] = "idle" /\ resets < MaxResets
  /\ resets' = resets + 1
  /\ op' = [op EXCEPT ![t] = "reset"]
  /\ frames' = [frames EXCEPT ![t] = <<0>>]
  /\ UNCHANGED <<items, capacity, lock, out, other, history, pushes, throws>>

ResetLocked(t) ==
  LET k == Depth(t)
  IN  /\ At(t, "reset", "buffer") \/ At(t, "reset", "window")
      /\ Acquire(t) /\ Call(t, 0)
      /\ items' = [items EXCEPT ![k] = Cleared(@)]
      /\ took' = [took EXCEPT ![k] = <<>>] /\ gave' = [gave EXCEPT ![k] = <<>>]
      /\ UNCHANGED <<capacity, out, other, counters>>

ResetConcat(t) == At(t, "reset", "concat") /\ Call(t, 0)

ResetEmpty(t) ==
  (At(t, "reset", "where") \/ At(t, "reset", "select") \/ AtAction(t, "reset")) /\ Leave(t, "undo")

ResetReturns(t) ==
  /\ op[t] = "undo" /\ Leave(t, "undo")
  /\ IF Locked(Depth(t)) THEN Release(t) ELSE UNCHANGED lock

-----------------------------------------------------------------------------
(* The stages without state only pass on; on the way back nothing but the   *)
(* mutex changes.                                                           *)
Down(t) == (Where(t) \/ Select(t) \/ Concat(t) \/ ResetConcat(t) \/ ResetEmpty(t)) /\ UNCHANGED lock
Up(t) == WindowReturns(t) \/ PlainReturns(t) \/ Unwind(t) \/ ResetReturns(t)

Step(t) ==
  \/ (Down(t) \/ Up(t)) /\ UNCHANGED <<items, capacity, out, other, history, counters>>
  \/ Buffer(t) \/ Window(t) \/ Act(t) \/ ActThrows(t)
  \/ BufferReturns(t) \/ ConcatReturns(t) \/ ResetLocked(t)

Done ==
  /\ \A t \in Threads : op[t] = "idle"
  /\ pushes = MaxPushes /\ resets = MaxResets
  /\ UNCHANGED vars

Next == (\E t \in Threads : CallPush(t) \/ CallReset(t) \/ Step(t)) \/ Done

Spec == Init /\ [][Next]_vars

(* A thread inside a call keeps running. *)
FairSpec == Spec /\ \A t \in Threads : WF_vars(Step(t))

-----------------------------------------------------------------------------
(* Properties. *)

Is(k, kind) == Chain[k].kind = kind

(* A buffer neither loses, nor repeats, nor reorders an item, whichever     *)
(* threads push and reset and even if the Action throws: the batches it     *)
(* passed on, then what it holds, are what it took since the last reset.    *)
BufferKeepsAll ==
  \A k \in Stages : Is(k, "buffer") /\ lock[k] = Nobody =>
    FlattenSeq(gave[k]) \o items[k] = took[k]

(* It passes on batches of exactly its size, buffer(0) of one item, until   *)
(* the Action throws: then the items stay, the vector grows and with it     *)
(* every later batch.  No batch is ever smaller.                            *)
BatchSizes ==
  \A k \in Stages : Is(k, "buffer") =>
    \A i \in DOMAIN gave[k] :
      LET size == IF Chain[k].size = 0 THEN 1 ELSE Chain[k].size
      IN  /\ Len(gave[k][i]) >= size
          /\ throws = 0 => Len(gave[k][i]) = size

(* The i-th window is the last `size` of the first i items, exceptions or   *)
(* not.                                                                     *)
WindowSlides ==
  \A k \in Stages : Is(k, "window") =>
    \A i \in DOMAIN gave[k] :
      LET from == IF i <= Chain[k].size THEN 1 ELSE i - Chain[k].size + 1
      IN  gave[k][i] = SubSeq(took[k], from, i)

(* When reset() comes back to a stage, the stages below it are empty, as    *)
(* far down as the first that does not pass reset() on: a push by another   *)
(* thread has to wait at the first mutex that the reset still holds, if     *)
(* there is one on its way.                                                 *)
ResetClears ==
  \A t \in Threads : op[t] = "undo" /\ (\E j \in 1 .. Depth(t) : Locked(j)) =>
    \A k \in Depth(t) .. Len(Chain) :
      (\A j \in Depth(t) .. k : ~Is(j, "where") /\ ~Is(j, "select")) => items[k] = <<>>

(* Every call returns, by a return or an exception: the mutexes are taken   *)
(* from the top of the chain down, so no two threads wait for each other.   *)
CallsReturn == \A t \in Threads : op[t] # "idle" ~> op[t] = "idle"

=============================================================================
