---------------------------- MODULE TimeCluster ----------------------------
(***************************************************************************)
(* class TimeCluster of stream4.cc over class Timer of timer_w32.cc.       *)
(*                                                                         *)
(* Client threads call operator() and reset(); the first item of a cluster *)
(* arms a one-shot timer whose callback, on a thread of the timer queue,   *)
(* hands all the items gathered so far to the downstream action and resets *)
(* the cluster.  A recursive mutex guards the members, but nothing waits   *)
(* for a callback that has started: stop() only deletes the timer.         *)
(*                                                                         *)
(* A handle h stands for its OS timer and, once it expires, for the thread *)
(* that runs its callback.  The action downstream is the Select of main(), *)
(* whose reset() is empty.                                                 *)
(***************************************************************************)
EXTENDS Timer, Sequences

CONSTANTS
  Clients,      \* threads that call operator() and reset()
  Nobody,       \* the owner of a free lock
  MaxCalls,     \* bound: calls of operator()
  MaxResets     \* bound: calls of reset() by clients

ASSUME ThreadAssumption ==
  /\ Clients \cap Handles = {}
  /\ Nobody \notin Clients \cup Handles

VARIABLES
  items, first,           \* items_, first_
  owner, depth,           \* lock_: the thread that holds it, how many times
  pc,                     \* the point each thread has reached
  out,                    \* history: the batches given to action_
  accepted, discarded,    \* history: items pushed; items an explicit reset dropped
  calls, resets           \* the counters of the bounds

history == <<out, accepted, discarded>>
counters == <<calls, resets, failures>>
vars == <<items, first, owner, depth, timerVars, pc, history, counters>>

Threads == Clients \cup Handles

ClientPC == {"idle", "push", "once", "create", "append", "reset", "stop", "clear"}
CallbackPC == {"unused", "tick", "flush", "emit", "reset", "stop", "clear", "leave", "done"}

LockTypeOK == owner \in Threads \cup {Nobody} /\ depth \in 0 .. 2

PCTypeOK ==
  /\ pc \in [Threads -> ClientPC \cup CallbackPC]
  /\ \A c \in Clients : pc[c] \in ClientPC
  /\ \A h \in Handles : pc[h] \in CallbackPC

HistoryTypeOK ==
  /\ out \in Seq([items : Seq(Nat), armed : Handles \cup {NoHandle}, by : Handles])
  /\ accepted \in Nat
  /\ discarded \in SUBSET Nat

CounterTypeOK == calls \in Nat /\ resets \in Nat /\ failures \in Nat

TypeOK ==
  /\ items \in Seq(Nat) /\ first \in BOOLEAN
  /\ LockTypeOK
  /\ TimerTypeOK
  /\ PCTypeOK
  /\ HistoryTypeOK
  /\ CounterTypeOK

Init ==
  /\ items = <<>>
  /\ first = TRUE
  /\ owner = Nobody
  /\ depth = 0
  /\ TimerInit
  /\ pc = [t \in Threads |-> IF t \in Clients THEN "idle" ELSE "unused"]
  /\ out = <<>>
  /\ accepted = 0
  /\ discarded = {}
  /\ calls = 0 /\ resets = 0

-----------------------------------------------------------------------------
Goto(t, from, to) == pc[t] = from /\ pc' = [pc EXCEPT ![t] = to]

(* Mutant: a mutex that is not recursive. *)
Lock_NotRecursive(t) == owner = Nobody /\ owner' = t /\ depth' = 1

(* std::lock_guard<std::recursive_mutex>: construction and destruction. *)
Lock(t) ==
  \/ owner = Nobody /\ owner' = t /\ depth' = 1
  \/ owner = t /\ depth' = depth + 1 /\ UNCHANGED owner

Unlock(t) ==
  /\ owner = t
  /\ depth' = depth - 1
  /\ owner' = IF depth = 1 THEN Nobody ELSE t

-----------------------------------------------------------------------------
(* operator()(item), by a client. *)

(* Mutant: first_ is not tested, every item arms a timer. *)
EnterPush_AlwaysArms(c) ==
  /\ Goto(c, "push", "once")
  /\ Lock(c)
  /\ UNCHANGED <<items, first, timerVars, history, counters>>

CallPush(c) ==
  /\ calls < MaxCalls
  /\ Goto(c, "idle", "push")
  /\ calls' = calls + 1
  /\ UNCHANGED <<items, first, owner, depth, timerVars, history, resets, failures>>

EnterPush(c) ==
  /\ Goto(c, "push", IF first THEN "once" ELSE "append")
  /\ Lock(c)
  /\ UNCHANGED <<items, first, timerVars, history, counters>>

(* timer_.once(...): action_ is assigned, then init() is called.  It is     *)
(* called as long as the model has a fresh handle left.                     *)
Once(c) ==
  /\ issued # Handles
  /\ Goto(c, "once", "create")
  /\ setAction
  /\ UNCHANGED <<items, first, owner, depth, history, counters>>

Create(c) ==
  /\ Goto(c, "create", "append")
  /\ \E h \in Handles : init(h)
  /\ UNCHANGED <<items, first, owner, depth, history, counters>>

(* Mutant: first_ = false moved before the call of once(). *)
CreateThrows_ClearsFirst(c) ==
  /\ Goto(c, "create", "idle")
  /\ initThrows
  /\ Unlock(c)
  /\ first' = FALSE
  /\ UNCHANGED <<items, history, calls, resets>>

(* init() throws: the guard unlocks, the item is not taken. *)
CreateThrows(c) ==
  /\ Goto(c, "create", "idle")
  /\ initThrows
  /\ Unlock(c)
  /\ UNCHANGED <<items, first, history, calls, resets>>

PushBack(c) ==
  /\ Goto(c, "append", "idle")
  /\ first' = FALSE
  /\ accepted' = accepted + 1
  /\ items' = Append(items, accepted + 1)
  /\ Unlock(c)
  /\ UNCHANGED <<timerVars, out, discarded, counters>>

-----------------------------------------------------------------------------
(* The timer expires: timer_tick, Timer::tick and flushAndReset().          *)

Fire(h) ==
  /\ Expire(h, FALSE)
  /\ Goto(h, "unused", "tick")
  /\ UNCHANGED <<items, first, owner, depth, history, counters>>

(* Mutant: flushAndReset() without its lock_guard. *)
EnterFlush_Unlocked(h) ==
  /\ Goto(h, "flush", "emit")
  /\ UNCHANGED <<items, first, owner, depth, timerVars, history, counters>>

(* Timer::tick() reads action_ without a lock. *)
Tick(h) ==
  /\ Goto(h, "tick", IF hasAction THEN "flush" ELSE "done")
  /\ UNCHANGED <<items, first, owner, depth, timerVars, history, counters>>

EnterFlush(h) ==
  /\ Goto(h, "flush", "emit")
  /\ Lock(h)
  /\ UNCHANGED <<items, first, timerVars, history, counters>>

Emit(h) ==
  /\ Goto(h, "emit", "reset")
  /\ out' = IF items # <<>>
            THEN Append(out, [items |-> items, armed |-> timerHandle, by |-> h])
            ELSE out
  /\ UNCHANGED <<items, first, owner, depth, timerVars, accepted, discarded, counters>>

LeaveFlush(h) ==
  /\ Goto(h, "leave", "done")
  /\ Unlock(h)
  /\ UNCHANGED <<items, first, timerVars, history, counters>>

-----------------------------------------------------------------------------
(* reset(), called by a client or, with the lock already held, by           *)
(* flushAndReset().                                                         *)

CallReset(c) ==
  /\ resets < MaxResets
  /\ Goto(c, "idle", "reset")
  /\ resets' = resets + 1
  /\ UNCHANGED <<items, first, owner, depth, timerVars, history, calls, failures>>

EnterReset(t) ==
  /\ Goto(t, "reset", "stop")
  /\ Lock(t)
  /\ UNCHANGED <<items, first, timerVars, history, counters>>

(* Mutants of reset(): first_ is not set back; items_ is not cleared. *)
Clear_KeepsFirst(t) ==
  /\ Goto(t, "clear", IF t \in Clients THEN "idle" ELSE "leave")
  /\ items' = <<>>
  /\ discarded' = IF t \in Clients
                  THEN discarded \cup {items[i] : i \in DOMAIN items}
                  ELSE discarded
  /\ Unlock(t)
  /\ UNCHANGED <<first, timerVars, out, accepted, counters>>

Clear_KeepsItems(t) ==
  /\ Goto(t, "clear", IF t \in Clients THEN "idle" ELSE "leave")
  /\ first' = TRUE
  /\ Unlock(t)
  /\ UNCHANGED <<items, timerVars, history, counters>>

Stop(t) ==
  /\ Goto(t, "stop", "clear")
  /\ stop
  /\ UNCHANGED <<items, first, owner, depth, history, counters>>

Clear(t) ==
  /\ Goto(t, "clear", IF t \in Clients THEN "idle" ELSE "leave")
  /\ items' = <<>>
  /\ first' = TRUE
  /\ discarded' = IF t \in Clients
                  THEN discarded \cup {items[i] : i \in DOMAIN items}
                  ELSE discarded
  /\ Unlock(t)
  /\ UNCHANGED <<timerVars, out, accepted, counters>>

-----------------------------------------------------------------------------
PushStep(c) == EnterPush(c) \/ Once(c) \/ Create(c) \/ CreateThrows(c) \/ PushBack(c)
ResetStep(t) == EnterReset(t) \/ Stop(t) \/ Clear(t)
FlushStep(h) == Tick(h) \/ EnterFlush(h) \/ Emit(h) \/ ResetStep(h) \/ LeaveFlush(h)

(* Every call has returned, every callback has run and no timer is armed.   *)
Quiescent ==
  /\ \A c \in Clients : pc[c] = "idle"
  /\ \A h \in Handles : pc[h] \in {"unused", "done"}
  /\ armed = {}
  /\ UNCHANGED vars

Next ==
  \/ \E c \in Clients : CallPush(c) \/ CallReset(c) \/ PushStep(c) \/ ResetStep(c)
  \/ \E h \in Handles : Fire(h) \/ FlushStep(h)
  \/ Quiescent

Spec == Init /\ [][Next]_vars

(* A thread inside a call keeps running and an armed timer expires; nobody  *)
(* is obliged to call.                                                      *)
Fairness ==
  /\ \A c \in Clients : WF_vars(PushStep(c)) /\ WF_vars(ResetStep(c))
  /\ \A h \in Handles : WF_vars(Fire(h)) /\ WF_vars(FlushStep(h))

FairSpec == Spec /\ Fairness

-----------------------------------------------------------------------------
(* Properties. *)

Held == {items[i] : i \in DOMAIN items}
Batch(i) == {out[i].items[j] : j \in DOMAIN out[i].items}
Delivered == UNION {Batch(i) : i \in DOMAIN out}

(* A callback has handed items_ downstream and not yet cleared it. *)
Emitted(h) == pc[h] \in {"reset", "stop", "clear"}
Flushing == \E h \in Handles : Emitted(h)

(* No accepted item is lost and none is delivered twice, whatever the order *)
(* of pushes, resets and callbacks: each is still held, or in exactly one   *)
(* batch, or was dropped by an explicit reset() (stream4.cc:218-240).       *)
EachItemOnce ==
  /\ 1 .. accepted = Held \cup Delivered \cup discarded
  /\ discarded \cap (Held \cup Delivered) = {}
  /\ Held \cap Delivered # {} => Flushing
  /\ \A i, j \in DOMAIN out : i # j => Batch(i) \cap Batch(j) = {}

(* Items never wait for nothing: when the lock is free and items_ is not    *)
(* empty, some timer is armed or some callback is on its way to flush.      *)
NoOrphan ==
  owner = Nobody /\ items # <<>> =>
    \/ armed # {}
    \/ \E h \in Handles : pc[h] \in {"tick", "flush"}

(* At most one OS timer is live, it is the one timerHandle_ names, and      *)
(* there is none when the cluster is idle: no timer is leaked, so none can  *)
(* expire after the object is gone (timer_w32.cc:65-72).                    *)
OneLiveTimer ==
  /\ live \subseteq {timerHandle}
  /\ owner = Nobody /\ first => live = {}

(* DeleteTimerQueueTimer never gets a handle that was already deleted,      *)
(* unless a CreateTimerQueueTimer failed: init() clears disposed_ before    *)
(* the call, so a failure leaves the old handle to be deleted again.        *)
DeletedOnce == wrongDelete => failures > 0

(* While no client calls reset(), as in main(), a batch is flushed by the   *)
(* timer its own first item armed, so no cluster is cut short by the        *)
(* callback of an earlier one.  stop() does not wait for a callback, and    *)
(* with a reset() in between the promise is gone.                           *)
OwnTimerFlushes ==
  resets = 0 => \A i \in DOMAIN out : out[i].by = out[i].armed

(* While no client calls reset(), once() never assigns action_ while a      *)
(* callback is reading it in tick(), where no lock is held.                 *)
ActionNotRaced ==
  resets = 0 =>
    ~ \E c \in Clients, h \in Handles : pc[c] = "once" /\ pc[h] = "tick"

(* The cluster implements its abstract specification: the items leave at    *)
(* the moment the callback gives them to the downstream action.             *)
Abstract == INSTANCE ClusterSpec WITH
  held <- IF Flushing THEN <<>> ELSE items,
  batches <- [i \in DOMAIN out |-> out[i].items]

ImplementsCluster == Abstract!AbsSpec

(* Every accepted item is eventually delivered, unless a reset drops it:    *)
(* neither a failed timer creation nor a late callback strands it.          *)
ItemsLeave ==
  \A n \in 1 .. MaxCalls : accepted >= n ~> n \in Delivered \cup discarded

(* Every call of operator() and of reset() returns. *)
CallsReturn == \A c \in Clients : pc[c] # "idle" ~> pc[c] = "idle"

=============================================================================
