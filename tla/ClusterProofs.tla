--------------------------- MODULE ClusterProofs ---------------------------
(***************************************************************************)
(* Theorems about TimeCluster, for any number of clients, timers, calls,   *)
(* resets and failures, in four parts.                                     *)
(*                                                                         *)
(* The timer: the types, the lock, and on them that at most one timer is   *)
(* live, that no item waits without a timer or a callback that will flush  *)
(* it, and what a late callback may still do.                              *)
(*                                                                         *)
(* The items: none is lost or doubled, and the cluster with its lock, its  *)
(* timer and its threads implements ClusterSpec step by step.  Both rest   *)
(* on the lock: while a callback has handed items downstream and not       *)
(* cleared them, nobody else touches them.                                 *)
(*                                                                         *)
(* The chain: what comes through a stage below the cluster, what becomes   *)
(* of the items when the Action pushes into the cluster that is flushing,  *)
(* and that nothing is armed once the chain is gone.                       *)
(*                                                                         *)
(* The owner: what a Timer guarantees to whoever calls it, for any handles *)
(* and callbacks at a time, and that the cluster is such an owner.         *)
(***************************************************************************)
EXTENDS ClusterChain, TimerOwner, SequenceTheorems, TLAPS

-----------------------------------------------------------------------------
(* THE TIMER.  The inductive invariant. *)

(* The points of the code at which a thread holds lock_.  "reset" is inside *)
(* flushAndReset() for a callback and at the entry of reset() for a client. *)
InLock(t) ==
  \/ pc[t] \in {"once", "create", "append", "emit", "stop", "clear", "leave"}
  \/ t \in Handles /\ pc[t] = "reset"

LockInv ==
  /\ \A t \in Threads : InLock(t) <=> owner = t
  /\ owner = Nobody => depth = 0
  /\ owner \in Clients => depth = 1
  /\ owner \in Handles =>
       depth = IF pc[owner] \in {"stop", "clear"} THEN 2 ELSE 1

(* The only live timer is the one timerHandle_ names; the points at which   *)
(* there is none.                                                           *)
TimerInv ==
  /\ live \subseteq {timerHandle}
  /\ disposed => live = {}
  /\ ~disposed /\ failures = 0 => timerHandle \in live
  /\ wrongDelete => failures > 0
  /\ \A c \in Clients : pc[c] \in {"once", "create"} => first /\ live = {}
  /\ \A t \in Threads : pc[t] = "clear" => live = {}
  /\ first /\ (\A c \in Clients : pc[c] # "append") => live = {}

(* A callback finds an action to run. *)
ActionInv ==
  /\ \A c \in Clients : pc[c] = "create" => hasAction
  /\ issued # {} => hasAction
  /\ \A h \in Handles : pc[h] # "unused" => issued # {}

(* The timer of the current cluster can still expire, or has expired and    *)
(* its callback is on its way to the lock.                                  *)
Wake ==
  \/ timerHandle \in armed
  \/ timerHandle \in Handles /\ pc[timerHandle] \in {"tick", "flush"}

(* The thread that holds the lock is about to clear the cluster. *)
Clearing == \E t \in Threads :
              owner = t /\ pc[t] \in {"emit", "reset", "stop", "clear"}

WakeInv ==
  /\ items # <<>> => ~first
  /\ ~first => Wake \/ Clearing
  /\ \A c \in Clients : pc[c] = "append" => Wake

IInv == TypeOK /\ LockInv /\ TimerInv /\ ActionInv /\ WakeInv

-----------------------------------------------------------------------------
(* Types. *)

USE DEF Threads, ClientPC, CallbackPC, timerVars, history, counters, vars

(* The initial state has the declared types. *)
LEMMA InitTypeOK == Init => TypeOK
<1> SUFFICES ASSUME Init PROVE TypeOK
  OBVIOUS
<1>1. TimerTypeOK
  BY DEF Init, TimerInit, TimerTypeOK
<1>2. PCTypeOK
  BY ThreadAssumption DEF Init, PCTypeOK
<1> QED
  BY <1>1, <1>2 DEF Init, TimerInit, TypeOK, LockTypeOK, HistoryTypeOK, CounterTypeOK

(* A move of the program counter of a thread to one of its own points.      *)
LEMMA GotoType ==
  ASSUME PCTypeOK, NEW t \in Threads, NEW from, NEW to, Goto(t, from, to),
         t \in Clients => to \in ClientPC, t \in Handles => to \in CallbackPC
  PROVE  PCTypeOK'
BY DEF PCTypeOK, Goto

(* Entering the lock: a client has never entered it before, a callback at   *)
(* most once.                                                               *)
LEMMA LockType ==
  ASSUME TypeOK, LockInv, NEW t \in Threads, Lock(t),
         ~InLock(t) \/ (t \in Handles /\ pc[t] = "reset")
  PROVE  LockTypeOK'
BY DEF TypeOK, LockTypeOK, LockInv, InLock, Lock

(* Leaving it. *)
LEMMA UnlockType ==
  ASSUME TypeOK, LockInv, NEW t \in Threads, Unlock(t)
  PROVE  LockTypeOK'
<1>1. depth \in 1 .. 2
  BY DEF LockInv, Unlock
<1> QED
  BY <1>1 DEF Unlock, LockTypeOK

(* Every step keeps the types. *)
LEMMA NextTypeOK ==
  ASSUME TypeOK, LockInv, [Next]_vars
  PROVE  TypeOK'
<1>1. ASSUME NEW c \in Clients, CallPush(c) PROVE TypeOK'
  <2>1. PCTypeOK'
    <3>1. Goto(c, "idle", "push")
      BY <1>1 DEF CallPush
    <3> QED
      BY <3>1, GotoType, ThreadAssumption DEF TypeOK
  <2>2. LockTypeOK'
    BY <1>1 DEF CallPush, TypeOK, LockTypeOK
  <2>3. /\ items' \in Seq(Nat) /\ first' \in BOOLEAN /\ TimerTypeOK'
        /\ HistoryTypeOK' /\ CounterTypeOK'
    BY <1>1 DEF CallPush, TypeOK, TimerTypeOK, HistoryTypeOK, CounterTypeOK
  <2> QED
    BY <2>1, <2>2, <2>3 DEF TypeOK
<1>2. ASSUME NEW c \in Clients, CallReset(c) PROVE TypeOK'
  <2>1. PCTypeOK'
    <3>1. Goto(c, "idle", "reset")
      BY <1>2 DEF CallReset
    <3> QED
      BY <3>1, GotoType, ThreadAssumption DEF TypeOK
  <2>2. LockTypeOK'
    BY <1>2 DEF CallReset, TypeOK, LockTypeOK
  <2>3. /\ items' \in Seq(Nat) /\ first' \in BOOLEAN /\ TimerTypeOK'
        /\ HistoryTypeOK' /\ CounterTypeOK'
    BY <1>2 DEF CallReset, TypeOK, TimerTypeOK, HistoryTypeOK, CounterTypeOK
  <2> QED
    BY <2>1, <2>2, <2>3 DEF TypeOK
<1>3. ASSUME NEW c \in Clients, EnterPush(c) PROVE TypeOK'
  <2>1. PCTypeOK'
    <3>1. Goto(c, "push", IF first THEN "once" ELSE "append")
      BY <1>3 DEF EnterPush
    <3> QED
      BY <3>1, GotoType, ThreadAssumption DEF TypeOK
  <2>2. LockTypeOK'
    <3>1. c \in Threads /\ ~InLock(c) /\ Lock(c)
      BY <1>3, ThreadAssumption DEF EnterPush, Goto, InLock
    <3> QED
      BY <3>1, LockType
  <2>3. /\ items' \in Seq(Nat) /\ first' \in BOOLEAN /\ TimerTypeOK'
        /\ HistoryTypeOK' /\ CounterTypeOK'
    BY <1>3 DEF EnterPush, TypeOK, TimerTypeOK, HistoryTypeOK, CounterTypeOK
  <2> QED
    BY <2>1, <2>2, <2>3 DEF TypeOK
<1>4. ASSUME NEW c \in Clients, Once(c) PROVE TypeOK'
  <2>1. PCTypeOK'
    <3>1. Goto(c, "once", "create")
      BY <1>4 DEF Once
    <3> QED
      BY <3>1, GotoType, ThreadAssumption DEF TypeOK
  <2>2. LockTypeOK'
    BY <1>4 DEF Once, TypeOK, LockTypeOK
  <2>3. /\ items' \in Seq(Nat) /\ first' \in BOOLEAN /\ TimerTypeOK'
        /\ HistoryTypeOK' /\ CounterTypeOK'
    BY <1>4 DEF Once, TypeOK, TimerTypeOK, HistoryTypeOK, CounterTypeOK, setAction
  <2> QED
    BY <2>1, <2>2, <2>3 DEF TypeOK
<1>5. ASSUME NEW c \in Clients, Create(c) PROVE TypeOK'
  <2>1. PCTypeOK'
    <3>1. Goto(c, "create", "append")
      BY <1>5 DEF Create
    <3> QED
      BY <3>1, GotoType, ThreadAssumption DEF TypeOK
  <2>2. LockTypeOK'
    BY <1>5 DEF Create, TypeOK, LockTypeOK
  <2>3. /\ items' \in Seq(Nat) /\ first' \in BOOLEAN /\ TimerTypeOK'
        /\ HistoryTypeOK' /\ CounterTypeOK'
    BY <1>5 DEF Create, TypeOK, TimerTypeOK, HistoryTypeOK, CounterTypeOK, init, CreateTimerQueueTimer
  <2> QED
    BY <2>1, <2>2, <2>3 DEF TypeOK
<1>6. ASSUME NEW c \in Clients, CreateThrows(c) PROVE TypeOK'
  <2>1. PCTypeOK'
    <3>1. Goto(c, "create", "idle")
      BY <1>6 DEF CreateThrows
    <3> QED
      BY <3>1, GotoType, ThreadAssumption DEF TypeOK
  <2>2. LockTypeOK'
    BY <1>6, UnlockType DEF CreateThrows
  <2>3. items' \in Seq(Nat) /\ first' \in BOOLEAN
    BY <1>6 DEF CreateThrows, TypeOK, HistoryTypeOK
  <2>4. TimerTypeOK'
    BY <1>6 DEF CreateThrows, TypeOK, TimerTypeOK, initThrows
  <2>5. HistoryTypeOK'
    BY <1>6 DEF CreateThrows, TypeOK, TimerTypeOK, HistoryTypeOK
  <2>6. CounterTypeOK'
    BY <1>6 DEF CreateThrows, TypeOK, CounterTypeOK, initThrows
  <2> QED
    BY <2>1, <2>2, <2>3, <2>4, <2>5, <2>6 DEF TypeOK
<1>7. ASSUME NEW c \in Clients, PushBack(c) PROVE TypeOK'
  <2>1. PCTypeOK'
    <3>1. Goto(c, "append", "idle")
      BY <1>7 DEF PushBack
    <3> QED
      BY <3>1, GotoType, ThreadAssumption DEF TypeOK
  <2>2. LockTypeOK'
    BY <1>7, UnlockType DEF PushBack
  <2>3. items' \in Seq(Nat) /\ first' \in BOOLEAN
    <3>1. items \in Seq(Nat) /\ accepted + 1 \in Nat
      BY DEF TypeOK, HistoryTypeOK
    <3>2. items' = Append(items, accepted + 1) /\ first' = FALSE
      BY <1>7 DEF PushBack
    <3> QED
      BY <3>1, <3>2, AppendProperties
  <2>4. TimerTypeOK'
    BY <1>7 DEF PushBack, TypeOK, TimerTypeOK
  <2>5. HistoryTypeOK'
    BY <1>7 DEF PushBack, TypeOK, TimerTypeOK, HistoryTypeOK
  <2>6. CounterTypeOK'
    BY <1>7 DEF PushBack, TypeOK, CounterTypeOK
  <2> QED
    BY <2>1, <2>2, <2>3, <2>4, <2>5, <2>6 DEF TypeOK
<1>8. ASSUME NEW h \in Handles, Fire(h) PROVE TypeOK'
  <2>1. PCTypeOK'
    <3>1. Goto(h, "unused", "tick")
      BY <1>8 DEF Fire
    <3> QED
      BY <3>1, GotoType, ThreadAssumption DEF TypeOK
  <2>2. LockTypeOK'
    BY <1>8 DEF Fire, TypeOK, LockTypeOK
  <2>3. /\ items' \in Seq(Nat) /\ first' \in BOOLEAN /\ TimerTypeOK'
        /\ HistoryTypeOK' /\ CounterTypeOK'
    BY <1>8 DEF Fire, TypeOK, TimerTypeOK, HistoryTypeOK, CounterTypeOK, Expire
  <2> QED
    BY <2>1, <2>2, <2>3 DEF TypeOK
<1>9. ASSUME NEW h \in Handles, Tick(h) PROVE TypeOK'
  <2>1. PCTypeOK'
    <3>1. Goto(h, "tick", IF hasAction THEN "flush" ELSE "done")
      BY <1>9 DEF Tick
    <3> QED
      BY <3>1, GotoType, ThreadAssumption DEF TypeOK
  <2>2. LockTypeOK'
    BY <1>9 DEF Tick, TypeOK, LockTypeOK
  <2>3. /\ items' \in Seq(Nat) /\ first' \in BOOLEAN /\ TimerTypeOK'
        /\ HistoryTypeOK' /\ CounterTypeOK'
    BY <1>9 DEF Tick, TypeOK, TimerTypeOK, HistoryTypeOK, CounterTypeOK
  <2> QED
    BY <2>1, <2>2, <2>3 DEF TypeOK
<1>10. ASSUME NEW h \in Handles, EnterFlush(h) PROVE TypeOK'
  <2>1. PCTypeOK'
    <3>1. Goto(h, "flush", "emit")
      BY <1>10 DEF EnterFlush
    <3> QED
      BY <3>1, GotoType, ThreadAssumption DEF TypeOK
  <2>2. LockTypeOK'
    <3>1. h \in Threads /\ ~InLock(h) /\ Lock(h)
      BY <1>10, ThreadAssumption DEF EnterFlush, Goto, InLock
    <3> QED
      BY <3>1, LockType
  <2>3. /\ items' \in Seq(Nat) /\ first' \in BOOLEAN /\ TimerTypeOK'
        /\ HistoryTypeOK' /\ CounterTypeOK'
    BY <1>10 DEF EnterFlush, TypeOK, TimerTypeOK, HistoryTypeOK, CounterTypeOK
  <2> QED
    BY <2>1, <2>2, <2>3 DEF TypeOK
<1>11. ASSUME NEW h \in Handles, Emit(h) PROVE TypeOK'
  <2>1. PCTypeOK'
    <3>1. Goto(h, "emit", "reset")
      BY <1>11 DEF Emit
    <3> QED
      BY <3>1, GotoType, ThreadAssumption DEF TypeOK
  <2>2. LockTypeOK'
    BY <1>11 DEF Emit, TypeOK, LockTypeOK
  <2>3. items' \in Seq(Nat) /\ first' \in BOOLEAN
    BY <1>11 DEF Emit, TypeOK, HistoryTypeOK
  <2>4. TimerTypeOK'
    BY <1>11 DEF Emit, TypeOK, TimerTypeOK
  <2>5. HistoryTypeOK'
    <3> DEFINE Batches == [items : Seq(Nat), armed : Handles \cup {NoHandle}, by : Handles]
               b == [items |-> items, armed |-> timerHandle, by |-> h]
    <3>1. b \in Batches /\ out \in Seq(Batches)
      BY DEF TypeOK, TimerTypeOK, HistoryTypeOK
    <3>2. Append(out, b) \in Seq(Batches)
      BY <3>1, AppendProperties
    <3>3. out' = Append(out, b) \/ out' = out
      BY <1>11 DEF Emit
    <3>4. UNCHANGED <<accepted, discarded>>
      BY <1>11 DEF Emit
    <3> QED
      BY <3>1, <3>2, <3>3, <3>4 DEF TypeOK, HistoryTypeOK
  <2>6. CounterTypeOK'
    BY <1>11 DEF Emit, TypeOK, CounterTypeOK
  <2> QED
    BY <2>1, <2>2, <2>3, <2>4, <2>5, <2>6 DEF TypeOK
<1>12. ASSUME NEW h \in Handles, LeaveFlush(h) PROVE TypeOK'
  <2>1. PCTypeOK'
    <3>1. Goto(h, "leave", "done")
      BY <1>12 DEF LeaveFlush
    <3> QED
      BY <3>1, GotoType, ThreadAssumption DEF TypeOK
  <2>2. LockTypeOK'
    BY <1>12, UnlockType DEF LeaveFlush
  <2>3. /\ items' \in Seq(Nat) /\ first' \in BOOLEAN /\ TimerTypeOK'
        /\ HistoryTypeOK' /\ CounterTypeOK'
    BY <1>12 DEF LeaveFlush, TypeOK, TimerTypeOK, HistoryTypeOK, CounterTypeOK
  <2> QED
    BY <2>1, <2>2, <2>3 DEF TypeOK
<1>13. ASSUME NEW t \in Threads, EnterReset(t) PROVE TypeOK'
  <2>1. PCTypeOK'
    <3>1. Goto(t, "reset", "stop")
      BY <1>13 DEF EnterReset
    <3> QED
      BY <3>1, GotoType, ThreadAssumption DEF TypeOK
  <2>2. LockTypeOK'
    BY <1>13, LockType, ThreadAssumption DEF EnterReset, Goto, InLock
  <2>3. /\ items' \in Seq(Nat) /\ first' \in BOOLEAN /\ TimerTypeOK'
        /\ HistoryTypeOK' /\ CounterTypeOK'
    BY <1>13 DEF EnterReset, TypeOK, TimerTypeOK, HistoryTypeOK, CounterTypeOK
  <2> QED
    BY <2>1, <2>2, <2>3 DEF TypeOK
<1>14. ASSUME NEW t \in Threads, Stop(t) PROVE TypeOK'
  <2>1. PCTypeOK'
    <3>1. Goto(t, "stop", "clear")
      BY <1>14 DEF Stop
    <3> QED
      BY <3>1, GotoType, ThreadAssumption DEF TypeOK
  <2>2. LockTypeOK'
    BY <1>14 DEF Stop, TypeOK, LockTypeOK
  <2>3. /\ items' \in Seq(Nat) /\ first' \in BOOLEAN /\ TimerTypeOK'
        /\ HistoryTypeOK' /\ CounterTypeOK'
    BY <1>14 DEF Stop, TypeOK, TimerTypeOK, HistoryTypeOK, CounterTypeOK, stop, DeleteTimerQueueTimer
  <2> QED
    BY <2>1, <2>2, <2>3 DEF TypeOK
<1>15. ASSUME NEW t \in Threads, Clear(t) PROVE TypeOK'
  <2>1. PCTypeOK'
    <3>1. Goto(t, "clear", IF t \in Clients THEN "idle" ELSE "leave")
      BY <1>15 DEF Clear
    <3> QED
      BY <3>1, GotoType, ThreadAssumption DEF TypeOK
  <2>2. LockTypeOK'
    BY <1>15, UnlockType DEF Clear
  <2>3. items' \in Seq(Nat) /\ first' \in BOOLEAN
    BY <1>15 DEF Clear, TypeOK, HistoryTypeOK
  <2>4. TimerTypeOK'
    BY <1>15 DEF Clear, TypeOK, TimerTypeOK
  <2>5. HistoryTypeOK'
    <3>1. {items[i] : i \in DOMAIN items} \subseteq Nat
      BY ElementOfSeq DEF TypeOK
    <3>2. discarded' \in SUBSET Nat
      BY <1>15, <3>1 DEF Clear, TypeOK, HistoryTypeOK
    <3> QED
      BY <1>15, <3>2 DEF Clear, TypeOK, HistoryTypeOK
  <2>6. CounterTypeOK'
    BY <1>15 DEF Clear, TypeOK, CounterTypeOK
  <2> QED
    BY <2>1, <2>2, <2>3, <2>4, <2>5, <2>6 DEF TypeOK
<1>16. CASE UNCHANGED vars
  BY <1>16 DEF TypeOK, LockTypeOK, TimerTypeOK, PCTypeOK, HistoryTypeOK, CounterTypeOK
<1> QED
  BY <1>1, <1>2, <1>3, <1>4, <1>5, <1>6, <1>7, <1>8, <1>9, <1>10, <1>11,
     <1>12, <1>13, <1>14, <1>15, <1>16
  DEF Next, PushStep, ResetStep, FlushStep, Quiescent

-----------------------------------------------------------------------------
(* The inductive steps. *)

(* The lock: a thread is between an acquisition and its release exactly     *)
(* when it owns the lock.                                                   *)
LEMMA NextLockInv ==
  ASSUME TypeOK, LockInv, [Next]_vars
  PROVE  LockInv'
<1> USE ThreadAssumption DEF LockInv, InLock, Goto, TypeOK, PCTypeOK, LockTypeOK
<1>1. ASSUME NEW c \in Clients, CallPush(c) PROVE LockInv'
  BY <1>1 DEF CallPush
<1>2. ASSUME NEW c \in Clients, CallReset(c) PROVE LockInv'
  BY <1>2 DEF CallReset
<1>3. ASSUME NEW c \in Clients, EnterPush(c) PROVE LockInv'
  BY <1>3 DEF EnterPush, Lock
<1>4. ASSUME NEW c \in Clients, Once(c) PROVE LockInv'
  BY <1>4 DEF Once
<1>5. ASSUME NEW c \in Clients, Create(c) PROVE LockInv'
  BY <1>5 DEF Create
<1>6. ASSUME NEW c \in Clients, CreateThrows(c) PROVE LockInv'
  BY <1>6 DEF CreateThrows, Unlock
<1>7. ASSUME NEW c \in Clients, PushBack(c) PROVE LockInv'
  BY <1>7 DEF PushBack, Unlock
<1>8. ASSUME NEW h \in Handles, Fire(h) PROVE LockInv'
  BY <1>8 DEF Fire
<1>9. ASSUME NEW h \in Handles, Tick(h) PROVE LockInv'
  BY <1>9 DEF Tick
<1>10. ASSUME NEW h \in Handles, EnterFlush(h) PROVE LockInv'
  BY <1>10 DEF EnterFlush, Lock
<1>11. ASSUME NEW h \in Handles, Emit(h) PROVE LockInv'
  BY <1>11 DEF Emit
<1>12. ASSUME NEW h \in Handles, LeaveFlush(h) PROVE LockInv'
  BY <1>12 DEF LeaveFlush, Unlock
<1>13. ASSUME NEW t \in Threads, EnterReset(t) PROVE LockInv'
  BY <1>13 DEF EnterReset, Lock
<1>14. ASSUME NEW t \in Threads, Stop(t) PROVE LockInv'
  BY <1>14 DEF Stop
<1>15. ASSUME NEW t \in Threads, Clear(t) PROVE LockInv'
  BY <1>15 DEF Clear, Unlock
<1>16. CASE UNCHANGED vars
  BY <1>16
<1> QED
  BY <1>1, <1>2, <1>3, <1>4, <1>5, <1>6, <1>7, <1>8, <1>9, <1>10, <1>11,
     <1>12, <1>13, <1>14, <1>15, <1>16
  DEF Next, PushStep, ResetStep, FlushStep, Quiescent

(* The timer: a new one is created only when none is live. *)
LEMMA NextTimerInv ==
  ASSUME TypeOK, LockInv, TimerInv, [Next]_vars
  PROVE  TimerInv'
<1> USE ThreadAssumption DEF LockInv, InLock, TimerInv, Goto, TypeOK, PCTypeOK, CounterTypeOK, TimerTypeOK
<1>1. ASSUME NEW c \in Clients, CallPush(c) PROVE TimerInv'
  BY <1>1 DEF CallPush
<1>2. ASSUME NEW c \in Clients, CallReset(c) PROVE TimerInv'
  BY <1>2 DEF CallReset
<1>3. ASSUME NEW c \in Clients, EnterPush(c) PROVE TimerInv'
  BY <1>3 DEF EnterPush, Lock
<1>4. ASSUME NEW c \in Clients, Once(c) PROVE TimerInv'
  BY <1>4 DEF Once, setAction
<1>5. ASSUME NEW c \in Clients, Create(c) PROVE TimerInv'
  BY <1>5 DEF Create, init, CreateTimerQueueTimer
<1>6. ASSUME NEW c \in Clients, CreateThrows(c) PROVE TimerInv'
  BY <1>6 DEF CreateThrows, Unlock, initThrows
<1>7. ASSUME NEW c \in Clients, PushBack(c) PROVE TimerInv'
  BY <1>7 DEF PushBack, Unlock
<1>8. ASSUME NEW h \in Handles, Fire(h) PROVE TimerInv'
  BY <1>8 DEF Fire, Expire
<1>9. ASSUME NEW h \in Handles, Tick(h) PROVE TimerInv'
  BY <1>9 DEF Tick
<1>10. ASSUME NEW h \in Handles, EnterFlush(h) PROVE TimerInv'
  BY <1>10 DEF EnterFlush, Lock
<1>11. ASSUME NEW h \in Handles, Emit(h) PROVE TimerInv'
  BY <1>11 DEF Emit
<1>12. ASSUME NEW h \in Handles, LeaveFlush(h) PROVE TimerInv'
  BY <1>12 DEF LeaveFlush, Unlock
<1>13. ASSUME NEW t \in Threads, EnterReset(t) PROVE TimerInv'
  BY <1>13 DEF EnterReset, Lock
<1>14. ASSUME NEW t \in Threads, Stop(t) PROVE TimerInv'
  BY <1>14 DEF Stop, stop, DeleteTimerQueueTimer
<1>15. ASSUME NEW t \in Threads, Clear(t) PROVE TimerInv'
  BY <1>15 DEF Clear, Unlock
<1>16. CASE UNCHANGED vars
  BY <1>16
<1> QED
  BY <1>1, <1>2, <1>3, <1>4, <1>5, <1>6, <1>7, <1>8, <1>9, <1>10, <1>11,
     <1>12, <1>13, <1>14, <1>15, <1>16
  DEF Next, PushStep, ResetStep, FlushStep, Quiescent

(* The action: assigned before the first timer exists. *)
LEMMA NextActionInv ==
  ASSUME TypeOK, ActionInv, [Next]_vars
  PROVE  ActionInv'
<1> USE ThreadAssumption DEF ActionInv, Goto, TypeOK, PCTypeOK, TimerTypeOK
<1>1. ASSUME NEW c \in Clients, CallPush(c) PROVE ActionInv'
  BY <1>1 DEF CallPush
<1>2. ASSUME NEW c \in Clients, CallReset(c) PROVE ActionInv'
  BY <1>2 DEF CallReset
<1>3. ASSUME NEW c \in Clients, EnterPush(c) PROVE ActionInv'
  BY <1>3 DEF EnterPush
<1>4. ASSUME NEW c \in Clients, Once(c) PROVE ActionInv'
  BY <1>4 DEF Once, setAction
<1>5. ASSUME NEW c \in Clients, Create(c) PROVE ActionInv'
  BY <1>5 DEF Create, init, CreateTimerQueueTimer
<1>6. ASSUME NEW c \in Clients, CreateThrows(c) PROVE ActionInv'
  BY <1>6 DEF CreateThrows, initThrows
<1>7. ASSUME NEW c \in Clients, PushBack(c) PROVE ActionInv'
  BY <1>7 DEF PushBack
<1>8. ASSUME NEW h \in Handles, Fire(h) PROVE ActionInv'
  BY <1>8 DEF Fire, Expire
<1>9. ASSUME NEW h \in Handles, Tick(h) PROVE ActionInv'
  BY <1>9 DEF Tick
<1>10. ASSUME NEW h \in Handles, EnterFlush(h) PROVE ActionInv'
  BY <1>10 DEF EnterFlush
<1>11. ASSUME NEW h \in Handles, Emit(h) PROVE ActionInv'
  BY <1>11 DEF Emit
<1>12. ASSUME NEW h \in Handles, LeaveFlush(h) PROVE ActionInv'
  BY <1>12 DEF LeaveFlush
<1>13. ASSUME NEW t \in Threads, EnterReset(t) PROVE ActionInv'
  BY <1>13 DEF EnterReset
<1>14. ASSUME NEW t \in Threads, Stop(t) PROVE ActionInv'
  BY <1>14 DEF Stop, stop, DeleteTimerQueueTimer
<1>15. ASSUME NEW t \in Threads, Clear(t) PROVE ActionInv'
  BY <1>15 DEF Clear
<1>16. CASE UNCHANGED vars
  BY <1>16
<1> QED
  BY <1>1, <1>2, <1>3, <1>4, <1>5, <1>6, <1>7, <1>8, <1>9, <1>10, <1>11,
     <1>12, <1>13, <1>14, <1>15, <1>16
  DEF Next, PushStep, ResetStep, FlushStep, Quiescent

(* The wake-up: it is created with the cluster, moves with the callback    *)
(* and is given up only by the thread that clears the cluster.              *)
LEMMA NextWakeInv ==
  ASSUME TypeOK, LockInv, TimerInv, ActionInv, WakeInv, [Next]_vars
  PROVE  WakeInv'
<1> USE ThreadAssumption DEF LockInv, InLock, TimerInv, ActionInv, WakeInv, Wake, Clearing, Goto, TypeOK, PCTypeOK, TimerTypeOK
<1>1. ASSUME NEW c \in Clients, CallPush(c) PROVE WakeInv'
  BY <1>1 DEF CallPush
<1>2. ASSUME NEW c \in Clients, CallReset(c) PROVE WakeInv'
  BY <1>2 DEF CallReset
<1>3. ASSUME NEW c \in Clients, EnterPush(c) PROVE WakeInv'
  BY <1>3 DEF EnterPush, Lock
<1>4. ASSUME NEW c \in Clients, Once(c) PROVE WakeInv'
  BY <1>4 DEF Once, setAction
<1>5. ASSUME NEW c \in Clients, Create(c) PROVE WakeInv'
  BY <1>5 DEF Create, init, CreateTimerQueueTimer
<1>6. ASSUME NEW c \in Clients, CreateThrows(c) PROVE WakeInv'
  BY <1>6 DEF CreateThrows, Unlock, initThrows
<1>7. ASSUME NEW c \in Clients, PushBack(c) PROVE WakeInv'
  BY <1>7 DEF PushBack, Unlock
<1>8. ASSUME NEW h \in Handles, Fire(h) PROVE WakeInv'
  BY <1>8 DEF Fire, Expire
<1>9. ASSUME NEW h \in Handles, Tick(h) PROVE WakeInv'
  BY <1>9 DEF Tick
<1>10. ASSUME NEW h \in Handles, EnterFlush(h) PROVE WakeInv'
  BY <1>10 DEF EnterFlush, Lock
<1>11. ASSUME NEW h \in Handles, Emit(h) PROVE WakeInv'
  BY <1>11 DEF Emit
<1>12. ASSUME NEW h \in Handles, LeaveFlush(h) PROVE WakeInv'
  BY <1>12 DEF LeaveFlush, Unlock
<1>13. ASSUME NEW t \in Threads, EnterReset(t) PROVE WakeInv'
  BY <1>13 DEF EnterReset, Lock
<1>14. ASSUME NEW t \in Threads, Stop(t) PROVE WakeInv'
  BY <1>14 DEF Stop, stop, DeleteTimerQueueTimer
<1>15. ASSUME NEW t \in Threads, Clear(t) PROVE WakeInv'
  BY <1>15 DEF Clear, Unlock
<1>16. CASE UNCHANGED vars
  BY <1>16
<1> QED
  BY <1>1, <1>2, <1>3, <1>4, <1>5, <1>6, <1>7, <1>8, <1>9, <1>10, <1>11,
     <1>12, <1>13, <1>14, <1>15, <1>16
  DEF Next, PushStep, ResetStep, FlushStep, Quiescent

-----------------------------------------------------------------------------
(* The invariants of the specification. *)

LEMMA InitIInv == Init => IInv
<1> SUFFICES ASSUME Init PROVE IInv
  OBVIOUS
<1>1. TypeOK
  BY InitTypeOK
<1>2. LockInv
  BY ThreadAssumption DEF Init, LockInv, InLock
<1>3. TimerInv
  BY DEF Init, TimerInv, TimerInit
<1>4. ActionInv
  BY ThreadAssumption DEF Init, ActionInv, TimerInit
<1>5. WakeInv
  BY ThreadAssumption DEF Init, WakeInv
<1> QED
  BY <1>1, <1>2, <1>3, <1>4, <1>5 DEF IInv

LEMMA NextIInv == IInv /\ [Next]_vars => IInv'
<1> SUFFICES ASSUME IInv, [Next]_vars PROVE IInv'
  OBVIOUS
<1> QED
  BY NextTypeOK, NextLockInv, NextTimerInv, NextActionInv, NextWakeInv
  DEF IInv

(* The inductive invariant holds in every reachable state. *)
THEOREM Invariance == Spec => []IInv
BY InitIInv, NextIInv, PTL DEF Spec

(* Every variable of the cluster, its lock, its timer and its threads keeps *)
(* its type; in particular the recursive lock is never entered more than    *)
(* twice and the only live timers are ones the object created.              *)
THEOREM TypeCorrect == Spec => []TypeOK
<1>1. IInv => TypeOK
  BY DEF IInv
<1> QED
  BY <1>1, Invariance, PTL

(* However pushes, resets and callbacks interleave, the cluster owns at     *)
(* most one timer and none when it is idle (stream4.cc:218-240).            *)
THEOREM AtMostOneTimer == Spec => []OneLiveTimer
<1>1. IInv => OneLiveTimer
  <2> SUFFICES ASSUME IInv, owner = Nobody, first PROVE live = {}
    BY DEF OneLiveTimer, IInv, TimerInv
  <2>1. \A c \in Clients : pc[c] # "append"
    BY ThreadAssumption DEF IInv, LockInv, InLock
  <2> QED
    BY <2>1 DEF IInv, TimerInv
<1> QED
  BY <1>1, Invariance, PTL

(* Items never wait without a timer that can still expire or a callback on  *)
(* its way: no wake-up is lost between a push, a reset and an expiry        *)
(* (stream4.cc:218-240).                                                    *)
THEOREM NoItemOrphaned == Spec => []NoOrphan
<1>1. IInv => NoOrphan
  <2> SUFFICES ASSUME IInv, owner = Nobody, items # <<>>
               PROVE  armed # {} \/ \E h \in Handles : pc[h] \in {"tick", "flush"}
    BY DEF NoOrphan
  <2>1. ~Clearing
    BY ThreadAssumption DEF Clearing
  <2>2. Wake
    BY <2>1 DEF IInv, WakeInv
  <2> QED
    BY <2>2 DEF Wake
<1> QED
  BY <1>1, Invariance, PTL

(* As long as no CreateTimerQueueTimer has failed, stop() never deletes a   *)
(* handle a second time (timer_w32.cc:28-35, 65-70).                        *)
THEOREM NoDoubleDelete == Spec => []DeletedOnce
<1>1. IInv => DeletedOnce
  BY DEF IInv, TimerInv, DeletedOnce
<1> QED
  BY <1>1, Invariance, PTL

-----------------------------------------------------------------------------
(* Late callbacks. *)

(* The callback of h has begun and has not yet cleared the cluster.         *)
Active(h) == pc[h] \in {"tick", "flush", "emit", "reset", "stop", "clear"}

(* While no client calls reset(), a callback at work is that of the current *)
(* timer, whose cluster has begun or begins with the push under way; and    *)
(* every batch so far was flushed by the timer of its own cluster.          *)
CurrentInv ==
  resets = 0 =>
    /\ \A c \in Clients : pc[c] \notin {"reset", "stop", "clear"}
    /\ \A h \in Handles : Active(h) =>
         h = timerHandle /\ (~first \/ \E c \in Clients : pc[c] = "append")
    /\ OwnTimerFlushes

(* A batch is flushed by the callback that is at work. *)
LEMMA EmitOwn ==
  ASSUME TypeOK, CurrentInv, OwnTimerFlushes, resets = 0, NEW h \in Handles, Emit(h)
  PROVE  OwnTimerFlushes'
<1> DEFINE b == [items |-> items, armed |-> timerHandle, by |-> h]
           Batches == [items : Seq(Nat), armed : Handles \cup {NoHandle}, by : Handles]
<1>1. h = timerHandle
  BY DEF CurrentInv, Active, Emit, Goto
<1>2. out \in Seq(Batches) /\ b \in Batches
  BY DEF TypeOK, HistoryTypeOK, TimerTypeOK
<1>3. b.by = b.armed
  BY <1>1
<1> HIDE DEF b, Batches
<1>4. CASE out' = out
  BY <1>4 DEF OwnTimerFlushes, Emit
<1>5. CASE out' = Append(out, b)
  <2>1. /\ DOMAIN out = 1 .. Len(out) /\ DOMAIN out' = 1 .. Len(out) + 1
        /\ \A i \in 1 .. Len(out) : out'[i] = out[i]
        /\ out'[Len(out) + 1] = b
    BY <1>2, <1>5, AppendProperties, LenProperties
  <2>2. Len(out) \in Nat
    BY <1>2, LenProperties
  <2>3. \A i \in DOMAIN out' : i \in DOMAIN out \/ i = Len(out) + 1
    BY <2>1, <2>2
  <2>4. \A i \in DOMAIN out' : out'[i].by = out'[i].armed
    BY <1>3, <2>1, <2>3 DEF OwnTimerFlushes
  <2> QED
    BY <2>4 DEF OwnTimerFlushes
<1> QED
  BY <1>4, <1>5 DEF Emit, b

(* A new timer comes only when no callback is at work, and a callback works *)
(* only for the timer that is remembered.                                   *)
LEMMA NextCurrentInv ==
  ASSUME TypeOK, LockInv, TimerInv, CurrentInv, [Next]_vars
  PROVE  CurrentInv'
<1> USE ThreadAssumption DEF LockInv, InLock, TimerInv, CurrentInv, Active, Goto, TypeOK, PCTypeOK,
        CounterTypeOK, TimerTypeOK
<1>1. ASSUME NEW c \in Clients, CallPush(c) PROVE CurrentInv'
  BY <1>1 DEF CallPush, OwnTimerFlushes
<1>2. ASSUME NEW c \in Clients, CallReset(c) PROVE CurrentInv'
  BY <1>2 DEF CallReset
<1>3. ASSUME NEW c \in Clients, EnterPush(c) PROVE CurrentInv'
  BY <1>3 DEF EnterPush, Lock, OwnTimerFlushes
<1>4. ASSUME NEW c \in Clients, Once(c) PROVE CurrentInv'
  BY <1>4 DEF Once, setAction, OwnTimerFlushes
<1>5. ASSUME NEW c \in Clients, Create(c) PROVE CurrentInv'
  BY <1>5 DEF Create, init, CreateTimerQueueTimer, OwnTimerFlushes
<1>6. ASSUME NEW c \in Clients, CreateThrows(c) PROVE CurrentInv'
  BY <1>6 DEF CreateThrows, Unlock, initThrows, OwnTimerFlushes
<1>7. ASSUME NEW c \in Clients, PushBack(c) PROVE CurrentInv'
  BY <1>7 DEF PushBack, Unlock, OwnTimerFlushes
<1>8. ASSUME NEW h \in Handles, Fire(h) PROVE CurrentInv'
  BY <1>8 DEF Fire, Expire, OwnTimerFlushes
<1>9. ASSUME NEW h \in Handles, Tick(h) PROVE CurrentInv'
  BY <1>9 DEF Tick, OwnTimerFlushes
<1>10. ASSUME NEW h \in Handles, EnterFlush(h) PROVE CurrentInv'
  BY <1>10 DEF EnterFlush, Lock, OwnTimerFlushes
<1>11. ASSUME NEW h \in Handles, Emit(h) PROVE CurrentInv'
  BY <1>11, EmitOwn DEF Emit
<1>12. ASSUME NEW h \in Handles, LeaveFlush(h) PROVE CurrentInv'
  BY <1>12 DEF LeaveFlush, Unlock, OwnTimerFlushes
<1>13. ASSUME NEW t \in Threads, EnterReset(t) PROVE CurrentInv'
  BY <1>13 DEF EnterReset, Lock, OwnTimerFlushes
<1>14. ASSUME NEW t \in Threads, Stop(t) PROVE CurrentInv'
  BY <1>14 DEF Stop, stop, DeleteTimerQueueTimer, OwnTimerFlushes
<1>15. ASSUME NEW t \in Threads, Clear(t) PROVE CurrentInv'
  BY <1>15 DEF Clear, Unlock, OwnTimerFlushes
<1>16. CASE UNCHANGED vars
  BY <1>16 DEF OwnTimerFlushes
<1> QED
  BY <1>1, <1>2, <1>3, <1>4, <1>5, <1>6, <1>7, <1>8, <1>9, <1>10, <1>11,
     <1>12, <1>13, <1>14, <1>15, <1>16
  DEF Next, PushStep, ResetStep, FlushStep, Quiescent

LEMMA CurrentInvariance == Spec => []CurrentInv
<1>1. Init => CurrentInv
  BY ThreadAssumption DEF Init, CurrentInv, Active, OwnTimerFlushes
<1>2. IInv /\ CurrentInv /\ [Next]_vars => CurrentInv'
  BY NextCurrentInv DEF IInv
<1> QED
  BY <1>1, <1>2, Invariance, PTL DEF Spec

(* Without a reset() no cluster is flushed by the callback of an earlier    *)
(* one, although stop() does not wait for callbacks (timer_w32.cc:65-70).   *)
THEOREM OwnTimerOnly == Spec => []OwnTimerFlushes
<1>1. CurrentInv => OwnTimerFlushes
  BY DEF CurrentInv, OwnTimerFlushes
<1> QED
  BY <1>1, CurrentInvariance, PTL

(* Without a reset() once() never assigns action_ while a callback reads it *)
(* outside the lock (timer_w32.cc:41-60).                                   *)
THEOREM NoActionRace == Spec => []ActionNotRaced
<1>1. IInv /\ CurrentInv => ActionNotRaced
  <2> SUFFICES ASSUME IInv, CurrentInv, resets = 0,
                      NEW c \in Clients, NEW h \in Handles, pc[c] = "once", pc[h] = "tick"
               PROVE  FALSE
    BY DEF ActionNotRaced
  <2>1. first
    BY DEF IInv, TimerInv
  <2>2. \A d \in Clients : pc[d] # "append"
    BY ThreadAssumption DEF IInv, LockInv, InLock
  <2> QED
    BY <2>1, <2>2 DEF CurrentInv, Active
<1> QED
  BY <1>1, Invariance, CurrentInvariance, PTL

-----------------------------------------------------------------------------
(* THE ITEMS.  The lock and the hand-over. *)

(* The callback that has handed items_ downstream is the owner of the lock, *)
(* so no other thread is at a point where it changes them.                  *)
LEMMA FlushingOwns ==
  ASSUME TypeOK, LockInv, NEW h \in Handles, Emitted(h)
  PROVE  owner = h
BY DEF LockInv, InLock, Emitted

LEMMA OthersNotFlushing ==
  ASSUME TypeOK, LockInv, NEW t \in Threads, InLock(t), ~(t \in Handles /\ Emitted(t))
  PROVE  ~Flushing
<1> SUFFICES ASSUME NEW h \in Handles, Emitted(h) PROVE FALSE
  BY DEF Flushing
<1>1. owner = h
  BY FlushingOwns
<1>2. owner = t
  BY DEF LockInv
<1> QED
  BY <1>1, <1>2

(* The steps that leave the items where they are: they neither change what  *)
(* is held and delivered nor the place of the hand-over.                    *)
Quiet ==
  UNCHANGED <<items, out, accepted, discarded>> /\ Flushing' = Flushing

(* A thread that moves between points that are not after the hand-over, or  *)
(* between two that are, does not begin or end one.                         *)
LEMMA GotoQuiet ==
  ASSUME TypeOK, NEW t \in Threads, NEW from, NEW to, Goto(t, from, to),
         \/ t \in Clients
         \/ from \notin {"reset", "stop", "clear"} /\ to \notin {"reset", "stop", "clear"}
         \/ from \in {"reset", "stop", "clear"} /\ to \in {"reset", "stop", "clear"}
  PROVE  Flushing' = Flushing
BY ThreadAssumption DEF TypeOK, PCTypeOK, Goto, Flushing, Emitted

(* The steps of a client and of a callback that are quiet.                  *)
LEMMA ClientQuiet ==
  ASSUME TypeOK, NEW c \in Clients,
         \/ CallPush(c) \/ CallReset(c) \/ EnterPush(c) \/ Once(c) \/ Create(c)
         \/ CreateThrows(c) \/ EnterReset(c) \/ Stop(c)
  PROVE  Quiet
<1>1. PICK from, to : Goto(c, from, to)
  BY DEF CallPush, CallReset, EnterPush, Once, Create, CreateThrows, EnterReset, Stop
<1>2. Flushing' = Flushing
  BY <1>1, GotoQuiet
<1>3. UNCHANGED <<items, out, accepted, discarded>>
  BY DEF CallPush, CallReset, EnterPush, Once, Create, CreateThrows, EnterReset, Stop
<1> QED
  BY <1>2, <1>3 DEF Quiet

LEMMA CallbackQuiet ==
  ASSUME TypeOK, NEW h \in Handles,
         Fire(h) \/ Tick(h) \/ EnterFlush(h) \/ EnterReset(h) \/ Stop(h) \/ LeaveFlush(h)
  PROVE  Quiet
<1>1. \/ Goto(h, "unused", "tick")
      \/ Goto(h, "tick", IF hasAction THEN "flush" ELSE "done")
      \/ Goto(h, "flush", "emit")
      \/ Goto(h, "reset", "stop")
      \/ Goto(h, "stop", "clear")
      \/ Goto(h, "leave", "done")
  BY DEF Fire, Tick, EnterFlush, EnterReset, Stop, LeaveFlush
<1>2. Flushing' = Flushing
  BY <1>1, GotoQuiet
<1>3. UNCHANGED <<items, out, accepted, discarded>>
  BY DEF Fire, Tick, EnterFlush, EnterReset, Stop, LeaveFlush
<1> QED
  BY <1>2, <1>3 DEF Quiet

(* Every step is one of these, or it takes, hands over or clears.           *)
LEMMA StepKinds ==
  ASSUME TypeOK, LockInv, [Next]_vars
  PROVE  \/ Quiet
         \/ \E c \in Clients : PushBack(c)
         \/ \E h \in Handles : Emit(h)
         \/ \E t \in Threads : Clear(t)
<1>1. CASE UNCHANGED vars
  BY <1>1 DEF Quiet, Flushing, Emitted
<1> QED
  BY <1>1, ClientQuiet, CallbackQuiet DEF Next, PushStep, ResetStep, FlushStep, Quiescent

(* How the three steps that matter move the hand-over. *)
LEMMA PushBackFlushing ==
  ASSUME TypeOK, LockInv, NEW c \in Clients, PushBack(c)
  PROVE  ~Flushing /\ ~Flushing'
<1>1. Goto(c, "append", "idle")
  BY DEF PushBack
<1>2. ~Flushing
  BY <1>1, OthersNotFlushing, ThreadAssumption DEF Goto, InLock
<1>3. Flushing' = Flushing
  BY <1>1, GotoQuiet
<1> QED
  BY <1>2, <1>3

LEMMA EmitFlushing ==
  ASSUME TypeOK, LockInv, NEW h \in Handles, Emit(h)
  PROVE  ~Flushing /\ Flushing'
<1>1. Goto(h, "emit", "reset")
  BY DEF Emit
<1>2. ~Flushing
  BY <1>1, OthersNotFlushing DEF Goto, InLock, Emitted
<1>3. pc'[h] = "reset"
  BY <1>1 DEF Goto, TypeOK, PCTypeOK
<1> QED
  BY <1>2, <1>3 DEF Flushing, Emitted

LEMMA ClearFlushing ==
  ASSUME TypeOK, LockInv, NEW t \in Threads, Clear(t)
  PROVE  ~Flushing' /\ (Flushing <=> t \in Handles)
<1>1. Goto(t, "clear", IF t \in Clients THEN "idle" ELSE "leave")
  BY DEF Clear
<1>2. InLock(t) /\ owner = t
  BY <1>1 DEF Goto, InLock, LockInv
<1>3. CASE t \in Clients
  <2>1. ~Flushing
    BY <1>2, <1>3, OthersNotFlushing, ThreadAssumption
  <2>2. Flushing' = Flushing
    BY <1>1, <1>3, GotoQuiet
  <2> QED
    BY <2>1, <2>2, <1>3, ThreadAssumption
<1>4. CASE t \in Handles
  <2>1. Flushing
    BY <1>1, <1>4 DEF Goto, Flushing, Emitted
  <2>2. ASSUME NEW h \in Handles PROVE ~Emitted(h)'
    <3>1. CASE h = t
      BY <1>1, <1>4, <3>1, ThreadAssumption DEF Goto, Emitted, TypeOK, PCTypeOK
    <3>2. CASE h # t
      <4>1. ~Emitted(h)
        BY <1>2, <3>2, FlushingOwns
      <4> QED
        BY <1>1, <3>2, <4>1 DEF Goto, Emitted, TypeOK, PCTypeOK
    <3> QED
      BY <3>1, <3>2
  <2> QED
    BY <1>4, <2>1, <2>2 DEF Flushing
<1> QED
  BY <1>3, <1>4

-----------------------------------------------------------------------------
(* No item is lost or doubled. *)

(* While a callback has handed the items downstream, all that is held has   *)
(* been delivered: what it will clear is not lost.                          *)
ItemsInv == EachItemOnce /\ (Flushing => Held \subseteq Delivered)

(* What a sequence holds when an element has been appended. *)
LEMMA RangeOfAppend ==
  ASSUME NEW S, NEW s \in Seq(S), NEW e \in S
  PROVE  {Append(s, e)[i] : i \in DOMAIN Append(s, e)} = {s[i] : i \in DOMAIN s} \cup {e}
<1>1. /\ DOMAIN Append(s, e) = 1 .. Len(s) + 1
      /\ \A i \in 1 .. Len(s) : Append(s, e)[i] = s[i]
      /\ Append(s, e)[Len(s) + 1] = e
  BY AppendProperties
<1>2. DOMAIN s = 1 .. Len(s) /\ Len(s) \in Nat
  BY LenProperties
<1>3. 1 .. Len(s) + 1 = (1 .. Len(s)) \cup {Len(s) + 1}
  BY <1>2
<1> QED
  BY <1>1, <1>2, <1>3

LEMMA AppendHeld ==
  ASSUME TypeOK, items' = Append(items, accepted + 1)
  PROVE  Held' = Held \cup {accepted + 1}
<1>1. items \in Seq(Nat) /\ accepted + 1 \in Nat
  BY DEF TypeOK, HistoryTypeOK
<1> QED
  BY <1>1, RangeOfAppend DEF Held

(* A push adds the next item to what is held. *)
LEMMA PushBackItems ==
  ASSUME TypeOK, NEW c \in Clients, PushBack(c)
  PROVE  /\ Held' = Held \cup {accepted + 1}
         /\ Delivered' = Delivered /\ discarded' = discarded /\ accepted' = accepted + 1
         /\ \A i : Batch(i)' = Batch(i)
<1>1. items \in Seq(Nat) /\ accepted + 1 \in Nat
  BY DEF TypeOK, HistoryTypeOK
<1>2. items' = Append(items, accepted + 1) /\ UNCHANGED <<out, discarded>> /\ accepted' = accepted + 1
  BY DEF PushBack
<1> QED
  BY <1>1, <1>2, RangeOfAppend DEF Held, Delivered, Batch

(* The hand-over makes what is held a batch of its own. *)
LEMMA EmitItems ==
  ASSUME TypeOK, NEW h \in Handles, Emit(h)
  PROVE  /\ Held' = Held /\ discarded' = discarded /\ accepted' = accepted
         /\ \/ items = <<>> /\ out' = out
            \/ /\ items # <<>>
               /\ Len(out) \in Nat
               /\ DOMAIN out = 1 .. Len(out) /\ DOMAIN out' = 1 .. Len(out) + 1
               /\ \A i \in DOMAIN out : out'[i] = out[i]
               /\ out'[Len(out) + 1].items = items
<1> DEFINE Batches == [items : Seq(Nat), armed : Handles \cup {NoHandle}, by : Handles]
           b == [items |-> items, armed |-> timerHandle, by |-> h]
<1>1. b \in Batches /\ out \in Seq(Batches)
  BY DEF TypeOK, TimerTypeOK, HistoryTypeOK
<1>2. UNCHANGED <<items, discarded, accepted>>
  BY DEF Emit
<1>3. CASE items = <<>>
  BY <1>2, <1>3 DEF Emit, Held
<1>4. CASE items # <<>>
  <2>1. out' = Append(out, b)
    BY <1>4 DEF Emit
  <2>2. /\ DOMAIN Append(out, b) = 1 .. Len(out) + 1
        /\ \A i \in 1 .. Len(out) : Append(out, b)[i] = out[i]
        /\ Append(out, b)[Len(out) + 1] = b
    BY <1>1, AppendProperties
  <2>3. DOMAIN out = 1 .. Len(out) /\ Len(out) \in Nat
    BY <1>1, LenProperties
  <2>4. Held' = Held
    BY <1>2 DEF Held
  <2>5. b.items = items
    OBVIOUS
  <2> HIDE DEF Batches, b
  <2>6. /\ DOMAIN out' = 1 .. Len(out) + 1
        /\ \A i \in DOMAIN out : out'[i] = out[i]
        /\ out'[Len(out) + 1].items = items
    BY <2>1, <2>2, <2>3, <2>5
  <2> QED
    BY <1>2, <1>4, <2>3, <2>4, <2>6
<1> QED
  BY <1>3, <1>4

(* What was held is one batch more, number n. *)
LEMMA EmitBatches ==
  ASSUME TypeOK, NEW h \in Handles, Emit(h), items # <<>>, NEW n, n = Len(out) + 1
  PROVE  /\ DOMAIN out' = DOMAIN out \cup {n} /\ n \notin DOMAIN out
         /\ \A i \in DOMAIN out : Batch(i)' = Batch(i)
         /\ Batch(n)' = Held
         /\ Delivered' = Delivered \cup Held
<1>1. /\ Len(out) \in Nat
      /\ DOMAIN out = 1 .. Len(out) /\ DOMAIN out' = 1 .. Len(out) + 1
      /\ \A i \in DOMAIN out : out'[i] = out[i]
      /\ out'[Len(out) + 1].items = items
  BY EmitItems
<1>2. \A i \in DOMAIN out : Batch(i)' = Batch(i)
  BY <1>1 DEF Batch
<1>3. Batch(n)' = Held
  BY <1>1 DEF Batch, Held
<1>4. DOMAIN out' = DOMAIN out \cup {n} /\ n \notin DOMAIN out
  BY <1>1
<1> QED
  BY <1>2, <1>3, <1>4 DEF Delivered

(* A reset drops what is held, and counts it as discarded if a client asked *)
(* for it.                                                                  *)
LEMMA ClearItems ==
  ASSUME NEW t \in Threads, Clear(t)
  PROVE  /\ items' = <<>> /\ Held' = {} /\ UNCHANGED <<out, accepted>>
         /\ Delivered' = Delivered /\ \A i : Batch(i)' = Batch(i)
         /\ discarded' = IF t \in Clients THEN discarded \cup Held ELSE discarded
<1>1. items' = <<>> /\ UNCHANGED <<out, accepted>>
  BY DEF Clear
<1>2. Held' = {}
  BY <1>1 DEF Held
<1> QED
  BY <1>1, <1>2 DEF Clear, Held, Delivered, Batch

(* Each of the steps keeps the items apart. *)
LEMMA NextItemsInv ==
  ASSUME TypeOK, LockInv, ItemsInv, [Next]_vars
  PROVE  ItemsInv'
<1>1. CASE Quiet
  <2>1. /\ Held' = Held /\ Delivered' = Delivered /\ \A i : Batch(i)' = Batch(i)
        /\ UNCHANGED <<out, accepted, discarded>> /\ Flushing' = Flushing
    BY <1>1 DEF Quiet, Held, Delivered, Batch
  <2> QED
    BY <2>1 DEF ItemsInv, EachItemOnce
<1>2. ASSUME NEW c \in Clients, PushBack(c) PROVE ItemsInv'
  <2>1. ~Flushing /\ ~Flushing'
    BY <1>2, PushBackFlushing
  <2>2. /\ Held' = Held \cup {accepted + 1}
        /\ Delivered' = Delivered /\ discarded' = discarded /\ accepted' = accepted + 1
        /\ \A i : Batch(i)' = Batch(i)
        /\ out' = out
    BY <1>2, PushBackItems DEF PushBack
  <2>3. accepted \in Nat
    BY DEF TypeOK, HistoryTypeOK
  <2>4. 1 .. accepted' = (1 .. accepted) \cup {accepted + 1} /\ accepted + 1 \notin 1 .. accepted
    BY <2>2, <2>3
  <2> QED
    BY <2>1, <2>2, <2>4 DEF ItemsInv, EachItemOnce
<1>3. ASSUME NEW h \in Handles, Emit(h) PROVE ItemsInv'
  <2>1. ~Flushing /\ Flushing'
    BY <1>3, EmitFlushing
  <2>2. Held' = Held /\ discarded' = discarded /\ accepted' = accepted
    BY <1>3, EmitItems
  <2>3. CASE items = <<>>
    <3>1. out' = out /\ Held = {}
      BY <1>3, <2>3, EmitItems DEF Held
    <3>2. Delivered' = Delivered /\ \A i : Batch(i)' = Batch(i)
      BY <3>1 DEF Delivered, Batch
    <3> QED
      BY <2>1, <2>2, <3>1, <3>2 DEF ItemsInv, EachItemOnce
  <2>4. CASE items # <<>>
    <3>1. PICK n : n = Len(out) + 1
      OBVIOUS
    <3>2. /\ DOMAIN out' = DOMAIN out \cup {n} /\ n \notin DOMAIN out
          /\ \A i \in DOMAIN out : Batch(i)' = Batch(i)
          /\ Batch(n)' = Held
          /\ Delivered' = Delivered \cup Held
      BY <1>3, <2>4, <3>1, EmitBatches
    <3>3. \A i \in DOMAIN out : Batch(i) \cap Held = {}
      BY <2>1 DEF ItemsInv, EachItemOnce, Delivered
    <3>4. (\A i, j \in DOMAIN out : i # j => Batch(i) \cap Batch(j) = {})'
      <4> SUFFICES ASSUME NEW i \in DOMAIN out', NEW j \in DOMAIN out', i # j
                   PROVE  Batch(i)' \cap Batch(j)' = {}
        OBVIOUS
      <4>1. CASE i \in DOMAIN out /\ j \in DOMAIN out
        BY <3>2, <4>1 DEF ItemsInv, EachItemOnce
      <4>2. CASE i = n \/ j = n
        BY <3>2, <3>3, <4>2
      <4> QED
        BY <3>2, <4>1, <4>2
    <3> QED
      BY <2>1, <2>2, <3>2, <3>4 DEF ItemsInv, EachItemOnce
  <2> QED
    BY <2>3, <2>4
<1>4. ASSUME NEW t \in Threads, Clear(t) PROVE ItemsInv'
  <2>1. ~Flushing' /\ (Flushing <=> t \in Handles)
    BY <1>4, ClearFlushing
  <2>2. /\ Held' = {} /\ UNCHANGED <<out, accepted>>
        /\ Delivered' = Delivered /\ \A i : Batch(i)' = Batch(i)
        /\ discarded' = IF t \in Clients THEN discarded \cup Held ELSE discarded
    BY <1>4, ClearItems
  <2> QED
    BY <2>1, <2>2, ThreadAssumption DEF ItemsInv, EachItemOnce
<1> QED
  BY <1>1, <1>2, <1>3, <1>4, StepKinds

(* However pushes, resets, failures and callbacks interleave, every item    *)
(* accepted is still held, or in exactly one batch, or was dropped by an    *)
(* explicit reset() (stream4.cc:218-240).                                   *)
THEOREM NoItemLostOrDoubled == Spec => []EachItemOnce
<1>1. Init => ItemsInv
  BY ThreadAssumption DEF Init, ItemsInv, EachItemOnce, Held, Delivered, Batch
<1>2. IInv /\ ItemsInv /\ [Next]_vars => ItemsInv'
  BY NextItemsInv DEF IInv
<1>3. ItemsInv => EachItemOnce
  BY DEF ItemsInv
<1> QED
  BY <1>1, <1>2, <1>3, Invariance, PTL DEF Spec

-----------------------------------------------------------------------------
(* The refinement: what ClusterSpec sees of a state of the cluster. *)

Seen == IF Flushing THEN <<>> ELSE items
Batches == [i \in DOMAIN out |-> out[i].items]

(* Two states that look the same. *)
LEMMA QuietIsStutter ==
  ASSUME Quiet
  PROVE  UNCHANGED <<Seen, Batches, accepted>>
<1>1. Seen' = Seen
  BY DEF Quiet, Seen
<1>2. Batches' = Batches
  BY DEF Quiet, Batches
<1> QED
  BY <1>1, <1>2 DEF Quiet

(* A batch appended to out is seen as its items appended to the batches. *)
LEMMA AppendBatch ==
  ASSUME TypeOK, NEW h \in Handles, Emit(h), items # <<>>
  PROVE  Batches' = Append(Batches, items)
<1>1. /\ Len(out) \in Nat
      /\ DOMAIN out = 1 .. Len(out) /\ DOMAIN out' = 1 .. Len(out) + 1
      /\ \A i \in DOMAIN out : out'[i] = out[i]
      /\ out'[Len(out) + 1].items = items
  BY EmitItems
<1>2. items \in Seq(Nat)
  BY DEF TypeOK
<1>3. \A i \in 1 .. Len(out) : out[i].items \in Seq(Nat)
  <2> DEFINE B == [items : Seq(Nat), armed : Handles \cup {NoHandle}, by : Handles]
  <2>1. \A b \in B : b.items \in Seq(Nat)
    OBVIOUS
  <2>2. out \in Seq(B)
    BY DEF TypeOK, HistoryTypeOK
  <2> HIDE DEF B
  <2>3. \A i \in 1 .. Len(out) : out[i] \in B
    BY <2>2, ElementOfSeq
  <2> QED
    BY <2>1, <2>3
<1>4. Batches \in Seq(Seq(Nat)) /\ Len(Batches) = Len(out)
  BY <1>1, <1>3, IsASeq DEF Batches
<1>5. /\ DOMAIN Append(Batches, items) = 1 .. Len(out) + 1
      /\ \A i \in 1 .. Len(out) : Append(Batches, items)[i] = Batches[i]
      /\ Append(Batches, items)[Len(out) + 1] = items
      /\ Append(Batches, items) \in Seq(Seq(Nat))
  BY <1>2, <1>4, AppendProperties
<1>6. Batches' = [i \in 1 .. Len(out) + 1 |-> out'[i].items]
  BY <1>1 DEF Batches
<1>7. \A i \in 1 .. Len(out) + 1 : out'[i].items = Append(Batches, items)[i]
  <2> TAKE i \in 1 .. Len(out) + 1
  <2>1. CASE i \in 1 .. Len(out)
    <3>1. out'[i].items = out[i].items
      BY <1>1, <2>1
    <3>2. Batches[i] = out[i].items
      BY <1>1, <2>1 DEF Batches
    <3> QED
      BY <1>5, <2>1, <3>1, <3>2
  <2>2. CASE i = Len(out) + 1
    BY <1>1, <1>5, <2>2
  <2>3. i \in 1 .. Len(out) \/ i = Len(out) + 1
    <3>1. Len(out) \in Nat
      BY <1>1
    <3> QED
      BY <3>1
  <2> QED
    BY <2>1, <2>2, <2>3
<1>8. Append(Batches, items) = [i \in 1 .. Len(out) + 1 |-> Append(Batches, items)[i]]
  <2>1. Append(Batches, items) \in [1 .. Len(Append(Batches, items)) -> Seq(Nat)]
    BY <1>5, LenProperties
  <2>2. 1 .. Len(Append(Batches, items)) = 1 .. Len(out) + 1
    BY <1>5, LenProperties
  <2> QED
    BY <2>1, <2>2
<1> QED
  BY <1>6, <1>7, <1>8

(* Every step of the cluster is a step of ClusterSpec or changes nothing    *)
(* that it sees.                                                            *)
LEMMA StepRefines ==
  ASSUME TypeOK, LockInv, [Next]_vars
  PROVE  [Abstract!AbsNext]_(Abstract!absVars)
<1> USE DEF Abstract!AbsNext, Abstract!absVars
<1>1. CASE Quiet
  BY <1>1, QuietIsStutter DEF Seen, Batches
<1>2. ASSUME NEW c \in Clients, PushBack(c) PROVE Abstract!Accept
  <2>1. Seen = items /\ Seen' = items' /\ Batches' = Batches
    BY <1>2, PushBackFlushing DEF Seen, Batches, PushBack
  <2> QED
    BY <1>2, <2>1 DEF PushBack, Abstract!Accept, Seen, Batches
<1>3. ASSUME NEW h \in Handles, Emit(h)
      PROVE  Abstract!Deliver \/ UNCHANGED Abstract!absVars
  <2>1. Seen = items /\ Seen' = <<>> /\ accepted' = accepted
    BY <1>3, EmitFlushing DEF Seen, Emit
  <2>2. CASE items = <<>>
    <3>1. Batches' = Batches
      BY <1>3, <2>2 DEF Emit, Batches
    <3> QED
      BY <2>1, <2>2, <3>1 DEF Seen, Batches
  <2>3. CASE items # <<>>
    <3>1. Batches' = Append(Batches, items)
      BY <1>3, <2>3, AppendBatch
    <3> QED
      BY <2>1, <2>3, <3>1 DEF Abstract!Deliver, Seen, Batches
  <2> QED
    BY <2>2, <2>3
<1>4. ASSUME NEW t \in Threads, Clear(t)
      PROVE  Abstract!Discard \/ UNCHANGED Abstract!absVars
  <2>1. /\ Seen' = <<>> /\ Batches' = Batches /\ accepted' = accepted
        /\ Seen = IF Flushing THEN <<>> ELSE items
    BY <1>4, ClearFlushing, ClearItems DEF Seen, Batches
  <2> QED
    BY <2>1 DEF Abstract!Discard, Seen, Batches
<1> QED
  BY <1>1, <1>2, <1>3, <1>4, StepKinds

(* The cluster with its lock, its timer and its threads implements          *)
(* ClusterSpec: all items accepted since the last batch leave together and  *)
(* in order, or by a reset (stream4.cc:218-240).                            *)
THEOREM ClusterImplementsSpec == Spec => ImplementsCluster
<1>1. Init => Abstract!AbsInit
  BY ThreadAssumption DEF Init, Abstract!AbsInit, Flushing, Emitted
<1>2. IInv /\ [Next]_vars => [Abstract!AbsNext]_(Abstract!absVars)
  BY StepRefines DEF IInv
<1> QED
  BY <1>1, <1>2, Invariance, PTL DEF Spec, ImplementsCluster, Abstract!AbsSpec

USE DEF chainVars, allVars

-----------------------------------------------------------------------------
(* THE CHAIN.  Its steps. *)

(* The steps in which the chain only watches its cluster. *)
Aside ==
  /\ Quiet \/ \E c \in Clients : PushBack(c)
  /\ UNCHANGED <<stage, stored, got, pushed, object>>

(* Every step of the chain is a step of the cluster, or one of two that     *)
(* only a chain has: the Action pushes, and the destruction.                *)
LEMMA ChainSteps ==
  ASSUME TypeOK, LockInv, [ChainNext]_allVars
  PROVE  \/ [Next]_vars /\ object # "destroyed" /\ object' # "destroyed"
         \/ object' = object /\ UNCHANGED vars
         \/ \E h \in Handles : PushFromAction(h) /\ object = "alive"
         \/ Destroy
<1>1. ASSUME object = "alive", NEW c \in Clients, ClientStep(c) \/ ClearBelow(c)
      PROVE  [Next]_vars /\ object' = object
  BY <1>1 DEF ClientStep, ClearBelow, Next, PushStep, ResetStep
<1>2. ASSUME object = "alive", NEW h \in Handles, FireInTime(h) \/ Flush(h)
      PROVE  [Next]_vars /\ object' = object
  BY <1>2 DEF FireInTime, Flush, CallbackStep, EmitBelow, ClearBelow, Next, FlushStep, ResetStep
<1>3. ASSUME NEW h \in Handles, ActionThrows(h)
      PROVE  [Next]_vars /\ object' = "terminated"
  BY <1>3 DEF ActionThrows
<1> QED
  BY <1>1, <1>2, <1>3 DEF ChainNext, Over

(* What the step means for the items and for the stage below. *)
LEMMA ChainKinds ==
  ASSUME TypeOK, LockInv, [ChainNext]_allVars
  PROVE  \/ Aside
         \/ Quiet /\ UNCHANGED <<stage, stored, got, pushed>>
         \/ \E h \in Handles : EmitBelow(h)
         \/ \E t \in Threads : ClearBelow(t)
         \/ \E h \in Handles : PushFromAction(h)
<1>1. ASSUME NEW c \in Clients, ClientStep(c) PROVE Aside
  BY <1>1, ClientQuiet DEF ClientStep, PushStep, Aside
<1>2. ASSUME NEW h \in Handles, CallbackStep(h) \/ FireInTime(h) PROVE Aside
  BY <1>2, CallbackQuiet DEF CallbackStep, FireInTime, Aside
<1>3. ASSUME NEW h \in Handles, ActionThrows(h)
      PROVE  Quiet /\ UNCHANGED <<stage, stored, got, pushed>>
  BY <1>3 DEF ActionThrows, Quiet, Flushing, Emitted
<1>4. ASSUME Destroy PROVE Quiet /\ UNCHANGED <<stage, stored, got, pushed>>
  BY <1>4 DEF Destroy, Quiet, Flushing, Emitted
<1>5. ASSUME UNCHANGED allVars PROVE Quiet /\ UNCHANGED <<stage, stored, got, pushed>>
  BY <1>5 DEF Quiet, Flushing, Emitted
<1> QED
  BY <1>1, <1>2, <1>3, <1>4, <1>5 DEF ChainNext, Over, Flush

-----------------------------------------------------------------------------
(* The cluster's own invariant, in the chain. *)

ClusterInv == TypeOK /\ LockInv /\ TimerInv

(* The cluster keeps it; a push by the Action changes the items alone, and  *)
(* the destruction stops the timer.                                         *)
LEMMA ChainClusterInv ==
  ASSUME ClusterInv, [ChainNext]_allVars
  PROVE  ClusterInv'
<1>1. ASSUME [Next]_vars PROVE ClusterInv'
  BY <1>1, NextTypeOK, NextLockInv, NextTimerInv DEF ClusterInv
<1>2. ASSUME NEW h \in Handles, PushFromAction(h) PROVE ClusterInv'
  <2>1. items' \in Seq(Nat) /\ accepted' \in Nat
    <3>1. items \in Seq(Nat) /\ accepted + 1 \in Nat
      BY DEF ClusterInv, TypeOK, HistoryTypeOK
    <3>2. items' = Append(items, accepted + 1) /\ accepted' = accepted + 1
      BY <1>2 DEF PushFromAction
    <3> QED
      BY <3>1, <3>2, AppendProperties
  <2>2. TypeOK'
    <3>1. LockTypeOK' /\ PCTypeOK' /\ TimerTypeOK' /\ CounterTypeOK'
      BY <1>2 DEF PushFromAction, ClusterInv, TypeOK, LockTypeOK, PCTypeOK, TimerTypeOK,
                  CounterTypeOK
    <3>2. HistoryTypeOK' /\ first' \in BOOLEAN
      BY <1>2, <2>1 DEF PushFromAction, ClusterInv, TypeOK, HistoryTypeOK
    <3> QED
      BY <2>1, <3>1, <3>2 DEF TypeOK
  <2>3. LockInv' /\ TimerInv'
    BY <1>2 DEF PushFromAction, ClusterInv, LockInv, InLock, TimerInv
  <2> QED
    BY <2>2, <2>3 DEF ClusterInv
<1>3. ASSUME Destroy PROVE ClusterInv'
  <2>1. TypeOK'
    BY <1>3 DEF Destroy, ClusterInv, TypeOK, LockTypeOK, PCTypeOK, HistoryTypeOK, CounterTypeOK,
                TimerTypeOK, stop, DeleteTimerQueueTimer
  <2>2. LockInv'
    BY <1>3 DEF Destroy, ClusterInv, LockInv, InLock
  <2>3. TimerInv'
    BY <1>3 DEF Destroy, ClusterInv, TimerInv, TypeOK, CounterTypeOK, TimerTypeOK, stop,
                DeleteTimerQueueTimer
  <2> QED
    BY <2>1, <2>2, <2>3 DEF ClusterInv
<1> QED
  BY <1>1, <1>2, <1>3, ChainSteps DEF ClusterInv

LEMMA ChainClusterInvariance == ChainSpec => []ClusterInv
<1>1. ChainInit => ClusterInv
  BY InitIInv DEF ChainInit, ClusterInv, IInv
<1>2. ClusterInv /\ [ChainNext]_allVars => ClusterInv'
  BY ChainClusterInv
<1> QED
  BY <1>1, <1>2, PTL DEF ChainSpec

-----------------------------------------------------------------------------
(* The end of the chain. *)

(* Whoever armed a timer, the destructor of the chain leaves none: the      *)
(* timer to stop is the only one (timer_w32.cc:65-72).                      *)
THEOREM QuietAtTheEnd == ChainSpec => []QuietWhenDestroyed
<1>1. ChainInit => QuietWhenDestroyed
  BY DEF ChainInit, QuietWhenDestroyed
<1>2. ClusterInv /\ QuietWhenDestroyed /\ [ChainNext]_allVars => QuietWhenDestroyed'
  <2> SUFFICES ASSUME ClusterInv, QuietWhenDestroyed, [ChainNext]_allVars
               PROVE  QuietWhenDestroyed'
    OBVIOUS
  <2>1. CASE Destroy
    BY <2>1 DEF Destroy, ClusterInv, TimerInv, TypeOK, TimerTypeOK, stop,
                DeleteTimerQueueTimer, QuietWhenDestroyed
  <2>2. CASE object' = object /\ UNCHANGED vars
    BY <2>2 DEF QuietWhenDestroyed
  <2>3. ASSUME NEW h \in Handles, PushFromAction(h) PROVE QuietWhenDestroyed'
    BY <2>3 DEF PushFromAction, QuietWhenDestroyed
  <2>4. CASE object' # "destroyed"
    BY <2>4 DEF QuietWhenDestroyed
  <2> QED
    BY <2>1, <2>2, <2>3, <2>4, ChainSteps DEF ClusterInv
<1> QED
  BY <1>1, <1>2, ChainClusterInvariance, PTL DEF ChainSpec

-----------------------------------------------------------------------------
(* What comes through the stage below. *)

StageTypeOK ==
  /\ stage \in Below
  /\ stored \in Seq(Seq(Nat)) /\ Len(stored) <= stage.size
  /\ got \in Seq(Seq(Seq(Nat)))

(* The stage below keeps something only from the hand-over of a batch until *)
(* the cluster clears itself and resets it.                                 *)
StageInv ==
  /\ StageTypeOK
  /\ stored # <<>> => Flushing
  /\ FlushForgets

(* So the batch that comes finds it empty, and is passed on alone or not at *)
(* all.                                                                     *)
LEMMA TakenAlone ==
  ASSUME StageInv, stored = <<>>, NEW batch \in Seq(Nat)
  PROVE  /\ Taken(batch) \in Seq(Seq(Nat)) /\ Len(Taken(batch)) = 1
         /\ Kept(Taken(batch)) \in Seq(Seq(Nat))
         /\ Len(Kept(Taken(batch))) <= stage.size
         /\ PassesOn(Taken(batch)) => (stage.kind = "buffer" => stage.size = 1)
<1>1. stage.kind \in {"action", "buffer", "window"} /\ stage.size \in Nat /\ stage.size >= 1
  BY BelowAssumption DEF StageInv, StageTypeOK
<1>2. Taken(batch) = Append(stored, batch)
  BY <1>1 DEF Taken
<1>3. Taken(batch) \in Seq(Seq(Nat)) /\ Len(Taken(batch)) = 1
  <2>1. stored \in Seq(Seq(Nat)) /\ Len(stored) = 0
    BY DEF StageInv, StageTypeOK
  <2> QED
    BY <1>2, <2>1, AppendProperties
<1>4. Kept(Taken(batch)) \in {<<>>, Taken(batch)}
  BY <1>1 DEF Kept
<1>5. <<>> \in Seq(Seq(Nat)) /\ Len(<<>>) = 0
  OBVIOUS
<1>6. Kept(Taken(batch)) \in Seq(Seq(Nat)) /\ Len(Kept(Taken(batch))) \in {0, 1}
  BY <1>3, <1>4, <1>5
<1>7. PassesOn(Taken(batch)) => (stage.kind = "buffer" => stage.size = 1)
  BY <1>3 DEF PassesOn
<1>8. Len(Kept(Taken(batch))) <= stage.size
  <2>1. \A n \in {0, 1} : \A m \in Nat : m >= 1 => n <= m
    OBVIOUS
  <2> QED
    BY <1>1, <1>6, <2>1, Zenon
<1> QED
  BY <1>3, <1>6, <1>7, <1>8

LEMMA NextStageInv ==
  ASSUME ClusterInv, StageInv, [ChainNext]_allVars
  PROVE  StageInv'
<1> USE DEF ClusterInv
<1>1. CASE Aside
  <2>1. Flushing' = Flushing
    <3>1. ASSUME NEW c \in Clients, PushBack(c) PROVE Flushing' = Flushing
      BY <3>1, PushBackFlushing DEF Flushing
    <3> QED
      BY <1>1, <3>1 DEF Aside, Quiet
  <2> QED
    BY <1>1, <2>1 DEF Aside, StageInv, StageTypeOK, FlushForgets
<1>2. CASE Quiet /\ UNCHANGED <<stage, stored, got, pushed>>
  BY <1>2 DEF Quiet, StageInv, StageTypeOK, FlushForgets
<1>3. ASSUME NEW h \in Handles, EmitBelow(h) PROVE StageInv'
  <2>1. ~Flushing /\ Flushing'
    BY <1>3, EmitFlushing DEF EmitBelow
  <2>2. stored = <<>> /\ stage' = stage
    BY <1>3, <2>1 DEF StageInv, EmitBelow
  <2>3. CASE items = <<>>
    BY <1>3, <2>1, <2>2, <2>3 DEF EmitBelow, StageInv, StageTypeOK, FlushForgets
  <2>4. CASE items # <<>>
    <3> DEFINE taken == Taken(items)
    <3>1. /\ taken \in Seq(Seq(Nat)) /\ Len(taken) = 1
          /\ Kept(taken) \in Seq(Seq(Nat)) /\ Len(Kept(taken)) <= stage.size
          /\ PassesOn(taken) => (stage.kind = "buffer" => stage.size = 1)
      BY <2>2, TakenAlone DEF TypeOK
    <3>2. /\ stored' = Kept(taken)
          /\ got' = IF PassesOn(taken) THEN Append(got, taken) ELSE got
      BY <1>3, <2>4 DEF EmitBelow
    <3> HIDE DEF taken
    <3>3. got \in Seq(Seq(Seq(Nat)))
      BY DEF StageInv, StageTypeOK
    <3>4. got' \in Seq(Seq(Seq(Nat)))
      BY <3>1, <3>2, <3>3, AppendProperties
    <3>5. FlushForgets'
      <4>1. CASE ~PassesOn(taken)
        BY <2>2, <3>2, <4>1 DEF StageInv, FlushForgets
      <4>2. CASE PassesOn(taken)
        <5>1. /\ DOMAIN got = 1 .. Len(got) /\ DOMAIN got' = 1 .. Len(got) + 1
              /\ Len(got) \in Nat
              /\ \A i \in 1 .. Len(got) : got'[i] = got[i]
              /\ got'[Len(got) + 1] = taken
          BY <3>1, <3>2, <3>3, <4>2, AppendProperties, LenProperties
        <5>2. \A i \in DOMAIN got' : i \in DOMAIN got \/ i = Len(got) + 1
          BY <5>1
        <5> QED
          BY <2>2, <3>1, <4>2, <5>1, <5>2 DEF StageInv, FlushForgets
      <4> QED
        BY <4>1, <4>2
    <3> QED
      BY <2>1, <2>2, <3>1, <3>2, <3>4, <3>5 DEF StageInv, StageTypeOK
  <2> QED
    BY <2>3, <2>4
<1>4. ASSUME NEW t \in Threads, ClearBelow(t) PROVE StageInv'
  <2>1. stored' = <<>> /\ UNCHANGED <<stage, got>>
    BY <1>4 DEF ClearBelow, resetBelow
  <2>2. stored' \in Seq(Seq(Nat)) /\ Len(stored') = 0
    BY <2>1
  <2>3. stage.size >= 0
    BY BelowAssumption DEF StageInv, StageTypeOK
  <2> QED
    BY <2>1, <2>2, <2>3 DEF StageInv, StageTypeOK, FlushForgets
<1>5. ASSUME NEW h \in Handles, PushFromAction(h) PROVE StageInv'
  <2>1. Flushing' = Flushing
    BY <1>5 DEF PushFromAction, Flushing, Emitted
  <2> QED
    BY <1>5, <2>1 DEF PushFromAction, StageInv, StageTypeOK, FlushForgets
<1> QED
  BY <1>1, <1>2, <1>3, <1>4, <1>5, ChainKinds

LEMMA StageInvariance == ChainSpec => []StageInv
<1>1. ChainInit => StageInv
  <2> SUFFICES ASSUME ChainInit PROVE StageInv
    OBVIOUS
  <2>1. stage.size >= 0
    BY BelowAssumption DEF ChainInit
  <2> QED
    BY <2>1 DEF ChainInit, StageInv, StageTypeOK, FlushForgets
<1>2. ClusterInv /\ StageInv /\ [ChainNext]_allVars => StageInv'
  BY NextStageInv
<1> QED
  BY <1>1, <1>2, ChainClusterInvariance, PTL DEF ChainSpec

(* Whatever stage is below, of whatever size, an Action receives at most    *)
(* one batch at a time and through a buffer of two or more nothing: every   *)
(* flush resets what is below (stream4.cc:227-240).                         *)
THEOREM NothingGathersBelow == ChainSpec => []FlushForgets
<1>1. StageInv => FlushForgets
  BY DEF StageInv
<1> QED
  BY <1>1, StageInvariance, PTL

(* The variables of the chain that are no part of the stage below. *)
RestTypeOK ==
  /\ onTop \in BOOLEAN /\ expires \in BOOLEAN /\ pushed \in SUBSET Nat
  /\ object \in {"alive", "destroyed", "terminated"}

LEMMA NextRestTypeOK ==
  ASSUME ClusterInv, RestTypeOK, [ChainNext]_allVars
  PROVE  RestTypeOK'
<1>1. ASSUME NEW h \in Handles, PushFromAction(h) PROVE RestTypeOK'
  <2>1. accepted + 1 \in Nat
    BY DEF ClusterInv, TypeOK, HistoryTypeOK
  <2> QED
    BY <1>1, <2>1 DEF PushFromAction, RestTypeOK
<1>2. ASSUME UNCHANGED <<onTop, expires, pushed>>,
             object' \in {object, "destroyed", "terminated"}
      PROVE  RestTypeOK'
  BY <1>2 DEF RestTypeOK
<1>3. ASSUME NEW c \in Clients, ClientStep(c) \/ ClearBelow(c) PROVE RestTypeOK'
  BY <1>2, <1>3 DEF ClientStep, ClearBelow
<1>4. ASSUME NEW h \in Handles, FireInTime(h) \/ Flush(h) \/ ActionThrows(h)
      PROVE  RestTypeOK'
  BY <1>2, <1>4 DEF FireInTime, Flush, CallbackStep, EmitBelow, ClearBelow, ActionThrows
<1>5. CASE Destroy \/ UNCHANGED allVars
  BY <1>2, <1>5 DEF Destroy
<1> QED
  BY <1>1, <1>3, <1>4, <1>5 DEF ChainNext, Over

(* Every variable of the chain keeps its type; in particular the stage      *)
(* below never holds more than its size (stream4.cc:99-182).                *)
THEOREM ChainTypeCorrect == ChainSpec => []ChainTypeOK
<1>1. ChainInit => RestTypeOK
  BY DEF ChainInit, RestTypeOK, Expiring
<1>2. ClusterInv /\ RestTypeOK /\ [ChainNext]_allVars => RestTypeOK'
  BY NextRestTypeOK
<1>3. ClusterInv /\ StageInv /\ RestTypeOK => ChainTypeOK
  BY DEF ClusterInv, StageInv, StageTypeOK, RestTypeOK, ChainTypeOK
<1> QED
  BY <1>1, <1>2, <1>3, ChainClusterInvariance, StageInvariance, PTL DEF ChainSpec

-----------------------------------------------------------------------------
(* The items the Action pushes. *)

(* What the Action pushes joins the items that are being flushed, and is    *)
(* cleared with them.                                                       *)
LossInv ==
  /\ LostIfPushedFromAction
  /\ Held \cap pushed # {} => Flushing
  /\ Flushing => Held \subseteq Delivered \cup pushed

LEMMA NextLossInv ==
  ASSUME ClusterInv, LossInv, [ChainNext]_allVars
  PROVE  LossInv'
<1> USE DEF ClusterInv
<1>0. /\ accepted \in Nat /\ accepted + 1 \in Nat
      /\ 1 .. accepted + 1 = (1 .. accepted) \cup {accepted + 1}
      /\ accepted + 1 \notin 1 .. accepted
  <2>1. accepted \in Nat
    BY DEF TypeOK, HistoryTypeOK
  <2> QED
    BY <2>1
<1>1. CASE Quiet /\ pushed' = pushed
  <2>1. /\ Held' = Held /\ Delivered' = Delivered
        /\ UNCHANGED <<accepted, discarded>> /\ Flushing' = Flushing
    BY <1>1 DEF Quiet, Held, Delivered, Batch
  <2> QED
    BY <1>1, <2>1 DEF LossInv, LostIfPushedFromAction
<1>2. ASSUME NEW c \in Clients, PushBack(c), pushed' = pushed PROVE LossInv'
  <2>1. ~Flushing /\ ~Flushing'
    BY <1>2, PushBackFlushing
  <2>2. /\ Held' = Held \cup {accepted + 1}
        /\ Delivered' = Delivered /\ discarded' = discarded /\ accepted' = accepted + 1
    BY <1>2, PushBackItems
  <2> QED
    BY <1>0, <1>2, <2>1, <2>2 DEF LossInv, LostIfPushedFromAction
<1>3. ASSUME NEW h \in Handles, EmitBelow(h) PROVE LossInv'
  <2>1. Emit(h) /\ pushed' = pushed
    BY <1>3 DEF EmitBelow
  <2>2. ~Flushing /\ Flushing'
    BY <2>1, EmitFlushing
  <2>3. Held' = Held /\ discarded' = discarded /\ accepted' = accepted
    BY <2>1, EmitItems
  <2>4. Delivered' = Delivered \cup Held
    <3>1. CASE items = <<>>
      BY <2>1, <3>1, EmitItems DEF Held, Delivered, Batch
    <3>2. CASE items # <<>>
      BY <2>1, <3>2, EmitBatches
    <3> QED
      BY <3>1, <3>2
  <2> QED
    BY <2>1, <2>2, <2>3, <2>4 DEF LossInv, LostIfPushedFromAction
<1>4. ASSUME NEW t \in Threads, ClearBelow(t) PROVE LossInv'
  <2>1. Clear(t) /\ pushed' = pushed
    BY <1>4 DEF ClearBelow
  <2>2. ~Flushing' /\ (Flushing <=> t \in Handles)
    BY <2>1, ClearFlushing
  <2>3. /\ Held' = {} /\ accepted' = accepted /\ Delivered' = Delivered
        /\ discarded' = IF t \in Clients THEN discarded \cup Held ELSE discarded
    BY <2>1, ClearItems
  <2> QED
    BY <2>1, <2>2, <2>3, ThreadAssumption DEF LossInv, LostIfPushedFromAction
<1>5. ASSUME NEW h \in Handles, PushFromAction(h) PROVE LossInv'
  <2>1. Flushing /\ Flushing' = Flushing
    BY <1>5 DEF PushFromAction, Received, Flushing, Emitted
  <2>2. /\ accepted' = accepted + 1 /\ items' = Append(items, accepted + 1)
        /\ pushed' = pushed \cup {accepted + 1} /\ UNCHANGED <<out, discarded>>
    BY <1>5 DEF PushFromAction
  <2>3. Held' = Held \cup {accepted + 1}
    BY <2>2, AppendHeld
  <2>4. Delivered' = Delivered
    BY <2>2 DEF Delivered, Batch
  <2> QED
    BY <1>0, <2>1, <2>2, <2>3, <2>4 DEF LossInv, LostIfPushedFromAction
<1> QED
  BY <1>1, <1>2, <1>3, <1>4, <1>5, ChainKinds DEF Aside

(* In a chain an item is lost in one way only: the Action pushed it into    *)
(* the cluster that was flushing, whose reset then clears it                *)
(* (stream4.cc:224-240).                                                    *)
THEOREM OnlyActionLosesItems == ChainSpec => []LostIfPushedFromAction
<1>1. ChainInit => LossInv
  BY ThreadAssumption DEF ChainInit, Init, LossInv, LostIfPushedFromAction, Held, Delivered, Batch
<1>2. ClusterInv /\ LossInv /\ [ChainNext]_allVars => LossInv'
  BY NextLossInv
<1>3. LossInv => LostIfPushedFromAction
  BY DEF LossInv
<1> QED
  BY <1>1, <1>2, <1>3, ChainClusterInvariance, PTL DEF ChainSpec


-----------------------------------------------------------------------------
(* THE OWNER.  A Timer in the hands of any owner, with state of its own     *)
(* besides that of the Timer.                                               *)

USE DEF ownerVars

(* While no creation has failed, a Timer that is not disposed holds a live  *)
(* handle: the one stop() will delete.                                      *)
OwnsHandle == failures = 0 => ~wrongDelete /\ (disposed \/ timerHandle \in live)

(* While no live timer has been replaced, there is no other live handle.    *)
OnlyHandle == ~overwrote => live \subseteq {timerHandle} /\ (disposed => live = {})

OwnerIInv == OwnerTypeOK /\ OwnsHandle /\ OnlyHandle

LEMMA OwnerStarts ==
  ASSUME OwnerInit
  PROVE  OwnerIInv
<1>1. OwnerTypeOK
  <2>1. TimerTypeOK
    BY DEF OwnerInit, TimerInit, TimerTypeOK
  <2>2. ownerPC \in {"idle", "init", "gone"} /\ periodic \in SUBSET Handles
    BY DEF OwnerInit
  <2>3. running \in [Handles -> 0 .. MaxRunning] /\ failures \in 0 .. MaxFailures
    BY BoundAssumption DEF OwnerInit, TimerInit
  <2>4. overwrote \in BOOLEAN
    BY DEF OwnerInit
  <2> QED
    BY <2>1, <2>2, <2>3, <2>4 DEF OwnerTypeOK
<1>2. OwnsHandle /\ OnlyHandle
  BY DEF OwnerInit, TimerInit, OwnsHandle, OnlyHandle
<1> QED
  BY <1>1, <1>2 DEF OwnerIInv

LEMMA OwnerTypes ==
  ASSUME OwnerTypeOK, [OwnerNext]_ownerVars
  PROVE  OwnerTypeOK'
<1> USE BoundAssumption DEF OwnerTypeOK, TimerTypeOK
<1>1. CASE CallStart
  BY <1>1 DEF CallStart, setAction
<1>2. ASSUME NEW h \in Handles, NEW repeats \in BOOLEAN, InitTimer(h, repeats)
      PROVE  OwnerTypeOK'
  <2>1. overwrote' \in BOOLEAN
    BY <1>2 DEF InitTimer
  <2>2. TimerTypeOK'
    BY <1>2 DEF InitTimer, init, CreateTimerQueueTimer
  <2>3. periodic' \in SUBSET Handles
    BY <1>2 DEF InitTimer
  <2> QED
    BY <1>2, <2>1, <2>2, <2>3 DEF InitTimer
<1>3. CASE InitThrows
  <2>1. failures' \in 0 .. MaxFailures
    BY <1>3 DEF InitThrows, initThrows
  <2>2. TimerTypeOK'
    BY <1>3 DEF InitThrows, initThrows
  <2> QED
    BY <1>3, <2>1, <2>2 DEF InitThrows
<1>4. CASE CallStop
  BY <1>4 DEF CallStop, stop, DeleteTimerQueueTimer
<1>5. CASE CallDestructor
  BY <1>5 DEF CallDestructor, stop, DeleteTimerQueueTimer
<1>6. ASSUME NEW h \in Handles, StartCallback(h)
      PROVE  OwnerTypeOK'
  <2>1. running[h] + 1 \in 0 .. MaxRunning
    BY <1>6 DEF StartCallback
  <2> QED
    BY <1>6, <2>1 DEF StartCallback, Expire
<1>7. ASSUME NEW h \in Handles, RunCallback(h)
      PROVE  OwnerTypeOK'
  <2>1. running[h] - 1 \in 0 .. MaxRunning
    BY <1>7 DEF RunCallback
  <2> QED
    BY <1>7, <2>1 DEF RunCallback
<1>8. CASE UNCHANGED ownerVars
  BY <1>8
<1> QED
  BY <1>1, <1>2, <1>3, <1>4, <1>5, <1>6, <1>7, <1>8 DEF OwnerNext, OwnerStep, OwnerOver

(* stop() deletes the handle that the object remembers: a live one unless a *)
(* creation has failed, and the only one unless one was overwritten.        *)
LEMMA StopHandles ==
  ASSUME OwnerIInv, stop, UNCHANGED <<failures, overwrote>>
  PROVE  (OwnsHandle /\ OnlyHandle)'
BY DEF OwnerIInv, OwnerTypeOK, TimerTypeOK, OwnsHandle, OnlyHandle, stop,
   DeleteTimerQueueTimer

LEMMA OwnerHandles ==
  ASSUME OwnerIInv, [OwnerNext]_ownerVars
  PROVE  (OwnsHandle /\ OnlyHandle)'
<1> USE DEF OwnerIInv, OwnsHandle, OnlyHandle, OwnerTypeOK, TimerTypeOK
<1>1. CASE CallStart
  BY <1>1 DEF CallStart, setAction
<1>2. ASSUME NEW h \in Handles, NEW repeats \in BOOLEAN, InitTimer(h, repeats)
      PROVE  (OwnsHandle /\ OnlyHandle)'
  BY <1>2 DEF InitTimer, init, CreateTimerQueueTimer
<1>3. CASE InitThrows
  <2>1. failures' # 0
    BY <1>3 DEF InitThrows, initThrows
  <2> QED
    BY <1>3, <2>1 DEF InitThrows, initThrows
<1>4. CASE CallStop
  BY <1>4, StopHandles DEF CallStop
<1>5. CASE CallDestructor
  BY <1>5, StopHandles DEF CallDestructor
<1>6. ASSUME NEW h \in Handles, StartCallback(h)
      PROVE  (OwnsHandle /\ OnlyHandle)'
  BY <1>6 DEF StartCallback, Expire
<1>7. ASSUME NEW h \in Handles, RunCallback(h)
      PROVE  (OwnsHandle /\ OnlyHandle)'
  BY <1>7 DEF RunCallback
<1>8. CASE UNCHANGED ownerVars
  BY <1>8
<1> QED
  BY <1>1, <1>2, <1>3, <1>4, <1>5, <1>6, <1>7, <1>8 DEF OwnerNext, OwnerStep, OwnerOver

(* The inductive invariant: the handle the object remembers is the one that *)
(* is live, as far as no failed creation and no overwritten handle (init()  *)
(* of timer_w32.cc) has parted them.                                        *)
THEOREM OwnerInvariance == OwnerSpec => []OwnerIInv
<1>1. OwnerIInv /\ [OwnerNext]_ownerVars => OwnerIInv'
  BY OwnerTypes, OwnerHandles DEF OwnerIInv
<1> QED
  BY <1>1, OwnerStarts, PTL DEF OwnerSpec

-----------------------------------------------------------------------------
(* The object keeps track of its only timer, and stop() and the destructor  *)
(* give it back once, unless start() replaced the handle of a live timer or *)
(* a creation failed with disposed_ already cleared.                        *)
THEOREM NoHandleLost == OwnerSpec => []HandleGivenBack
<1>1. OwnerIInv => HandleGivenBack
  BY BoundAssumption DEF OwnerIInv, OwnerTypeOK, OwnsHandle, OnlyHandle, HandleGivenBack
<1> QED
  BY <1>1, OwnerInvariance, PTL

(* stop() does not wait for callbacks, but it lets no further one start: no *)
(* timer of a disposed object is armed.                                     *)
THEOREM NoLateStart == OwnerSpec => QuietAfterStop
<1> DEFINE NoneStarts == disposed /\ ~overwrote => \A h \in Handles : running'[h] <= running[h]
<1>1. ASSUME OwnerIInv, [OwnerNext]_ownerVars, disposed, ~overwrote, NEW h \in Handles
      PROVE  running'[h] <= running[h]
  <2> USE <1>1 DEF OwnerIInv, OwnerTypeOK, TimerTypeOK
  <2>1. armed = {} /\ running[h] \in Nat
    BY BoundAssumption DEF OnlyHandle
  <2>2. ASSUME NEW k \in Handles
        PROVE  ~StartCallback(k)
    BY <2>1 DEF StartCallback, Expire
  <2>3. ASSUME NEW k \in Handles, RunCallback(k)
        PROVE  running'[h] <= running[h]
    <3>1. running'[h] = IF h = k THEN running[h] - 1 ELSE running[h]
      BY <2>3 DEF RunCallback
    <3> QED
      BY <2>1, <3>1
  <2>4. CASE UNCHANGED running
    BY <2>1, <2>4
  <2> QED
    BY <2>2, <2>3, <2>4 DEF OwnerNext, OwnerStep, OwnerOver, CallStart,
       InitTimer, InitThrows, CallStop, CallDestructor
<1>2. OwnerIInv /\ [OwnerNext]_ownerVars => [NoneStarts]_ownerVars
  BY <1>1
<1> QED
  BY <1>2, OwnerInvariance, PTL DEF OwnerSpec, QuietAfterStop

-----------------------------------------------------------------------------
(* The cluster as an owner.  Its threads call the one Timer from operator() *)
(* and from reset(), and callbacks run at the same time; its clients are    *)
(* inside once() between the assignment of action_ and init(), and the      *)
(* destruction of the chain is that of the Timer.                           *)

Creating == \E c \in Clients : pc[c] = "create"
Begun(h) == pc[h] \notin {"unused", "done"}
UsedPC == IF object = "destroyed" THEN "gone" ELSE IF Creating THEN "init" ELSE "idle"
Callbacks == [h \in Handles |-> IF Begun(h) THEN 1 ELSE 0]

Used == INSTANCE TimerOwner WITH
  ownerPC <- UsedPC, periodic <- {}, running <- Callbacks, overwrote <- FALSE,
  MaxRunning <- 1

(* A thread moves on and is neither at the creation nor a callback that     *)
(* begins or returns.                                                       *)
LEMMA GotoAside ==
  ASSUME TypeOK, NEW t \in Threads, NEW from, NEW to, Goto(t, from, to),
         t \in Clients => from # "create" /\ to # "create",
         t \in Handles => from \notin {"unused", "done"} /\ to \notin {"unused", "done"}
  PROVE  Creating' = Creating /\ Callbacks' = Callbacks
<1>1. /\ pc' = [pc EXCEPT ![t] = to] /\ pc \in [Threads -> ClientPC \cup CallbackPC]
      /\ pc[t] = from
  BY DEF Goto, TypeOK, PCTypeOK
<1>2. Creating' = Creating
  BY <1>1, ThreadAssumption DEF Creating
<1>3. ASSUME NEW h \in Handles PROVE Begun(h)' = Begun(h)
  BY <1>1, ThreadAssumption DEF Begun
<1> QED
  BY <1>2, <1>3 DEF Callbacks

(* The owner does nothing in these steps. *)
UsedAside ==
  /\ Creating' = Creating /\ Callbacks' = Callbacks
  /\ UNCHANGED timerVars /\ failures' = failures

LEMMA ClientAside ==
  ASSUME TypeOK, NEW c \in Clients,
         CallPush(c) \/ CallReset(c) \/ EnterPush(c) \/ PushBack(c) \/ EnterReset(c) \/ Clear(c)
  PROVE  UsedAside
<1>1. \E from, to : Goto(c, from, to) /\ from # "create" /\ to # "create"
  BY DEF CallPush, CallReset, EnterPush, PushBack, EnterReset, Clear
<1>2. Creating' = Creating /\ Callbacks' = Callbacks
  BY <1>1, GotoAside, ThreadAssumption
<1> QED
  BY <1>2 DEF UsedAside, CallPush, CallReset, EnterPush, PushBack, EnterReset, Clear

LEMMA CallbackAside ==
  ASSUME TypeOK, NEW h \in Handles,
         (Tick(h) /\ hasAction) \/ EnterFlush(h) \/ Emit(h) \/ EnterReset(h) \/ Clear(h)
  PROVE  UsedAside
<1>1. \E from, to : /\ Goto(h, from, to)
                    /\ from \notin {"unused", "done"} /\ to \notin {"unused", "done"}
  BY ThreadAssumption DEF Tick, EnterFlush, Emit, EnterReset, Clear
<1>2. Creating' = Creating /\ Callbacks' = Callbacks
  BY <1>1, GotoAside, ThreadAssumption
<1> QED
  BY <1>2 DEF UsedAside, Tick, EnterFlush, Emit, EnterReset, Clear

(* Nobody else is inside once() while a thread has the lock.                *)
LEMMA NoneCreates ==
  ASSUME LockInv, NEW t \in Threads, InLock(t), pc[t] # "create"
  PROVE  ~Creating
BY DEF LockInv, InLock, Creating

LEMMA PushUsed ==
  ASSUME ClusterInv, object = "alive", object' = "alive", NEW c \in Clients, PushStep(c)
  PROVE  [Used!OwnerNext]_(Used!ownerVars)
<1>0. TypeOK /\ pc \in [Threads -> ClientPC \cup CallbackPC]
  BY DEF ClusterInv, TypeOK, PCTypeOK
<1>1. CASE EnterPush(c) \/ PushBack(c)
  <2>1. UsedAside
    BY <1>0, <1>1, ClientAside
  <2> QED
    BY <2>1 DEF UsedAside, Used!ownerVars, Used!timerVars, UsedPC
<1>2. CASE Once(c)
  <2>1. InLock(c) /\ pc[c] # "create" /\ pc' = [pc EXCEPT ![c] = "create"]
    BY <1>2 DEF Once, Goto, InLock
  <2>2. ~Creating /\ Creating'
    BY <1>0, <2>1, NoneCreates DEF ClusterInv, Creating
  <2>3. Callbacks' = Callbacks
    BY <1>0, <2>1, ThreadAssumption DEF Callbacks, Begun
  <2>4. UsedPC = "idle" /\ UsedPC' = "init"
    BY <2>2 DEF UsedPC
  <2>5. Used!CallStart
    BY <1>2, <2>3, <2>4 DEF Once, setAction, Used!CallStart, Used!setAction, counters
  <2> QED
    BY <2>5 DEF Used!OwnerNext, Used!OwnerStep
<1>3. ASSUME Create(c) \/ CreateThrows(c)
      PROVE  UsedPC = "init" /\ UsedPC' = "idle" /\ Callbacks' = Callbacks
  <2>1. PICK to \in {"append", "idle"} : pc[c] = "create" /\ pc' = [pc EXCEPT ![c] = to]
    BY <1>3 DEF Create, CreateThrows, Goto
  <2>2. \A k \in Clients : k # c => pc[k] # "create"
    BY <2>1 DEF ClusterInv, LockInv, InLock
  <2>3. Creating /\ ~Creating'
    BY <1>0, <2>1, <2>2 DEF Creating
  <2>4. Callbacks' = Callbacks
    BY <1>0, <2>1, ThreadAssumption DEF Callbacks, Begun
  <2> QED
    BY <2>3, <2>4 DEF UsedPC
<1>4. CASE Create(c)
  <2>1. PICK h \in Handles : init(h)
    BY <1>4 DEF Create
  <2>2. timerHandle \notin live
    BY <1>4 DEF Create, Goto, ClusterInv, TimerInv
  <2>3. Used!InitTimer(h, FALSE)
    BY <1>3, <1>4, <2>1, <2>2 DEF Create, counters, init, CreateTimerQueueTimer,
       Used!InitTimer, Used!init, Used!CreateTimerQueueTimer
  <2> QED
    BY <2>3 DEF Used!OwnerNext, Used!OwnerStep
<1>5. CASE CreateThrows(c)
  <2>1. Used!InitThrows
    BY <1>3, <1>5 DEF CreateThrows, initThrows, Used!InitThrows, Used!initThrows
  <2> QED
    BY <2>1 DEF Used!OwnerNext, Used!OwnerStep
<1> QED
  BY <1>1, <1>2, <1>4, <1>5 DEF PushStep

(* reset(), by a client or by a callback, stops the Timer between two calls *)
(* of its owner.                                                            *)
LEMMA StopUsed ==
  ASSUME ClusterInv, object = "alive", object' = "alive", NEW t \in Threads, Stop(t)
  PROVE  [Used!OwnerNext]_(Used!ownerVars)
<1>1. InLock(t) /\ pc[t] # "create" /\ Goto(t, "stop", "clear")
  BY DEF Stop, Goto, InLock
<1>2. ~Creating
  BY <1>1, NoneCreates DEF ClusterInv
<1>3. Creating' = Creating /\ Callbacks' = Callbacks
  BY <1>1, GotoAside DEF ClusterInv
<1>4. UsedPC = "idle" /\ UsedPC' = "idle"
  BY <1>2, <1>3 DEF UsedPC
<1>5. Used!CallStop
  BY <1>3, <1>4 DEF Stop, counters, stop, DeleteTimerQueueTimer, Used!CallStop, Used!stop,
     Used!DeleteTimerQueueTimer, Used!timerVars
<1> QED
  BY <1>5 DEF Used!OwnerNext, Used!OwnerStep

LEMMA FireUsed ==
  ASSUME ClusterInv, object = "alive", object' = "alive", NEW h \in Handles, Fire(h)
  PROVE  [Used!OwnerNext]_(Used!ownerVars)
<1>1. /\ pc \in [Threads -> ClientPC \cup CallbackPC] /\ h \notin Clients
      /\ pc[h] = "unused" /\ pc' = [pc EXCEPT ![h] = "tick"]
  BY ThreadAssumption DEF ClusterInv, TypeOK, PCTypeOK, Fire, Goto
<1>2. Creating' = Creating
  BY <1>1 DEF Creating
<1>3. Callbacks[h] = 0 /\ Callbacks' = [Callbacks EXCEPT ![h] = 1]
  BY <1>1 DEF Callbacks, Begun
<1>4. Used!StartCallback(h)
  BY <1>2, <1>3 DEF Fire, counters, Expire, Used!StartCallback, Used!Expire, UsedPC
<1> QED
  BY <1>4 DEF Used!OwnerNext

LEMMA ReturnUsed ==
  ASSUME ClusterInv, object = "alive", object' = "alive", NEW h \in Handles,
         (Tick(h) /\ ~hasAction) \/ LeaveFlush(h)
  PROVE  [Used!OwnerNext]_(Used!ownerVars)
<1>1. /\ pc \in [Threads -> ClientPC \cup CallbackPC] /\ h \notin Clients
      /\ pc[h] \in {"tick", "leave"} /\ pc' = [pc EXCEPT ![h] = "done"]
  BY ThreadAssumption DEF ClusterInv, TypeOK, PCTypeOK, Tick, LeaveFlush, Goto
<1>2. Creating' = Creating
  BY <1>1 DEF Creating
<1>3. Callbacks[h] = 1 /\ Callbacks' = [Callbacks EXCEPT ![h] = 0]
  BY <1>1 DEF Callbacks, Begun
<1>4. Used!RunCallback(h)
  BY <1>2, <1>3 DEF Tick, LeaveFlush, counters, Used!RunCallback, Used!timerVars, UsedPC
<1> QED
  BY <1>4 DEF Used!OwnerNext

(* A TimeCluster, in whatever chain, is an owner its Timer can rely on: it  *)
(* never calls once() or stop() inside another call, it overwrites no live  *)
(* handle, and it is destroyed between two calls (stream4.cc:206-240).      *)
THEOREM ClusterOwnsTimer == ChainSpec => Used!OwnerSpec
<1>1. ASSUME ChainInit PROVE Used!OwnerInit
  <2>1. ~Creating /\ \A h \in Handles : ~Begun(h)
    BY <1>1, ThreadAssumption DEF ChainInit, Init, Creating, Begun
  <2>2. UsedPC = "idle" /\ Callbacks = [h \in Handles |-> 0]
    BY <1>1, <2>1 DEF ChainInit, UsedPC, Callbacks
  <2> QED
    BY <1>1, <2>2 DEF ChainInit, Init, TimerInit, Used!OwnerInit, Used!TimerInit
<1>2. ASSUME ClusterInv, [ChainNext]_allVars PROVE [Used!OwnerNext]_(Used!ownerVars)
  <2>0. TypeOK
    BY <1>2 DEF ClusterInv
  <2>1. ASSUME UsedAside, (object' = "destroyed") <=> (object = "destroyed")
        PROVE  UNCHANGED Used!ownerVars
    BY <2>1 DEF UsedAside, Used!ownerVars, Used!timerVars, UsedPC
  <2>2. ASSUME object = "alive", NEW c \in Clients, ClientStep(c) \/ ClearBelow(c)
        PROVE  [Used!OwnerNext]_(Used!ownerVars)
    <3>1. object' = "alive"
      BY <2>2 DEF ClientStep, ClearBelow, chainVars
    <3>2. CASE CallPush(c) \/ CallReset(c) \/ EnterReset(c) \/ Clear(c)
      BY <1>2, <2>0, <2>1, <2>2, <3>1, <3>2, ClientAside
    <3>3. CASE PushStep(c)
      BY <1>2, <2>2, <3>1, <3>3, PushUsed
    <3>4. CASE Stop(c)
      BY <1>2, <2>2, <3>1, <3>4, StopUsed
    <3> QED
      BY <2>2, <3>2, <3>3, <3>4 DEF ClientStep, ClearBelow
  <2>3. ASSUME object = "alive", NEW h \in Handles, FireInTime(h) \/ Flush(h)
        PROVE  [Used!OwnerNext]_(Used!ownerVars)
    <3>1. object' = "alive"
      BY <2>3 DEF FireInTime, Flush, CallbackStep, EmitBelow, ClearBelow, chainVars
    <3>2. CASE Fire(h)
      BY <1>2, <2>3, <3>1, <3>2, FireUsed
    <3>3. CASE (Tick(h) /\ hasAction) \/ EnterFlush(h) \/ Emit(h) \/ EnterReset(h) \/ Clear(h)
      BY <1>2, <2>0, <2>1, <2>3, <3>1, <3>3, CallbackAside
    <3>4. CASE Stop(h)
      BY <1>2, <2>3, <3>1, <3>4, StopUsed
    <3>5. CASE (Tick(h) /\ ~hasAction) \/ LeaveFlush(h)
      BY <1>2, <2>3, <3>1, <3>5, ReturnUsed
    <3> QED
      BY <2>3, <3>2, <3>3, <3>4, <3>5 DEF FireInTime, Flush, CallbackStep, EmitBelow, ClearBelow
  <2>4. ASSUME object = "alive", NEW h \in Handles, ActionThrows(h) \/ PushFromAction(h)
        PROVE  [Used!OwnerNext]_(Used!ownerVars)
    <3>1. pc' = pc /\ object' # "destroyed" /\ UNCHANGED timerVars /\ failures' = failures
      BY <2>4 DEF ActionThrows, PushFromAction, counters
    <3>2. UsedAside
      BY <3>1 DEF UsedAside, Creating, Callbacks, Begun
    <3> QED
      BY <2>1, <2>4, <3>1, <3>2
  <2>5. ASSUME object = "alive", Destroy PROVE [Used!OwnerNext]_(Used!ownerVars)
    <3>1. pc' = pc /\ ~Creating /\ object' = "destroyed"
      BY <2>5 DEF Destroy, Creating
    <3>2. UsedPC = "idle" /\ UsedPC' = "gone" /\ Callbacks' = Callbacks
      BY <2>5, <3>1 DEF UsedPC, Callbacks, Begun
    <3>3. Used!CallDestructor
      BY <2>5, <3>2 DEF Destroy, counters, stop, DeleteTimerQueueTimer, Used!CallDestructor,
         Used!stop, Used!DeleteTimerQueueTimer, Used!timerVars
    <3> QED
      BY <3>3 DEF Used!OwnerNext, Used!OwnerStep
  <2>6. ASSUME UNCHANGED allVars PROVE [Used!OwnerNext]_(Used!ownerVars)
    <3>1. pc' = pc /\ object' = object /\ UNCHANGED timerVars /\ failures' = failures
      BY <2>6 DEF allVars, chainVars, counters
    <3>2. UsedAside
      BY <3>1 DEF UsedAside, Creating, Callbacks, Begun
    <3> QED
      BY <2>1, <3>1, <3>2
  <2> QED
    BY <1>2, <2>2, <2>3, <2>4, <2>5, <2>6 DEF ChainNext, Over
<1> QED
  BY <1>1, <1>2, ChainClusterInvariance, PTL DEF ChainSpec, Used!OwnerSpec

=============================================================================
