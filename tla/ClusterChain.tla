---------------------------- MODULE ClusterChain ----------------------------
(***************************************************************************)
(* A TimeCluster as a link of a chain of stream4.cc: built by operator>>   *)
(* below another stage or on top of the chain, with a Buffer, a Window or  *)
(* an Action below it, and destroyed with the chain at the end.  What is   *)
(* below runs inside the callback, under the recursive mutex, so a flush   *)
(* is one step here; but the Action may throw, which nobody catches, or    *)
(* push an item into the very cluster that is flushing.                    *)
(***************************************************************************)
EXTENDS TimeCluster, SequencesExt

CONSTANTS
  Below,      \* the stages that can be below: records of kind and size
  MaxPushed   \* bound: items the Action pushes back

ASSUME BelowAssumption ==
  Below \subseteq [kind : {"action", "buffer", "window"}, size : Nat \ {0}]

VARIABLES
  onTop,    \* the cluster is the first stage of the chain
  expires,  \* milliseconds_ is what time_cluster() was given, or by chance as short
  stage,    \* the stage below, and
  stored,   \*   its items_, each a batch of the cluster
  got,      \* history: what the Action received, as sequences of batches
  pushed,   \* history: the items the Action pushed into the cluster
  object    \* "alive", "destroyed", or "terminated" with the process

chainVars == <<onTop, expires, stage, stored, got, pushed, object>>
allVars == <<vars, chainVars>>

ChainTypeOK ==
  /\ TypeOK
  /\ onTop \in BOOLEAN /\ expires \in BOOLEAN /\ stage \in Below
  /\ stored \in Seq(Seq(Nat)) /\ Len(stored) <= stage.size
  /\ got \in Seq(Seq(Seq(Nat))) /\ pushed \in SUBSET Nat
  /\ object \in {"alive", "destroyed", "terminated"}

(* Mutant: the stage on top is moved as well. *)
Expiring_AlwaysMoved == BOOLEAN

(* operator>> builds from the bottom and moves what it has built into the   *)
(* stage above; the move constructor of TimeCluster leaves milliseconds_    *)
(* uninitialised.                                                           *)
Expiring == IF onTop THEN {TRUE} ELSE BOOLEAN

ChainInit ==
  /\ Init
  /\ onTop \in BOOLEAN /\ expires \in Expiring
  /\ stage \in Below
  /\ stored = <<>> /\ got = <<>> /\ pushed = {}
  /\ object = "alive"

-----------------------------------------------------------------------------
(* The stage below. *)

(* The items_ of the stage when a batch has come, and whether these are     *)
(* passed on to the Action.                                                 *)
Taken(batch) ==
  Append(IF stage.kind = "window" /\ Len(stored) = stage.size THEN Tail(stored) ELSE stored,
         batch)

PassesOn(taken) == stage.kind = "buffer" => Len(taken) = stage.size

Kept(taken) ==
  CASE stage.kind = "action" -> <<>>
    [] stage.kind = "window" -> taken
    [] OTHER                 -> IF PassesOn(taken) THEN <<>> ELSE taken

(* Mutant: the reset stops at the cluster. *)
resetBelow_Nothing == UNCHANGED stored

(* action_.reset() *)
resetBelow == stored' = <<>>

-----------------------------------------------------------------------------
(* The steps of the cluster in the chain. *)

(* action_(items_) *)
EmitBelow(h) ==
  /\ Emit(h)
  /\ IF items = <<>> THEN UNCHANGED <<stored, got>>
     ELSE LET taken == Taken(items)
          IN  /\ stored' = Kept(taken)
              /\ got' = IF PassesOn(taken) THEN Append(got, taken) ELSE got
  /\ UNCHANGED <<onTop, expires, stage, pushed, object>>

(* The Action throws: the exception leaves timer_tick(), which the timer    *)
(* queue called, and ends the process.                                      *)
ActionThrows(h) ==
  /\ pc[h] = "emit" /\ items # <<>> /\ PassesOn(Taken(items))
  /\ object' = "terminated"
  /\ UNCHANGED <<vars, onTop, expires, stage, stored, got, pushed>>

(* The Action has received the batch that the callback h flushes. *)
Received(h) ==
  /\ pc[h] = "reset"
  /\ out # <<>> /\ Last(out).by = h
  /\ got # <<>> /\ Last(Last(got)) = Last(out).items

(* Before it returns, the Action calls operator() of the cluster.  It runs  *)
(* on the thread that holds the mutex, and first_ is false, so that no      *)
(* timer is armed; the item joins items_, of which the Action has a copy.   *)
PushFromAction(h) ==
  /\ Received(h) /\ Cardinality(pushed) < MaxPushed
  /\ accepted' = accepted + 1
  /\ items' = Append(items, accepted + 1)
  /\ pushed' = pushed \cup {accepted + 1}
  /\ UNCHANGED <<first, owner, depth, timerVars, pc, out, discarded, counters>>
  /\ UNCHANGED <<onTop, expires, stage, stored, got, object>>

ClearBelow(t) ==
  /\ Clear(t)
  /\ resetBelow
  /\ UNCHANGED <<onTop, expires, stage, got, pushed, object>>

(* What the stages around it have no part in. *)
ClientStep(c) ==
  /\ CallPush(c) \/ CallReset(c) \/ PushStep(c) \/ EnterReset(c) \/ Stop(c)
  /\ UNCHANGED chainVars

CallbackStep(h) ==
  /\ Tick(h) \/ EnterFlush(h) \/ EnterReset(h) \/ Stop(h) \/ LeaveFlush(h)
  /\ UNCHANGED chainVars

FireInTime(h) == expires /\ Fire(h) /\ UNCHANGED chainVars

(* The chain goes when no client is inside a call: of the cluster's members *)
(* only the Timer does something, it stops.  A callback is not waited for.  *)
Destroy ==
  /\ \A c \in Clients : pc[c] = "idle"
  /\ stop
  /\ object' = "destroyed"
  /\ UNCHANGED <<items, first, owner, depth, pc, history, counters>>
  /\ UNCHANGED <<onTop, expires, stage, stored, got, pushed>>

-----------------------------------------------------------------------------
ClientStepInCall(c) == pc[c] # "idle" /\ (ClientStep(c) \/ ClearBelow(c))
Flush(h) == CallbackStep(h) \/ EmitBelow(h) \/ ClearBelow(h)

(* After the destruction a callback that goes on, and after the termination *)
(* nothing, is no longer part of the model.                                 *)
Over == object # "alive" /\ UNCHANGED allVars

ChainNext ==
  \/ /\ object = "alive"
     /\ \/ \E c \in Clients : ClientStep(c) \/ ClearBelow(c)
        \/ \E h \in Handles : FireInTime(h) \/ Flush(h) \/ ActionThrows(h) \/ PushFromAction(h)
        \/ Destroy
  \/ Over

ChainSpec == ChainInit /\ [][ChainNext]_allVars

(* As in TimeCluster; nobody is obliged to destroy the chain. *)
Alive(A) == object = "alive" /\ A

FairChainSpec ==
  /\ ChainSpec
  /\ \A c \in Clients : WF_allVars(Alive(ClientStepInCall(c)))
  /\ \A h \in Handles : WF_allVars(Alive(FireInTime(h))) /\ WF_allVars(Alive(Flush(h)))

-----------------------------------------------------------------------------
(* Properties. *)

(* Every flush resets what is below: whatever the Action receives comes     *)
(* from one batch of the cluster, so that a window never slides and nothing *)
(* gets through a buffer of two or more (stream4.cc:227-240).               *)
FlushForgets ==
  \A i \in DOMAIN got : Len(got[i]) = 1 /\ (stage.kind = "buffer" => stage.size = 1)

(* An item is lost only if the Action itself pushed it into the cluster     *)
(* that was flushing: the reset at the end of the flush clears it before    *)
(* any flush can pass it on.                                                *)
LostIfPushedFromAction ==
  /\ 1 .. accepted = Held \cup Delivered \cup discarded \cup pushed
  /\ pushed \cap (Delivered \cup discarded) = {}

(* However the chain was used, once it is destroyed no timer of it is armed *)
(* and no callback starts on what is gone; the destructor waits for none    *)
(* that had started (timer_w32.cc:65-72).                                   *)
QuietWhenDestroyed == object = "destroyed" => armed = {}

(* On top of a chain a cluster passes on every item its clients push unless *)
(* a reset drops it or the chain is gone; below another stage it may wait   *)
(* for a time nobody asked for.                                             *)
OnTopItemsLeave ==
  \A n \in 1 .. MaxCalls :
    onTop /\ accepted >= n ~>
      n \in Delivered \cup discarded \cup pushed \/ object # "alive"

=============================================================================
