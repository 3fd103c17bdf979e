----------------------------- MODULE TimerOwner -----------------------------
(***************************************************************************)
(* One Timer of timer_w32.cc in the hands of its owner, who calls start(), *)
(* once() and stop() in any order and at last destroys it, as main() does  *)
(* with t1 and t2, while the timer queue runs callbacks on its own threads.*)
(***************************************************************************)
EXTENDS Timer

CONSTANT
  MaxRunning  \* bound: callbacks of one timer running at the same time

ASSUME BoundAssumption == MaxRunning \in Nat \ {0} /\ MaxFailures \in Nat

VARIABLES
  ownerPC,    \* "idle", "init" inside start() or once(), "gone" when destroyed
  periodic,   \* handles created with a period other than 0
  running,    \* running[h]: callbacks started for h that have not returned
  overwrote   \* history: init() replaced the handle of a live timer

ownerVars == <<timerVars, ownerPC, periodic, running, overwrote, failures>>

OwnerTypeOK ==
  /\ TimerTypeOK
  /\ ownerPC \in {"idle", "init", "gone"}
  /\ periodic \in SUBSET Handles
  /\ running \in [Handles -> 0 .. MaxRunning]
  /\ overwrote \in BOOLEAN
  /\ failures \in 0 .. MaxFailures

OwnerInit ==
  /\ TimerInit
  /\ ownerPC = "idle"
  /\ periodic = {}
  /\ running = [h \in Handles |-> 0]
  /\ overwrote = FALSE

-----------------------------------------------------------------------------
(* start() and once(): action_ is assigned, then init() is called.  They    *)
(* are called as long as the model has a fresh handle left.                 *)
CallStart ==
  /\ ownerPC = "idle" /\ issued # Handles
  /\ ownerPC' = "init"
  /\ setAction
  /\ UNCHANGED <<periodic, running, overwrote, failures>>

(* start() gives init() a period, once() gives it 0. *)
InitTimer(h, repeats) ==
  /\ ownerPC = "init"
  /\ ownerPC' = "idle"
  /\ init(h)
  /\ periodic' = IF repeats THEN periodic \cup {h} ELSE periodic
  /\ overwrote' = (overwrote \/ timerHandle \in live)
  /\ UNCHANGED <<running, failures>>

InitThrows ==
  /\ ownerPC = "init"
  /\ ownerPC' = "idle"
  /\ initThrows
  /\ UNCHANGED <<periodic, running, overwrote>>

CallStop ==
  /\ ownerPC = "idle"
  /\ stop
  /\ UNCHANGED <<ownerPC, periodic, running, overwrote, failures>>

(* ~Timer() *)
CallDestructor ==
  /\ ownerPC = "idle"
  /\ ownerPC' = "gone"
  /\ stop
  /\ UNCHANGED <<periodic, running, overwrote, failures>>

-----------------------------------------------------------------------------
(* The queue starts timer_tick on one of its threads. *)
StartCallback(h) ==
  /\ running[h] < MaxRunning
  /\ Expire(h, h \in periodic)
  /\ running' = [running EXCEPT ![h] = @ + 1]
  /\ UNCHANGED <<ownerPC, periodic, overwrote, failures>>

(* timer_tick and tick(): the action runs unless it is null. *)
RunCallback(h) ==
  /\ running[h] > 0
  /\ running' = [running EXCEPT ![h] = @ - 1]
  /\ UNCHANGED <<timerVars, ownerPC, periodic, overwrote, failures>>

OwnerStep ==
  \/ CallStart \/ InitThrows \/ CallStop \/ CallDestructor
  \/ \E h \in Handles, repeats \in BOOLEAN : InitTimer(h, repeats)

(* The object is gone and its callbacks have returned. *)
OwnerOver ==
  /\ ownerPC = "gone" /\ armed = {} /\ \A h \in Handles : running[h] = 0
  /\ UNCHANGED ownerVars

OwnerNext ==
  \/ OwnerStep
  \/ \E h \in Handles : StartCallback(h) \/ RunCallback(h)
  \/ OwnerOver

OwnerSpec == OwnerInit /\ [][OwnerNext]_ownerVars

-----------------------------------------------------------------------------
(* Properties. *)

(* Unless a start() replaced the handle of a live timer, the object keeps   *)
(* track of its only timer, and stop() or the destructor gives it back; and *)
(* no handle is given back twice, unless a creation failed after disposed_  *)
(* was already cleared.                                                     *)
HandleGivenBack ==
  /\ ~overwrote => /\ live \subseteq {timerHandle}
                   /\ disposed => live = {}
  /\ wrongDelete => failures > 0

(* After stop() returned, and so after the destructor, no callback starts   *)
(* until the next start(); only those already running may still use the     *)
(* object, for stop() does not wait for them.                               *)
QuietAfterStop ==
  [][disposed /\ ~overwrote => \A h \in Handles : running'[h] <= running[h]]_ownerVars

=============================================================================
