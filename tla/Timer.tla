------------------------------- MODULE Timer -------------------------------
(***************************************************************************)
(* class Timer of timer_w32.cc: a one-object wrapper around a timer of the *)
(* default Win32 timer queue.  The module holds the state of one Timer,    *)
(* the part of the timer queue that belongs to it, and one action formula  *)
(* per member function.  It has no next-state relation of its own:         *)
(* TimerOwner and TimeCluster put the operations in the hands of threads.  *)
(***************************************************************************)
EXTENDS Naturals, FiniteSets

CONSTANTS
  Handles,     \* the handles CreateTimerQueueTimer can return
  NoHandle,    \* INVALID_HANDLE_VALUE
  MaxFailures  \* bound: failures of CreateTimerQueueTimer

ASSUME HandleAssumption == NoHandle \notin Handles

VARIABLES
  hasAction,   \* action_ is not the null function
  timerHandle, \* timerHandle_
  disposed,    \* disposed_
  issued,      \* handles CreateTimerQueueTimer has returned to this Timer
  live,        \* of these, the handles not yet deleted
  armed,       \* of these, the timers whose due time can still arrive
  wrongDelete, \* DeleteTimerQueueTimer was given a handle that is not live
  failures     \* how often CreateTimerQueueTimer has failed

timerVars ==
  <<hasAction, timerHandle, disposed, issued, live, armed, wrongDelete>>

TimerTypeOK ==
  /\ hasAction \in BOOLEAN
  /\ timerHandle \in Handles \cup {NoHandle}
  /\ disposed \in BOOLEAN
  /\ issued \in SUBSET Handles
  /\ live \in SUBSET issued
  /\ armed \in SUBSET live
  /\ wrongDelete \in BOOLEAN

(* Timer(): a null action, no handle, disposed. *)
TimerInit ==
  /\ hasAction = FALSE
  /\ timerHandle = NoHandle
  /\ disposed = TRUE
  /\ issued = {}
  /\ live = {}
  /\ armed = {}
  /\ wrongDelete = FALSE
  /\ failures = 0

-----------------------------------------------------------------------------
(* The timer queue, as the class uses it. *)

(* CreateTimerQueueTimer succeeds: a fresh handle, its timer armed. *)
CreateTimerQueueTimer(h) ==
  /\ h \in Handles \ issued
  /\ issued' = issued \cup {h}
  /\ live' = live \cup {h}
  /\ armed' = armed \cup {h}

(* Mutant: the handle is released but the timer can still expire. *)
DeleteTimerQueueTimer_StaysArmed(h) ==
  /\ live' = live \ {h}
  /\ armed' = armed
  /\ wrongDelete' = (wrongDelete \/ h \notin live)

(* DeleteTimerQueueTimer(NULL, h, NULL): marks the timer for deletion and   *)
(* returns at once; a callback already running is not waited for.           *)
DeleteTimerQueueTimer(h) ==
  /\ live' = live \ {h}
  /\ armed' = armed \ {h}
  /\ wrongDelete' = (wrongDelete \/ h \notin live)

(* The due time of h arrives and the queue starts a callback; `stays` says  *)
(* whether the timer is periodic and so due again.                          *)
Expire(h, stays) ==
  /\ h \in armed
  /\ armed' = IF stays THEN armed ELSE armed \ {h}
  /\ UNCHANGED <<hasAction, timerHandle, disposed, issued, live, wrongDelete>>

-----------------------------------------------------------------------------
(* The member functions. *)

(* action_ = action, the first statement of start() and of once(). *)
setAction ==
  /\ hasAction' = TRUE
  /\ UNCHANGED <<timerHandle, disposed, issued, live, armed, wrongDelete>>

(* init() when the queue creates the timer h. *)
init(h) ==
  /\ disposed' = FALSE
  /\ CreateTimerQueueTimer(h)
  /\ timerHandle' = h
  /\ UNCHANGED <<hasAction, wrongDelete>>

(* init() when CreateTimerQueueTimer fails and the function throws:         *)
(* disposed_ is already false and timerHandle_ keeps what it held.          *)
initThrows ==
  /\ failures < MaxFailures /\ failures' = failures + 1
  /\ disposed' = FALSE
  /\ UNCHANGED <<hasAction, timerHandle, issued, live, armed, wrongDelete>>

(* Mutants of stop(): disposed_ is not set; the timer is not deleted. *)
stop_KeepsFlag ==
  \/ disposed /\ UNCHANGED timerVars
  \/ /\ ~disposed
     /\ DeleteTimerQueueTimer(timerHandle)
     /\ UNCHANGED <<hasAction, timerHandle, disposed, issued>>

stop_NoDelete ==
  /\ disposed' = TRUE
  /\ UNCHANGED <<hasAction, timerHandle, issued, live, armed, wrongDelete>>

(* stop(), which is also the destructor. *)
stop ==
  \/ /\ disposed
     /\ UNCHANGED timerVars
  \/ /\ ~disposed
     /\ disposed' = TRUE
     /\ DeleteTimerQueueTimer(timerHandle)
     /\ UNCHANGED <<hasAction, timerHandle, issued>>

=============================================================================
