------------------------------- MODULE WWatch -------------------------------
(***************************************************************************)
(* wwatch: the main loop of Main.cc over CompletionPort and FileWatcher.   *)
(* The loop gives the kernel a pooled buffer, waits for its completion,    *)
(* walks the change records in it and runs the command on each file whose  *)
(* name has a watched extension, while files go on changing.               *)
(*                                                                         *)
(* The kernel keeps the changes that arrive while no read is pending in a  *)
(* buffer of the directory handle; when that overflows it forgets them all *)
(* and the next read completes with no bytes, leaving the program's buffer *)
(* as it was.                                                              *)
(***************************************************************************)
EXTENDS CompletionPort, WatchUtil

CONSTANTS
  Chars,       \* the characters strings are made of
  Files,       \* names of files below the watched directory
  Arguments,   \* what the user may give as the list of extensions
  comma,       \* the character split() splits it at
  KernelCap,   \* changes the kernel keeps while no read is pending
  MaxChanges   \* bound: changes of files

ASSUME FileAssumption ==
  /\ Files \subseteq Seq(Chars) \ {<<>>}
  /\ Arguments \subseteq Seq(Chars) /\ comma \in Chars
  /\ KernelCap \in Nat /\ MaxChanges \in Nat

VARIABLES
  argument,   \* margs[2]
  extensions, \*   and its fields
  phase,      \* the point wmain() has reached
  watching,   \* the kernel records changes: the first read was issued
  backlog,    \* the changes it has recorded and not yet reported
  overflowed, \* it had to forget some of them
  mem,        \* the change records in each buffer, stale ones included
  events,     \* the events of this iteration still to be handled
  changes,    \* history: the file of every change since the first read
  forgotten,  \* history: the kernel has overflowed
  ran         \* history: the changes the command ran on, by number, in order

kernelVars == <<watching, backlog, overflowed, changes, forgotten>>
argVars == <<argument, extensions>>
vars == <<argVars, portVars, phase, kernelVars, mem, events, ran>>

Records == [id : 0 .. MaxChanges, file : Files \cup {<<>>}]

TypeOK ==
  /\ PortTypeOK
  /\ argument \in Arguments
  /\ phase \in {"port", "open", "associate", "poll", "get", "handle", "exit"}
  /\ watching \in BOOLEAN /\ overflowed \in BOOLEAN /\ forgotten \in BOOLEAN
  /\ backlog \in Seq(Records) /\ Len(backlog) <= KernelCap
  /\ mem \in [Buffers -> Seq(Records)]
  /\ events \in Seq(Records)
  /\ changes \in Seq(Files) /\ Len(changes) <= MaxChanges
  /\ ran \in Seq(0 .. MaxChanges)

(* The pool zeroes its memory: a single record with an empty name. *)
Init ==
  /\ argument \in Arguments /\ extensions = split(argument, comma)
  /\ PortInit
  /\ phase = "port"
  /\ watching = FALSE /\ backlog = <<>> /\ overflowed = FALSE
  /\ mem = [b \in Buffers |-> <<[id |-> 0, file |-> <<>>]>>]
  /\ events = <<>>
  /\ changes = <<>> /\ forgotten = FALSE /\ ran = <<>>

Goto(from, to) == phase = from /\ phase' = to

-----------------------------------------------------------------------------
(* The kernel. *)

(* A file changes its size. *)
Change(f) ==
  /\ watching /\ phase # "exit" /\ Len(changes) < MaxChanges
  /\ changes' = Append(changes, f)
  /\ IF overflowed \/ Len(backlog) = KernelCap
     THEN /\ backlog' = <<>> /\ overflowed' = TRUE /\ forgotten' = TRUE
     ELSE /\ backlog' = Append(backlog, [id |-> Len(changes) + 1, file |-> f])
          /\ UNCHANGED <<overflowed, forgotten>>
  /\ UNCHANGED <<argVars, portVars, phase, watching, mem, events, ran>>

(* The pending read is completed with everything recorded so far, or, after *)
(* an overflow, with nothing.                                               *)
Report ==
  /\ backlog # <<>> \/ overflowed
  /\ completeRead(FALSE)
  /\ mem' = IF overflowed THEN mem ELSE [mem EXCEPT ![inFlight] = backlog]
  /\ backlog' = <<>> /\ overflowed' = FALSE
  /\ UNCHANGED <<argVars, phase, watching, events, changes, forgotten, ran>>

(* The pending read fails, as when the directory is removed. *)
FailRead ==
  /\ completeRead(TRUE)
  /\ UNCHANGED <<argVars, phase, kernelVars, mem, events, ran>>

-----------------------------------------------------------------------------
(* wmain(). *)

(* CompletionPort(): a failed CreateIoCompletionPort returns NULL, which    *)
(* the constructor takes for a port, testing for INVALID_HANDLE_VALUE.      *)
CreatePort(handle) ==
  /\ Goto("port", "open")
  /\ port' = handle
  /\ UNCHANGED <<argVars, freeList, held, inFlight, queue, kernelVars, mem, events, ran>>

(* FileWatcher(): the directory opens, or the constructor throws. *)
OpenDirectory ==
  /\ Goto("open", "associate") \/ Goto("open", "exit")
  /\ UNCHANGED <<argVars, portVars, kernelVars, mem, events, ran>>

(* associate(): the handle that comes back is compared with the port.  For  *)
(* a NULL port CreateIoCompletionPort makes a new one, which differs, or it *)
(* fails as well, and NULL is what was expected.                            *)
Associate ==
  /\ Goto("associate", "poll") \/ Goto("associate", "exit")
  /\ UNCHANGED <<argVars, portVars, kernelVars, mem, events, ran>>

(* pollInternal2(): a buffer goes to the kernel, which starts to watch. *)
Poll ==
  /\ Goto("poll", "get")
  /\ allocAndRelease
  /\ watching' = TRUE
  /\ UNCHANGED <<argVars, backlog, overflowed, changes, forgotten, mem, events, ran>>

(* ReadDirectoryChangesW fails: the buffer is given back, the loop is left. *)
PollThrows ==
  /\ Goto("poll", "exit")
  /\ freeList # <<>>
  /\ UNCHANGED <<argVars, portVars, kernelVars, mem, events, ran>>

(* toEvents() copies a record, moves to the next one and goes on while that *)
(* one has a successor: NextEntryOffset is 0 in the last record only, and   *)
(* adding it there moves nowhere.  The number of bytes is not looked at.    *)
Following(s, i) == IF i < Len(s) THEN i + 1 ELSE i

(* Mutants: the record without a successor is copied again; only the first  *)
(* record is copied.                                                        *)
toEvents_LastTwice(s) == Append(s, Last(s))

toEvents_FirstOnly(s) == <<Head(s)>>

toEvents(s) ==
  LET walk[i \in DOMAIN s] ==
        LET j == Following(s, i)
        IN  <<s[i]>> \o (IF j < Len(s) THEN walk[j] ELSE <<>>)
  IN  walk[1]

Get ==
  /\ Goto("get", "handle")
  /\ get
  /\ events' = toEvents(mem[Head(queue).buffer])
  /\ UNCHANGED <<argVars, kernelVars, mem, ran>>

GetThrows ==
  /\ Goto("get", "exit")
  /\ getThrows
  /\ UNCHANGED <<argVars, kernelVars, mem, events, ran>>

(* One of the extensions is the end of the name. *)
run(name) == \E i \in DOMAIN extensions : endsWith(name, extensions[i])

(* handle(): the command runs to its end before the loop goes on. *)
Handle ==
  /\ phase = "handle" /\ events # <<>>
  /\ events' = Tail(events)
  /\ ran' = IF run(Head(events).file) THEN Append(ran, Head(events).id) ELSE ran
  /\ UNCHANGED <<argVars, portVars, phase, kernelVars, mem>>

(* The end of the loop body.  c.data is the 0 given to associate(), never   *)
(* the -1 that leaves the loop.                                             *)
EndIteration ==
  /\ Goto("handle", "poll")
  /\ events = <<>>
  /\ deleteHeld
  /\ UNCHANGED <<argVars, kernelVars, mem, events, ran>>

-----------------------------------------------------------------------------
Startup == (\E handle \in {"null", "open"} : CreatePort(handle)) \/ OpenDirectory \/ Associate
Loop == Poll \/ Get \/ GetThrows \/ Handle \/ EndIteration

(* The loop waits and every change the model allows has been made, or       *)
(* wmain() has returned.                                                    *)
Settled ==
  \/ phase = "get" /\ port = "open" /\ queue = <<>> /\ backlog = <<>> /\ ~overflowed
  \/ phase = "exit"

AtRest ==
  /\ Settled /\ (phase = "exit" \/ Len(changes) = MaxChanges)
  /\ UNCHANGED vars

Next ==
  \/ Startup \/ Loop \/ PollThrows
  \/ Report \/ FailRead \/ \E f \in Files : Change(f)
  \/ AtRest

Spec == Init /\ [][Next]_vars

(* The loop keeps running, so commands end, and the kernel reports what it  *)
(* has recorded.                                                            *)
FairSpec == Spec /\ WF_vars(Startup) /\ WF_vars(Loop) /\ WF_vars(Report)

-----------------------------------------------------------------------------
(* Properties. *)

(* Each buffer is in one place, free, held by the program, with the kernel  *)
(* or in a packet, so the kernel never writes where the program reads, and  *)
(* alloc() never takes the back of an empty list; only a read whose failure *)
(* ends the program, or that no port reports, loses its buffer              *)
(* (CompletionPort.hh:49-63).                                               *)
BufferInOnePlace ==
  /\ \A b \in Buffers :
       Places(b) = 1 \/ (Places(b) = 0 /\ (phase = "exit" \/ port = "null"))
  /\ phase = "poll" => freeList # <<>>

(* When an exception ends wmain() and frees the pool, no read is pending in *)
(* it, although the directory handle stays open: unless both calls of       *)
(* CreateIoCompletionPort failed, so that associate() found the NULL it     *)
(* compared with (CompletionPort.hh:82-96).                                 *)
NoReadIntoFreedPool == phase = "exit" /\ inFlight # NoBuffer => port = "null"

(* An extension the user wrote is empty: every name ends with it. *)
EmptyField ==
  \E i \in DOMAIN argument :
    argument[i] = comma /\ (i = 1 \/ argument[i - 1] = comma)

Watched(name) ==
  EmptyField \/ \E i \in DOMAIN extensions : extensions[i] # <<>> /\ endsWith(name, extensions[i])

(* Splitting loses no character of the argument, wherever the delimiters    *)
(* are: joining the fields gives it back, but for one trailing delimiter.   *)
RoundTrip ==
  concat(extensions, <<comma>>) =
    IF endsWith(argument, <<comma>>) THEN Front(argument) ELSE argument

(* The command runs only for real changes of files with an extension, even  *)
(* when an overflow makes the loop parse a buffer with old records; and     *)
(* without an overflow in the order of the changes, once for each.  Only    *)
(* when the argument has an empty extension and the buffer was never        *)
(* written does the command run on no file, the zeroed record.              *)
RunsFollowChanges ==
  /\ \A i \in DOMAIN ran :
       \/ ran[i] \in DOMAIN changes /\ Watched(changes[ran[i]])
       \/ ran[i] = 0 /\ EmptyField /\ forgotten
  /\ ~forgotten => \A i, j \in DOMAIN ran : i < j => ran[i] < ran[j]

(* What toEvents() leaves out is at most every second change: of two        *)
(* consecutive changes of watched files one has its command run.            *)
NoTwoInARowMissed ==
  phase = "get" /\ Settled /\ ~forgotten =>
    \A n \in DOMAIN changes :
      n > 1 /\ Watched(changes[n - 1]) /\ Watched(changes[n]) =>
        \E i \in DOMAIN ran : ran[i] \in {n - 1, n}

(* "Will execute ... [filename]" (Main.cc:64-67): when the loop waits for   *)
(* the next change, the command has run for every change of a file with the *)
(* extension.                                                               *)
EveryChangeRuns ==
  phase = "get" /\ Settled /\ ~forgotten =>
    \A n \in DOMAIN changes :
      Watched(changes[n]) => \E i \in DOMAIN ran : ran[i] = n

(* Nothing the kernel records stays there: once the files stop changing,    *)
(* which the bound makes them do, the loop has read it all and waits again, *)
(* unless an error ended the program.                                       *)
BacklogDrains == (backlog # <<>> \/ overflowed) ~> Settled

=============================================================================
