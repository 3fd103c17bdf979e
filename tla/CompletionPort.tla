--------------------------- MODULE CompletionPort ---------------------------
(***************************************************************************)
(* BufferPool and CompletionPort of wwatch/CompletionPort.hh: where each   *)
(* pooled buffer is, and one action formula per operation that moves one.  *)
(* A BufferPtr is a unique_ptr whose deleter gives the buffer back, so a   *)
(* buffer the program holds is freed at the end of the scope, by a return  *)
(* or by an exception, unless it was release()d to the kernel before.      *)
(* post() is left out: nothing calls it.                                   *)
(***************************************************************************)
EXTENDS Naturals, FiniteSets, Sequences, SequencesExt

CONSTANTS Buffers, NoBuffer

ASSUME BufferAssumption ==
  IsFiniteSet(Buffers) /\ Buffers # {} /\ NoBuffer \notin Buffers

VARIABLES
  port,       \* completionPort_: NULL after a failure, or open
  freeList,   \* pool_.freeList_; its back is the last element
  held,       \* the buffer of the Completion that get() returned
  inFlight,   \* the buffer of the pending ReadDirectoryChangesW
  queue       \* the completion packets on the port, oldest first

portVars == <<port, freeList, held, inFlight, queue>>

Packets == [buffer : Buffers, failed : BOOLEAN]

PortTypeOK ==
  /\ port \in {"none", "null", "open"}
  /\ freeList \in Seq(Buffers)
  /\ held \in Buffers \cup {NoBuffer}
  /\ inFlight \in Buffers \cup {NoBuffer}
  /\ queue \in Seq(Packets)

(* The constructor of BufferPool puts every buffer on the list. *)
PortInit ==
  /\ port = "none"
  /\ freeList = SetToSeq(Buffers)
  /\ held = NoBuffer /\ inFlight = NoBuffer
  /\ queue = <<>>

(* buffer() and then release() once the kernel has it: the back of the list *)
(* becomes the buffer of the pending read.                                  *)
allocAndRelease ==
  /\ freeList # <<>>
  /\ inFlight' = Last(freeList)
  /\ freeList' = Front(freeList)
  /\ UNCHANGED <<port, held, queue>>

(* The kernel finishes the pending read; without a port nobody is told. *)
completeRead(failed) ==
  /\ inFlight # NoBuffer
  /\ queue' = IF port = "open"
              THEN Append(queue, [buffer |-> inFlight, failed |-> failed])
              ELSE queue
  /\ inFlight' = NoBuffer
  /\ UNCHANGED <<port, freeList, held>>

(* get(): a packet is taken off the port and its buffer attached again. *)
get ==
  /\ queue # <<>> /\ ~Head(queue).failed
  /\ held' = Head(queue).buffer
  /\ queue' = Tail(queue)
  /\ UNCHANGED <<port, freeList, inFlight>>

(* Mutant: get() gives up before a packet arrives, as with a timeout. *)
Fails_TimesOut == TRUE

(* GetQueuedCompletionStatus fails: the port is NULL, or the packet is that *)
(* of a failed read.                                                        *)
Fails == IF port = "null" THEN TRUE ELSE queue # <<>> /\ Head(queue).failed

(* get() throws before attach(): the buffer goes back to nobody. *)
getThrows ==
  /\ Fails
  /\ queue' = IF queue = <<>> THEN queue ELSE Tail(queue)
  /\ UNCHANGED <<port, freeList, held, inFlight>>

(* Mutant: the deleter does not give the buffer back. *)
deleteHeld_Drops == held' = NoBuffer /\ UNCHANGED <<port, freeList, inFlight, queue>>

(* The deleter that attach() installed, when the Completion goes. *)
deleteHeld ==
  /\ held # NoBuffer
  /\ held' = NoBuffer
  /\ freeList' = Append(freeList, held)
  /\ UNCHANGED <<port, inFlight, queue>>

(* In how many places a buffer is. *)
Places(b) ==
  Cardinality({i \in DOMAIN freeList : freeList[i] = b})
  + Cardinality({i \in DOMAIN queue : queue[i].buffer = b})
  + Cardinality({x \in {"held"} : held = b})
  + Cardinality({x \in {"inFlight"} : inFlight = b})

=============================================================================
