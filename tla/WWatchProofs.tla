---------------------------- MODULE WWatchProofs ----------------------------
(***************************************************************************)
(* wwatch, for any pool of buffers, any files and any arguments: where the *)
(* pooled buffers are, whatever fails, and which changes the command runs  *)
(* for.                                                                    *)
(***************************************************************************)
EXTENDS WWatch, Integers, FiniteSetTheorems, SequenceTheorems, WellFoundedInduction, TLAPS

USE DEF argVars, portVars, kernelVars

-----------------------------------------------------------------------------
(* The free list as a set. *)

(* The back of a list without repetitions, and the list without it. *)
LEMMA LastAndFront ==
  ASSUME NEW S, NEW s \in Seq(S), s # <<>>, IsInjective(s)
  PROVE  /\ Last(s) \in S /\ Front(s) \in Seq(S) /\ IsInjective(Front(s))
         /\ Last(s) \notin Range(Front(s))
         /\ Range(Front(s)) \cup {Last(s)} = Range(s)
<1>1. Len(s) \in Nat /\ Len(s) > 0 /\ DOMAIN s = 1 .. Len(s)
  BY LenProperties, EmptySeq
<1>2. Last(s) = s[Len(s)] /\ Last(s) \in S
  BY <1>1, ElementOfSeq DEF Last
<1>3. \A i \in 1 .. Len(s) - 1 : s[i] \in S
  BY <1>1, ElementOfSeq
<1>4. /\ Front(s) \in Seq(S) /\ Len(Front(s)) = Len(s) - 1
      /\ \A i \in 1 .. Len(s) - 1 : Front(s)[i] = s[i]
  BY <1>1, <1>3, SubSeqProperties DEF Front
<1>5. DOMAIN Front(s) = 1 .. Len(s) - 1
  BY <1>4, LenProperties
<1>6. IsInjective(Front(s))
  BY <1>1, <1>4, <1>5 DEF IsInjective
<1>7. Last(s) \notin Range(Front(s))
  BY <1>1, <1>2, <1>4, <1>5 DEF Range, IsInjective
<1>8. 1 .. Len(s) = (1 .. Len(s) - 1) \cup {Len(s)}
  BY <1>1
<1>9. Range(Front(s)) \cup {Last(s)} = Range(s)
  BY <1>1, <1>2, <1>4, <1>5, <1>8 DEF Range
<1> QED
  BY <1>2, <1>4, <1>6, <1>7, <1>9

(* A list without repetitions to which something new is appended. *)
LEMMA AppendNew ==
  ASSUME NEW S, NEW s \in Seq(S), NEW e \in S, IsInjective(s), e \notin Range(s)
  PROVE  /\ Append(s, e) \in Seq(S) /\ IsInjective(Append(s, e))
         /\ Range(Append(s, e)) = Range(s) \cup {e}
<1>1. Len(s) \in Nat /\ DOMAIN s = 1 .. Len(s)
  BY LenProperties
<1>2. /\ Append(s, e) \in Seq(S)
      /\ DOMAIN Append(s, e) = 1 .. Len(s) + 1
      /\ \A i \in 1 .. Len(s) : Append(s, e)[i] = s[i]
      /\ Append(s, e)[Len(s) + 1] = e
  BY AppendProperties, LenProperties
<1>3. 1 .. Len(s) + 1 = (1 .. Len(s)) \cup {Len(s) + 1} /\ Len(s) + 1 \notin 1 .. Len(s)
  BY <1>1
<1>4. Range(Append(s, e)) = Range(s) \cup {e}
  BY <1>1, <1>2, <1>3 DEF Range
<1>5. IsInjective(Append(s, e))
  BY <1>1, <1>2, <1>3 DEF Range, IsInjective
<1> QED
  BY <1>2, <1>4, <1>5

(* The list that the pool begins with has each buffer once. *)
LEMMA InitialList ==
  /\ SetToSeq(Buffers) \in Seq(Buffers)
  /\ IsInjective(SetToSeq(Buffers))
  /\ Range(SetToSeq(Buffers)) = Buffers
<1> DEFINE n == Cardinality(Buffers)
           f == SetToSeq(Buffers)
<1>1. n \in Nat /\ ExistsBijection(1 .. n, Buffers)
  BY BufferAssumption, FS_CardinalityType
<1>2. \E g \in [1 .. n -> Buffers] : IsInjective(g)
  BY <1>1 DEF ExistsBijection, Bijection, Injection
<1>3. f \in [1 .. n -> Buffers] /\ IsInjective(f)
  BY <1>2 DEF SetToSeq
<1>4. Cardinality(1 .. n) = n
  BY <1>1, FS_Interval
<1>5. f \in Surjection(1 .. n, Buffers)
  <2>1. f \in Injection(1 .. n, Buffers)
    BY <1>3 DEF Injection
  <2> QED
    BY <1>4, <2>1, FS_Injection, BufferAssumption
<1>6. Range(f) = Buffers
  BY <1>3, <1>5 DEF Surjection, Range
<1>7. f \in Seq(Buffers)
  BY <1>1, <1>3, SeqDef
<1> QED
  BY <1>3, <1>6, <1>7

-----------------------------------------------------------------------------
(* Where the buffers are. *)

Free == Range(freeList)
Reported == {queue[i].buffer : i \in DOMAIN queue}
Away == ({held, inFlight} \ {NoBuffer}) \cup Reported

(* One buffer at most is away from the free list, and the point the loop    *)
(* has reached says where; it is forgotten only by a read whose completion  *)
(* no port reports, or when the program ends.                               *)
PoolInv ==
  /\ PortTypeOK /\ IsInjective(freeList)
  /\ phase = "port" <=> port = "none"
  /\ held # NoBuffer <=> phase = "handle"
  /\ inFlight # NoBuffer => phase = "get" \/ (phase = "exit" /\ port = "null")
  /\ queue # <<>> => phase = "get" /\ port = "open" /\ inFlight = NoBuffer /\ Len(queue) = 1
  /\ Free \cap Away = {}
  /\ \/ Free \cup Away = Buffers
     \/ phase = "exit"
     \/ phase = "get" /\ port = "null" /\ inFlight = NoBuffer

(* What a queue of one packet holds. *)
LEMMA OnePacket ==
  ASSUME PortTypeOK, queue # <<>>, Len(queue) = 1
  PROVE  /\ Head(queue) = queue[1] /\ Head(queue) \in Packets /\ Tail(queue) = <<>>
         /\ Reported = {Head(queue).buffer}
<1>1. DOMAIN queue = 1 .. 1 /\ Head(queue) = queue[1]
  BY LenProperties DEF PortTypeOK
<1>2. Head(queue) \in Packets /\ Tail(queue) \in Seq(Packets) /\ Len(Tail(queue)) = 0
  BY HeadTailProperties DEF PortTypeOK
<1>3. Tail(queue) = <<>>
  BY <1>2, EmptySeq
<1>4. 1 .. 1 = {1}
  OBVIOUS
<1> QED
  BY <1>1, <1>2, <1>3, <1>4 DEF Reported

(* The steps that move no buffer and end in no state that has one. *)
LEMMA StillPoolInv ==
  ASSUME PoolInv, UNCHANGED <<freeList, held, inFlight, queue>>,
         phase' # "handle", port' \in {"null", "open"}, phase' # "port",
         held = NoBuffer, inFlight = NoBuffer, queue = <<>>,
         Free = Buffers \/ phase' = "exit"
  PROVE  PoolInv'
BY DEF PoolInv, PortTypeOK, Free, Away, Reported

(* Nothing is away while the loop neither waits nor handles. *)
LEMMA NoneAway ==
  ASSUME PoolInv, phase \notin {"get", "handle", "exit"}
  PROVE  held = NoBuffer /\ inFlight = NoBuffer /\ queue = <<>> /\ Free = Buffers
<1>1. held = NoBuffer /\ inFlight = NoBuffer /\ queue = <<>>
  BY DEF PoolInv
<1>2. Away = {}
  BY <1>1 DEF Away, Reported
<1> QED
  BY <1>1, <1>2 DEF PoolInv

LEMMA NextPoolInv ==
  ASSUME PoolInv, [Next]_vars
  PROVE  PoolInv'
<1> USE BufferAssumption
<1>1. CASE Startup
  <2>1. phase \in {"port", "open", "associate"} /\ phase' \in {"open", "associate", "poll", "exit"}
    BY <1>1 DEF Startup, CreatePort, OpenDirectory, Associate, Goto
  <2>2. port' \in {"null", "open"}
    BY <1>1 DEF Startup, CreatePort, OpenDirectory, Associate, Goto, PoolInv, PortTypeOK
  <2>3. UNCHANGED <<freeList, held, inFlight, queue>>
    BY <1>1 DEF Startup, CreatePort, OpenDirectory, Associate
  <2> QED
    BY <2>1, <2>2, <2>3, NoneAway, StillPoolInv
<1>2. CASE Poll
  <2>1. /\ phase = "poll" /\ phase' = "get" /\ freeList # <<>>
        /\ inFlight' = Last(freeList) /\ freeList' = Front(freeList)
        /\ UNCHANGED <<port, held, queue>>
    BY <1>2 DEF Poll, Goto, allocAndRelease
  <2>2. held = NoBuffer /\ inFlight = NoBuffer /\ queue = <<>> /\ Free = Buffers
    BY <2>1, NoneAway
  <2>3. /\ inFlight' \in Buffers /\ freeList' \in Seq(Buffers) /\ IsInjective(freeList')
        /\ inFlight' \notin Free' /\ Free' \cup {inFlight'} = Buffers
    BY <2>1, <2>2, LastAndFront DEF PoolInv, PortTypeOK, Free
  <2>4. Away' = {inFlight'}
    BY <2>1, <2>2, <2>3 DEF Away, Reported
  <2> QED
    BY <2>1, <2>2, <2>3, <2>4 DEF PoolInv, PortTypeOK
<1>3. CASE Get
  <2>1. /\ phase = "get" /\ phase' = "handle" /\ queue # <<>>
        /\ held' = Head(queue).buffer /\ queue' = Tail(queue)
        /\ UNCHANGED <<port, freeList, inFlight>>
    BY <1>3 DEF Get, Goto, get
  <2>2. port = "open" /\ inFlight = NoBuffer /\ held = NoBuffer
    BY <2>1 DEF PoolInv
  <2>3. /\ queue' = <<>> /\ Head(queue).buffer \in Buffers
        /\ Reported = {Head(queue).buffer}
    BY <2>1, OnePacket DEF PoolInv, Packets
  <2>4. Away' = Away /\ Free' = Free
    BY <2>1, <2>2, <2>3 DEF Away, Reported, Free
  <2> QED
    BY <2>1, <2>2, <2>3, <2>4 DEF PoolInv, PortTypeOK
<1>4. CASE GetThrows
  <2>1. phase = "get" /\ phase' = "exit" /\ UNCHANGED <<port, freeList, held, inFlight>>
    BY <1>4 DEF GetThrows, Goto, getThrows
  <2>2. queue' = <<>>
    BY <1>4, OnePacket DEF GetThrows, getThrows, PoolInv
  <2>3. inFlight # NoBuffer => port = "null"
    BY <1>4 DEF GetThrows, getThrows, Fails, PoolInv, PortTypeOK
  <2>4. Away' \subseteq Away /\ Free' = Free
    BY <2>1, <2>2 DEF Away, Reported, Free
  <2> QED
    BY <2>1, <2>2, <2>3, <2>4 DEF PoolInv, PortTypeOK
<1>5. CASE Handle
  BY <1>5 DEF Handle, PoolInv, PortTypeOK, Free, Away, Reported
<1>6. CASE EndIteration
  <2>1. /\ phase = "handle" /\ phase' = "poll" /\ held # NoBuffer /\ held' = NoBuffer
        /\ freeList' = Append(freeList, held) /\ UNCHANGED <<port, inFlight, queue>>
    BY <1>6 DEF EndIteration, Goto, deleteHeld
  <2>2. inFlight = NoBuffer /\ queue = <<>>
    BY <2>1 DEF PoolInv
  <2>3. Away = {held} /\ Away' = {}
    BY <2>1, <2>2 DEF Away, Reported
  <2>4. held \in Buffers /\ freeList \in Seq(Buffers) /\ IsInjective(freeList) /\ held \notin Free
    BY <2>1, <2>3 DEF PoolInv, PortTypeOK
  <2>5. /\ freeList' \in Seq(Buffers) /\ IsInjective(freeList')
        /\ Free' = Free \cup {held}
    BY <2>1, <2>4, AppendNew DEF Free
  <2> QED
    BY <2>1, <2>2, <2>3, <2>5 DEF PoolInv, PortTypeOK
<1>7. CASE PollThrows
  <2>1. phase = "poll" /\ phase' = "exit" /\ UNCHANGED <<port, freeList, held, inFlight, queue>>
    BY <1>7 DEF PollThrows, Goto
  <2>2. port \in {"null", "open"}
    BY <2>1 DEF PoolInv, PortTypeOK
  <2> QED
    BY <2>1, <2>2, NoneAway, StillPoolInv
<1>8. ASSUME NEW failed \in BOOLEAN, completeRead(failed), phase' = phase PROVE PoolInv'
  <2>1. /\ inFlight # NoBuffer /\ inFlight \in Buffers /\ inFlight' = NoBuffer
        /\ UNCHANGED <<port, freeList, held>>
    BY <1>8 DEF completeRead, PoolInv, PortTypeOK
  <2>2. queue = <<>> /\ Free' = Free /\ held = NoBuffer
    BY <1>8, <2>1 DEF PoolInv, Free
  <2>3. CASE port = "open"
    <3> DEFINE packet == [buffer |-> inFlight, failed |-> failed]
    <3>1. queue' = Append(queue, packet) /\ packet \in Packets /\ packet.buffer = inFlight
      BY <1>8, <2>1, <2>3 DEF completeRead, Packets
    <3> HIDE DEF packet
    <3>2. queue \in Seq(Packets) /\ Len(queue) = 0
      BY <2>2 DEF PoolInv, PortTypeOK
    <3>3. queue' \in Seq(Packets) /\ Len(queue') = 1 /\ queue'[1] = packet
      BY <3>1, <3>2, AppendProperties
    <3>4. DOMAIN queue' = 1 .. 1 /\ 1 .. 1 = {1}
      BY <3>3, LenProperties
    <3>5. Reported' = {inFlight}
      BY <3>1, <3>3, <3>4 DEF Reported
    <3>6. Away' = {inFlight} /\ Away = {inFlight}
      BY <2>1, <2>2, <3>5 DEF Away, Reported
    <3>7. phase = "get"
      BY <2>1, <2>3 DEF PoolInv
    <3> QED
      BY <1>8, <2>1, <2>2, <2>3, <3>3, <3>6, <3>7 DEF PoolInv, PortTypeOK
  <2>4. CASE port # "open"
    <3>1. queue' = queue
      BY <1>8, <2>4 DEF completeRead
    <3>2. Away' = {}
      BY <2>1, <2>2, <3>1 DEF Away, Reported
    <3>3. port = "null"
      BY <2>1, <2>4 DEF PoolInv, PortTypeOK
    <3> QED
      BY <1>8, <2>1, <2>2, <3>1, <3>2, <3>3 DEF PoolInv, PortTypeOK
  <2> QED
    BY <2>3, <2>4
<1>9. CASE Report \/ FailRead
  BY <1>8, <1>9 DEF Report, FailRead
<1>10. ASSUME NEW f \in Files, Change(f) PROVE PoolInv'
  BY <1>10 DEF Change, PoolInv, PortTypeOK, Free, Away, Reported
<1>11. CASE UNCHANGED vars
  BY <1>11 DEF vars, PoolInv, PortTypeOK, Free, Away, Reported
<1> QED
  BY <1>1, <1>2, <1>3, <1>4, <1>5, <1>6, <1>7, <1>9, <1>10, <1>11 DEF Next, Loop, AtRest

LEMMA PoolInvariance == Spec => []PoolInv
<1>1. Init => PoolInv
  <2> SUFFICES ASSUME Init PROVE PoolInv
    OBVIOUS
  <2>1. /\ port = "none" /\ phase = "port" /\ freeList = SetToSeq(Buffers)
        /\ held = NoBuffer /\ inFlight = NoBuffer /\ queue = <<>>
    BY DEF Init, PortInit
  <2>2. Away = {}
    BY <2>1 DEF Away, Reported
  <2> QED
    BY <2>1, <2>2, InitialList DEF PoolInv, PortTypeOK, Free
<1>2. PoolInv /\ [Next]_vars => PoolInv'
  BY NextPoolInv
<1> QED
  BY <1>1, <1>2, PTL DEF Spec

-----------------------------------------------------------------------------
(* The properties. *)

(* How often a buffer is on the list, and how often in the queue. *)
LEMMA TimesOnList ==
  ASSUME PoolInv, NEW b \in Buffers
  PROVE  Cardinality({i \in DOMAIN freeList : freeList[i] = b}) = IF b \in Free THEN 1 ELSE 0
<1> DEFINE at == {i \in DOMAIN freeList : freeList[i] = b}
<1>1. CASE b \in Free
  <2>1. PICK i \in DOMAIN freeList : freeList[i] = b
    BY <1>1 DEF Free, Range
  <2>2. at = {i}
    BY <2>1 DEF PoolInv, IsInjective
  <2> QED
    BY <1>1, <2>2, FS_Singleton
<1>2. CASE b \notin Free
  <2>1. at = {}
    BY <1>2 DEF Free, Range
  <2> QED
    BY <1>2, <2>1, FS_EmptySet
<1> QED
  BY <1>1, <1>2

LEMMA TimesInQueue ==
  ASSUME PoolInv, NEW b \in Buffers
  PROVE  Cardinality({i \in DOMAIN queue : queue[i].buffer = b}) =
           IF b \in Reported THEN 1 ELSE 0
<1> DEFINE at == {i \in DOMAIN queue : queue[i].buffer = b}
<1>1. DOMAIN queue \subseteq {1}
  <2>1. Len(queue) \in {0, 1} /\ DOMAIN queue = 1 .. Len(queue)
    BY LenProperties DEF PoolInv, PortTypeOK
  <2>2. 1 .. 0 = {} /\ 1 .. 1 = {1}
    OBVIOUS
  <2> QED
    BY <2>1, <2>2
<1>2. CASE b \in Reported
  <2>1. at = {1}
    BY <1>1, <1>2 DEF Reported
  <2> QED
    BY <1>2, <2>1, FS_Singleton
<1>3. CASE b \notin Reported
  <2>1. at = {}
    BY <1>3 DEF Reported
  <2> QED
    BY <1>3, <2>1, FS_EmptySet
<1> QED
  BY <1>2, <1>3

(* How often in a place that holds one buffer or none. *)
LEMMA TimesThere ==
  ASSUME NEW place, NEW there
  PROVE  Cardinality({x \in {place} : there}) = IF there THEN 1 ELSE 0
<1>1. CASE there
  <2>1. {x \in {place} : there} = {place}
    BY <1>1
  <2> QED
    BY <1>1, <2>1, FS_Singleton
<1>2. CASE ~there
  <2>1. {x \in {place} : there} = {}
    BY <1>2
  <2> QED
    BY <1>2, <2>1, FS_EmptySet
<1> QED
  BY <1>1, <1>2

(* However the loop, the kernel and the failures interleave, and however    *)
(* large the pool is, no buffer is in two places, none is lost while the    *)
(* program goes on, and alloc() always finds one (CompletionPort.hh:49-63). *)
THEOREM EveryBufferInOnePlace == Spec => []BufferInOnePlace
<1>1. PoolInv => BufferInOnePlace
  <2> SUFFICES ASSUME PoolInv PROVE BufferInOnePlace
    OBVIOUS
  <2>1. ASSUME phase = "poll" PROVE freeList # <<>>
    <3>1. Free = Buffers
      BY <2>1, NoneAway
    <3> QED
      BY <3>1, BufferAssumption DEF Free, Range
  <2>2. ASSUME NEW b \in Buffers
        PROVE  Places(b) = 1 \/ (Places(b) = 0 /\ (phase = "exit" \/ port = "null"))
    <3> DEFINE one(p) == IF p THEN 1 ELSE 0
    <3>1. Places(b) = ((one(b \in Free) + one(b \in Reported)) + one(held = b)) + one(inFlight = b)
      <4>1. Cardinality({x \in {"held"} : held = b}) = one(held = b)
        BY TimesThere
      <4>2. Cardinality({x \in {"inFlight"} : inFlight = b}) = one(inFlight = b)
        BY TimesThere
      <4> QED
        BY <4>1, <4>2, TimesOnList, TimesInQueue DEF Places
    <3>2. b \in Free => b \notin Reported /\ held # b /\ inFlight # b
      BY BufferAssumption DEF PoolInv, Away
    <3>3. /\ b \in Reported => held # b /\ inFlight # b
          /\ held = b => inFlight # b
      BY BufferAssumption DEF PoolInv, Reported
    <3>4. \/ b \in Free \/ b \in Reported \/ held = b \/ inFlight = b
          \/ phase = "exit" \/ port = "null"
      BY DEF PoolInv, Away
    <3> QED
      BY <3>1, <3>2, <3>3, <3>4
  <2> QED
    BY <2>1, <2>2 DEF BufferInOnePlace
<1> QED
  BY <1>1, PoolInvariance, PTL

(* The pool is never freed under a pending read, unless there never was a   *)
(* port to report it (CompletionPort.hh:82-96).                             *)
THEOREM PoolOutlivesReads == Spec => []NoReadIntoFreedPool
<1>1. PoolInv => NoReadIntoFreedPool
  BY DEF PoolInv, NoReadIntoFreedPool
<1> QED
  BY <1>1, PoolInvariance, PTL

-----------------------------------------------------------------------------
(* split() and concat() of Util.cc, for any string. *)

(* A set of numbers has a least one: the induction that the functions defined *)
(* by recursion need.                                                         *)
LEMMA LeastOf ==
  ASSUME NEW T \in SUBSET Nat, T # {}
  PROVE  \E n \in T : \A m \in T : n <= m
<1>1. \E n \in T : \A m \in T : ~(<<m, n>> \in OpToRel(<, Nat))
  BY NatLessThanWellFounded, WFMin, Zenon
<1>2. PICK n \in T : \A m \in T : ~(m < n)
  BY <1>1, Zenon DEF OpToRel
<1> QED
  BY <1>2

Strings == Seq(Chars)

(* f joins the first n of the strings, as concat() does. *)
Joins(f, args, sep, n) ==
  f = [i \in 1 .. n |-> IF i = 1 THEN args[1] ELSE f[i - 1] \o sep \o args[i]]

(* There is such a function, so concat() has a value. *)
LEMMA JoinsExist ==
  ASSUME NEW args, NEW sep, NEW n \in Nat
  PROVE  \E f : Joins(f, args, sep, n)
<1> DEFINE T == {m \in Nat : ~ \E f : Joins(f, args, sep, m)}
<1>1. SUFFICES ASSUME T # {} PROVE FALSE
  OBVIOUS
<1>2. PICK m \in T : \A k \in T : m <= k
  BY <1>1, LeastOf
<1>3. CASE m = 0
  <2> DEFINE f == [i \in 1 .. 0 |-> 0]
  <2>1. Joins(f, args, sep, 0)
    BY DEF Joins
  <2> QED
    BY <1>2, <1>3, <2>1
<1>4. CASE m # 0
  <2>1. m - 1 \in Nat /\ m - 1 \notin T
    BY <1>2, <1>4
  <2>2. PICK f : Joins(f, args, sep, m - 1)
    BY <2>1
  <2> DEFINE g == [i \in 1 .. m |-> IF i = 1 THEN args[1] ELSE f[i - 1] \o sep \o args[i]]
  <2>3. ASSUME NEW i \in 1 .. m - 1
        PROVE  i \in 1 .. m /\ g[i] = f[i]
    <3>1. i \in 1 .. m
      BY <2>1
    <3>2. f[i] = IF i = 1 THEN args[1] ELSE f[i - 1] \o sep \o args[i]
      BY <2>2 DEF Joins
    <3> QED
      BY <3>1, <3>2
  <2>4. \A i \in 1 .. m :
          (IF i = 1 THEN args[1] ELSE f[i - 1] \o sep \o args[i])
            = (IF i = 1 THEN args[1] ELSE g[i - 1] \o sep \o args[i])
    <3> SUFFICES ASSUME NEW i \in 1 .. m, i # 1
                 PROVE  f[i - 1] = g[i - 1]
      BY Zenon
    <3>1. i - 1 \in 1 .. m - 1
      BY <2>1
    <3> HIDE DEF g
    <3> QED
      BY <2>3, <3>1
  <2>5. Joins(g, args, sep, m)
    <3>1. g = [i \in 1 .. m |-> IF i = 1 THEN args[1] ELSE g[i - 1] \o sep \o args[i]]
      BY <2>4
    <3> HIDE DEF g
    <3> QED
      BY <3>1 DEF Joins
  <2> HIDE DEF g
  <2> QED
    BY <1>2, <2>5
<1> QED
  BY <1>3, <1>4

(* Two joins agree as far as their arguments do. *)
LEMMA JoinsAgree ==
  ASSUME NEW f, NEW g, NEW s, NEW t, NEW sep, NEW n \in Nat, NEW m \in Nat,
         Joins(f, s, sep, n), Joins(g, t, sep, m), n <= m,
         \A i \in 1 .. n : s[i] = t[i]
  PROVE  \A i \in 1 .. n : f[i] = g[i]
<1> DEFINE T == {i \in 1 .. n : f[i] # g[i]}
<1>1. SUFFICES ASSUME T # {} PROVE FALSE
  OBVIOUS
<1>2. T \in SUBSET Nat
  OBVIOUS
<1>3. PICK i \in T : \A j \in T : i <= j
  BY <1>1, <1>2, LeastOf
<1>4. i \in 1 .. n /\ i \in 1 .. m /\ s[i] = t[i] /\ f[i] # g[i]
  BY <1>3
<1>5. /\ f[i] = IF i = 1 THEN s[1] ELSE f[i - 1] \o sep \o s[i]
      /\ g[i] = IF i = 1 THEN t[1] ELSE g[i - 1] \o sep \o t[i]
  BY <1>4 DEF Joins
<1>6. CASE i = 1
  BY <1>4, <1>5, <1>6
<1>7. CASE i # 1
  <2>1. i - 1 \in 1 .. n /\ i - 1 \notin T
    BY <1>3, <1>4, <1>7
  <2>2. f[i - 1] = g[i - 1]
    BY <2>1
  <2> QED
    BY <1>4, <1>5, <1>7, <2>2
<1> QED
  BY <1>6, <1>7

(* concat() is the last value of such a function. *)
LEMMA ConcatIs ==
  ASSUME NEW S, NEW args \in Seq(S), args # <<>>, NEW sep
  PROVE  \E f : Joins(f, args, sep, Len(args)) /\ concat(args, sep) = f[Len(args)]
<1> DEFINE n == Len(args)
           F == CHOOSE f : f = [i \in DOMAIN args |->
                                  IF i = 1 THEN args[1] ELSE f[i - 1] \o sep \o args[i]]
<1>1. n \in Nat /\ DOMAIN args = 1 .. n
  BY LenProperties
<1>2. \E f : Joins(f, args, sep, n)
  BY <1>1, JoinsExist
<1>3. Joins(F, args, sep, n)
  BY <1>1, <1>2 DEF Joins
<1>4. concat(args, sep) = F[n]
  BY DEF concat
<1> QED
  BY <1>3, <1>4

(* The join of one string, and of one more. *)
LEMMA ConcatOne ==
  ASSUME NEW a, NEW sep
  PROVE  concat(<<a>>, sep) = a
<1>1. <<a>> \in Seq({a}) /\ <<a>> # <<>> /\ Len(<<a>>) = 1 /\ <<a>>[1] = a
  OBVIOUS
<1>2. PICK f : Joins(f, <<a>>, sep, 1) /\ concat(<<a>>, sep) = f[1]
  BY <1>1, ConcatIs
<1>3. f[1] = <<a>>[1]
  BY <1>2 DEF Joins
<1> QED
  BY <1>1, <1>2, <1>3

LEMMA ConcatAppend ==
  ASSUME NEW S, NEW args \in Seq(S), args # <<>>, NEW a \in S, NEW sep
  PROVE  concat(Append(args, a), sep) = concat(args, sep) \o sep \o a
<1> DEFINE n == Len(args)
           more == Append(args, a)
<1>1. n \in Nat \ {0}
  BY EmptySeq
<1>2. /\ more \in Seq(S) /\ more # <<>> /\ Len(more) = n + 1
      /\ (\A i \in 1 .. n : more[i] = args[i]) /\ more[n + 1] = a
  BY AppendProperties
<1> HIDE DEF more
<1>3. PICK f : Joins(f, args, sep, n) /\ concat(args, sep) = f[n]
  BY ConcatIs
<1>4. PICK g : Joins(g, more, sep, n + 1) /\ concat(more, sep) = g[n + 1]
  BY <1>2, ConcatIs
<1> HIDE DEF n
<1>5. g[n] = f[n]
  <2>1. \A i \in 1 .. n : args[i] = more[i]
    BY <1>2
  <2>2. n <= n + 1 /\ n \in Nat /\ n + 1 \in Nat /\ n \in 1 .. n
    BY <1>1
  <2> QED
    BY <1>3, <1>4, <2>1, <2>2, JoinsAgree
<1>6. g[n + 1] = g[n] \o sep \o more[n + 1]
  <2>1. n + 1 \in 1 .. n + 1 /\ n + 1 # 1 /\ (n + 1) - 1 = n
    BY <1>1
  <2>2. g[n + 1] = g[(n + 1) - 1] \o sep \o more[n + 1]
    BY <1>4, <2>1, Zenon DEF Joins
  <2> QED
    BY <2>1, <2>2
<1> QED
  BY <1>2, <1>3, <1>4, <1>5, <1>6 DEF more

(* The state of the loop of split() behind the first i characters. *)
Scan(f, str, d, i) ==
  IF i = 0 THEN [result |-> <<>>, current |-> <<>>]
  ELSE LET s == f[i - 1]
       IN  IF str[i] = d
           THEN [result |-> Append(s.result, s.current), current |-> <<>>]
           ELSE [result |-> s.result, current |-> Append(s.current, str[i])]

Scans(f, str, d, n) == f = [i \in 0 .. n |-> Scan(f, str, d, i)]

(* There is such a loop, so split() has a value. *)
LEMMA ScansExist ==
  ASSUME NEW str, NEW d, NEW n \in Nat
  PROVE  \E f : Scans(f, str, d, n)
<1> DEFINE T == {m \in Nat : ~ \E f : Scans(f, str, d, m)}
<1>1. SUFFICES ASSUME T # {} PROVE FALSE
  OBVIOUS
<1>2. PICK m \in T : \A k \in T : m <= k
  BY <1>1, LeastOf
<1>3. CASE m = 0
  <2> DEFINE start == [result |-> <<>>, current |-> <<>>]
             f == [i \in 0 .. 0 |-> start]
  <2>1. \A i \in 0 .. 0 : Scan(f, str, d, i) = start
    BY DEF Scan
  <2>2. Scans(f, str, d, 0)
    <3> HIDE DEF start
    <3>1. f = [i \in 0 .. 0 |-> Scan(f, str, d, i)]
      BY <2>1
    <3> HIDE DEF f
    <3> QED
      BY <3>1 DEF Scans
  <2> HIDE DEF f
  <2> QED
    BY <1>2, <1>3, <2>2
<1>4. CASE m # 0
  <2>1. m - 1 \in Nat /\ m - 1 \notin T
    BY <1>2, <1>4
  <2>2. PICK f : Scans(f, str, d, m - 1)
    BY <2>1
  <2> DEFINE g == [i \in 0 .. m |-> Scan(f, str, d, i)]
  <2>3. ASSUME NEW i \in 0 .. m - 1
        PROVE  i \in 0 .. m /\ g[i] = f[i]
    <3>1. i \in 0 .. m
      BY <2>1
    <3>2. f[i] = Scan(f, str, d, i)
      BY <2>2 DEF Scans
    <3> QED
      BY <3>1, <3>2
  <2> HIDE DEF g
  <2>4. ASSUME NEW i \in 0 .. m
        PROVE  Scan(f, str, d, i) = Scan(g, str, d, i)
    <3>1. CASE i = 0
      BY <3>1 DEF Scan
    <3>2. CASE i # 0
      <4>1. i - 1 \in 0 .. m - 1
        BY <2>1, <3>2
      <4>2. g[i - 1] = f[i - 1]
        BY <2>3, <4>1
      <4> QED
        BY <3>2, <4>2 DEF Scan
    <3> QED
      BY <3>1, <3>2
  <2>5. g = [i \in 0 .. m |-> Scan(g, str, d, i)]
    BY <2>4 DEF g
  <2>6. Scans(g, str, d, m)
    BY <2>5 DEF Scans
  <2> QED
    BY <1>2, <2>6
<1> QED
  BY <1>3, <1>4

(* split() is what the loop leaves behind. *)
LEMMA SplitIs ==
  ASSUME NEW S, NEW str \in Seq(S), NEW d
  PROVE  \E f : /\ Scans(f, str, d, Len(str))
                /\ split(str, d) = lastField(f[Len(str)].result, f[Len(str)].current)
<1> DEFINE n == Len(str)
           F == CHOOSE f : f = [i \in 0 .. n |->
                  IF i = 0 THEN [result |-> <<>>, current |-> <<>>]
                  ELSE LET s == f[i - 1]
                       IN  IF str[i] = d
                           THEN [result |-> Append(s.result, s.current), current |-> <<>>]
                           ELSE [result |-> s.result, current |-> Append(s.current, str[i])]]
<1>1. n \in Nat
  BY LenProperties
<1>2. \E f : Scans(f, str, d, n)
  BY <1>1, ScansExist
<1>3. Scans(F, str, d, n)
  BY <1>2, Zenon DEF Scans, Scan
<1>4. split(str, d) = lastField(F[n].result, F[n].current)
  BY DEF split
<1> QED
  BY <1>3, <1>4

(* A character appended to the second of two strings. *)
LEMMA AppendToConcat ==
  ASSUME NEW S, NEW s \in Seq(S), NEW t \in Seq(S), NEW e \in S
  PROVE  s \o Append(t, e) = Append(s \o t, e)
<1> DEFINE n == Len(s)
           m == Len(t)
           more == Append(t, e)
           both == s \o t
           a == s \o more
           b == Append(both, e)
<1>1. n \in Nat /\ m \in Nat
  BY LenProperties
<1>2. /\ more \in Seq(S) /\ Len(more) = m + 1
      /\ (\A i \in 1 .. m : more[i] = t[i]) /\ more[m + 1] = e
  BY AppendProperties
<1>3. /\ both \in Seq(S) /\ Len(both) = n + m
      /\ \A i \in 1 .. n + m : both[i] = IF i <= n THEN s[i] ELSE t[i - n]
  BY ConcatProperties
<1> HIDE DEF more, both
<1>4. /\ a \in Seq(S) /\ Len(a) = n + Len(more)
      /\ \A i \in 1 .. n + Len(more) : a[i] = IF i <= n THEN s[i] ELSE more[i - n]
  BY <1>2, ConcatProperties
<1>5. /\ b \in Seq(S) /\ Len(b) = Len(both) + 1
      /\ (\A i \in 1 .. Len(both) : b[i] = both[i]) /\ b[Len(both) + 1] = e
  BY <1>3, AppendProperties
<1> HIDE DEF a, b, n, m
<1>6. Len(a) = n + m + 1 /\ Len(b) = n + m + 1
  BY <1>1, <1>2, <1>3, <1>4, <1>5
<1>7. ASSUME NEW i \in 1 .. n + m + 1
      PROVE  a[i] = b[i]
  <2>1. CASE i <= n
    BY <1>1, <1>2, <1>3, <1>4, <1>5, <2>1
  <2>2. CASE i > n /\ i <= n + m
    <3>1. i - n \in 1 .. m /\ i \in 1 .. n + m /\ i \in 1 .. n + (m + 1) /\ ~(i <= n)
      BY <1>1, <2>2
    <3> QED
      BY <1>2, <1>3, <1>4, <1>5, <3>1
  <2>3. CASE i = n + m + 1
    <3>1. i - n = m + 1 /\ i \in 1 .. n + (m + 1) /\ ~(i <= n)
      BY <1>1, <2>3
    <3> QED
      BY <1>2, <1>3, <1>4, <1>5, <2>3, <3>1
  <2> QED
    BY <1>1, <2>1, <2>2, <2>3
<1>8. a = b
  BY <1>4, <1>5, <1>6, <1>7, SeqEqual
<1> QED
  BY <1>8 DEF a, b, more, both

(* A field of the first i characters is empty. *)
EmptyBefore(str, d, i) == \E m \in 1 .. i : str[m] = d /\ (m = 1 \/ str[m - 1] = d)

(* What the loop knows: the fields and the one being collected are the      *)
(* characters so far, and the only empty ones are those the user wrote.     *)
Splitting(result, current, str, d, i) ==
  /\ result \in Seq(Strings) /\ current \in Strings
  /\ result # <<>> => concat(result, <<d>>) \in Strings
  /\ concat(Append(result, current), <<d>>) = SubSeq(str, 1, i)
  /\ current = <<>> <=> i = 0 \/ str[i] = d
  /\ (\E j \in DOMAIN result : result[j] = <<>>) <=> EmptyBefore(str, d, i)

(* A prefix and the next character. *)
LEMMA Prefix ==
  ASSUME NEW str \in Strings, NEW i \in 0 .. Len(str) - 1
  PROVE  /\ SubSeq(str, 1, i) \in Strings /\ str[i + 1] \in Chars
         /\ SubSeq(str, 1, i + 1) = Append(SubSeq(str, 1, i), str[i + 1])
         /\ SubSeq(str, 1, i + 1) = SubSeq(str, 1, i) \o <<str[i + 1]>>
<1> DEFINE p == SubSeq(str, 1, i)
           q == SubSeq(str, 1, i + 1)
           x == str[i + 1]
<1>1. Len(str) \in Nat /\ i \in Nat /\ i + 1 \in 1 .. Len(str)
  BY LenProperties DEF Strings
<1>2. \A k \in 1 .. i + 1 : str[k] \in Chars
  BY <1>1, ElementOfSeq DEF Strings
<1>3. /\ p \in Seq(Chars) /\ Len(p) = i /\ \A k \in 1 .. i : p[k] = str[k]
  <2>1. /\ p \in Seq(Chars) /\ Len(p) = (IF 1 <= i THEN i - 1 + 1 ELSE 0)
        /\ \A k \in 1 .. i - 1 + 1 : p[k] = str[1 + k - 1]
    BY <1>1, <1>2, SubSeqProperties
  <2> HIDE DEF p
  <2>2. i - 1 + 1 = i /\ \A k \in 1 .. i : 1 + k - 1 = k
    BY <1>1
  <2> QED
    BY <1>1, <2>1, <2>2
<1>4. /\ q \in Seq(Chars) /\ Len(q) = i + 1 /\ \A k \in 1 .. i + 1 : q[k] = str[k]
  <2> DEFINE m == i + 1
  <2>1. m \in Int /\ 1 <= m /\ \A k \in 1 .. m : str[k] \in Chars
    BY <1>1, <1>2
  <2> HIDE DEF m
  <2>2. /\ SubSeq(str, 1, m) \in Seq(Chars)
        /\ Len(SubSeq(str, 1, m)) = (IF 1 <= m THEN m - 1 + 1 ELSE 0)
        /\ \A k \in 1 .. m - 1 + 1 : SubSeq(str, 1, m)[k] = str[1 + k - 1]
    BY <2>1, SubSeqProperties
  <2>3. m - 1 + 1 = m /\ \A k \in 1 .. m : 1 + k - 1 = k
    BY <2>1
  <2>4. /\ SubSeq(str, 1, m) \in Seq(Chars) /\ Len(SubSeq(str, 1, m)) = m
        /\ \A k \in 1 .. m : SubSeq(str, 1, m)[k] = str[k]
    BY <2>1, <2>2, <2>3
  <2> QED
    BY <2>4 DEF m
<1>5. x \in Chars
  BY <1>1, <1>2
<1> HIDE DEF p, q, x
<1>6. /\ Append(p, x) \in Seq(Chars) /\ Len(Append(p, x)) = i + 1
      /\ \A k \in 1 .. i : Append(p, x)[k] = p[k]
      /\ Append(p, x)[i + 1] = x
  BY <1>3, <1>5, AppendProperties
<1>7. \A k \in 1 .. i + 1 : q[k] = Append(p, x)[k]
  <2> SUFFICES ASSUME NEW k \in 1 .. i + 1 PROVE q[k] = Append(p, x)[k]
    OBVIOUS
  <2>1. k \in 1 .. i \/ k = i + 1
    BY <1>1
  <2> QED
    BY <1>3, <1>4, <1>6, <2>1 DEF x
<1>8. q = Append(p, x)
  BY <1>4, <1>6, <1>7, SeqEqual
<1>9. Append(p, x) = p \o <<x>>
  BY <1>3, <1>5, AppendIsConcat
<1> QED
  BY <1>3, <1>5, <1>8, <1>9 DEF p, q, x, Strings

LEMMA SplitStep ==
  ASSUME NEW str \in Strings, NEW d \in Chars, NEW i \in 0 .. Len(str) - 1,
         NEW result, NEW current, Splitting(result, current, str, d, i)
  PROVE  IF str[i + 1] = d
         THEN Splitting(Append(result, current), <<>>, str, d, i + 1)
         ELSE Splitting(result, Append(current, str[i + 1]), str, d, i + 1)
<1> DEFINE x == str[i + 1]
           all == Append(result, current)
           seen == SubSeq(str, 1, i)
<1>1. /\ result \in Seq(Strings) /\ current \in Strings
      /\ concat(all, <<d>>) = seen
      /\ current = <<>> <=> i = 0 \/ str[i] = d
      /\ (\E j \in DOMAIN result : result[j] = <<>>) <=> EmptyBefore(str, d, i)
  BY DEF Splitting
<1>2. /\ seen \in Strings /\ x \in Chars
      /\ SubSeq(str, 1, i + 1) = Append(seen, x)
      /\ SubSeq(str, 1, i + 1) = seen \o <<x>>
  BY Prefix
<1>3. /\ all \in Seq(Strings) /\ all # <<>> /\ Len(result) \in Nat
      /\ DOMAIN result = 1 .. Len(result) /\ DOMAIN all = 1 .. Len(result) + 1
      /\ \A j \in 1 .. Len(result) : all[j] = result[j]
      /\ all[Len(result) + 1] = current
  BY <1>1, AppendProperties, LenProperties
<1>4. i \in Nat /\ Len(str) \in Nat
  BY LenProperties DEF Strings
<1>5. <<>> \in Strings /\ <<d>> \in Strings
  BY EmptySeq DEF Strings
<1> HIDE DEF all, seen
<1>6. CASE x = d
  <2>1. concat(Append(all, <<>>), <<d>>) = SubSeq(str, 1, i + 1)
    <3>1. concat(Append(all, <<>>), <<d>>) = concat(all, <<d>>) \o <<d>> \o <<>>
      BY <1>3, <1>5, ConcatAppend
    <3>2. seen \o <<d>> \in Strings
      BY <1>2, <1>5, ConcatProperties DEF Strings
    <3>3. seen \o <<d>> \o <<>> = seen \o <<d>>
      BY <3>2, ConcatEmptySeq DEF Strings
    <3> QED
      BY <1>1, <1>2, <1>6, <3>1, <3>3
  <2>2. (\E j \in DOMAIN all : all[j] = <<>>) <=> EmptyBefore(str, d, i) \/ current = <<>>
    <3>1. 1 .. Len(result) + 1 = (1 .. Len(result)) \cup {Len(result) + 1}
      BY <1>3
    <3> QED
      BY <1>1, <1>3, <3>1
  <2>3. EmptyBefore(str, d, i + 1) <=> EmptyBefore(str, d, i) \/ i = 0 \/ str[i] = d
    <3>1. 1 .. i + 1 = (1 .. i) \cup {i + 1} /\ (i + 1 = 1 <=> i = 0) /\ (i + 1) - 1 = i
      BY <1>4
    <3> QED
      BY <1>6, <3>1 DEF EmptyBefore
  <2>4. Splitting(all, <<>>, str, d, i + 1)
    BY <1>1, <1>2, <1>3, <1>5, <1>6, <2>1, <2>2, <2>3 DEF Splitting
  <2> QED
    BY <1>6, <2>4 DEF all
<1>7. CASE x # d
  <2> DEFINE longer == Append(current, x)
  <2>1. longer \in Strings /\ longer # <<>>
    BY <1>1, <1>2, AppendProperties DEF Strings
  <2>2. concat(Append(result, longer), <<d>>) = SubSeq(str, 1, i + 1)
    <3>1. CASE result = <<>>
      <4>1. all = <<current>> /\ Append(result, longer) = <<longer>>
        BY <3>1 DEF all
      <4>2. concat(all, <<d>>) = current /\ concat(Append(result, longer), <<d>>) = longer
        BY <4>1, ConcatOne
      <4> QED
        BY <1>1, <1>2, <4>2
    <3>2. CASE result # <<>>
      <4> DEFINE p == concat(result, <<d>>) \o <<d>>
      <4>1. p \in Strings
        BY <1>5, <3>2, ConcatProperties DEF Splitting, Strings
      <4>2. concat(all, <<d>>) = p \o current
        BY <1>1, <3>2, ConcatAppend DEF all
      <4>3. concat(Append(result, longer), <<d>>) = p \o longer
        BY <1>1, <2>1, <3>2, ConcatAppend
      <4> HIDE DEF p
      <4>4. p \o longer = Append(p \o current, x)
        <5>1. p \in Seq(Chars) /\ current \in Seq(Chars) /\ x \in Chars
          BY <1>1, <1>2, <4>1 DEF Strings
        <5> HIDE DEF x
        <5>2. p \o Append(current, x) = Append(p \o current, x)
          BY <5>1, AppendToConcat
        <5> QED
          BY <5>2
      <4> QED
        BY <1>1, <1>2, <4>2, <4>3, <4>4
    <3> QED
      BY <3>1, <3>2
  <2>3. EmptyBefore(str, d, i + 1) <=> EmptyBefore(str, d, i)
    <3>1. 1 .. i + 1 = (1 .. i) \cup {i + 1}
      BY <1>4
    <3> QED
      BY <1>7, <3>1 DEF EmptyBefore
  <2> HIDE DEF longer
  <2>4. i + 1 # 0 /\ i + 1 \in Nat
    BY <1>4
  <2>5. Splitting(result, longer, str, d, i + 1)
    BY <1>1, <1>7, <2>1, <2>2, <2>3, <2>4 DEF Splitting
  <2> QED
    BY <1>7, <2>5 DEF longer
<1> QED
  BY <1>6, <1>7

(* A part of one element. *)
LEMMA SubSeqOne ==
  ASSUME NEW S, NEW s \in Seq(S), NEW i \in 1 .. Len(s)
  PROVE  SubSeq(s, i, i) = <<s[i]>>
<1>1. Len(s) \in Nat /\ i \in Int /\ s[i] \in S
  BY LenProperties, ElementOfSeq
<1>2. \A k \in i .. i : s[k] \in S
  BY <1>1
<1>3. /\ SubSeq(s, i, i) \in Seq(S) /\ Len(SubSeq(s, i, i)) = (IF i <= i THEN i - i + 1 ELSE 0)
      /\ \A k \in 1 .. i - i + 1 : SubSeq(s, i, i)[k] = s[i + k - 1]
  BY <1>1, <1>2, SubSeqProperties
<1>4. i - i + 1 = 1 /\ i + 1 - 1 = i /\ i <= i
  BY <1>1
<1>5. Len(SubSeq(s, i, i)) = 1 /\ SubSeq(s, i, i)[1] = s[i]
  BY <1>3, <1>4
<1>6. <<s[i]>> \in Seq(S) /\ Len(<<s[i]>>) = 1 /\ <<s[i]>>[1] = s[i]
  BY <1>1
<1>7. \A k \in 1 .. 1 : SubSeq(s, i, i)[k] = <<s[i]>>[k]
  BY <1>5, <1>6
<1> QED
  BY <1>3, <1>5, <1>6, <1>7, SeqEqual

(* What an appended element leaves before it. *)
LEMMA FrontOfConcat ==
  ASSUME NEW S, NEW p \in Seq(S), NEW e \in S
  PROVE  Len(p \o <<e>>) # 0 /\ Front(p \o <<e>>) = p
<1> DEFINE s == p \o <<e>>
           n == Len(p)
<1>1. n \in Nat /\ <<e>> \in Seq(S) /\ Len(<<e>>) = 1
  BY LenProperties
<1>2. /\ s \in Seq(S) /\ Len(s) = n + 1
      /\ \A i \in 1 .. n + 1 : s[i] = IF i <= n THEN p[i] ELSE <<e>>[i - n]
  BY <1>1, ConcatProperties
<1> HIDE DEF s, n
<1>3. \A k \in 1 .. n : s[k] = p[k] /\ s[k] \in S
  BY <1>1, <1>2, ElementOfSeq DEF n
<1>4. Front(s) = SubSeq(s, 1, n)
  BY <1>1, <1>2 DEF Front
<1> DEFINE t == SubSeq(s, 1, n)
<1>5. /\ t \in Seq(S) /\ Len(t) = (IF 1 <= n THEN n - 1 + 1 ELSE 0)
      /\ \A k \in 1 .. n - 1 + 1 : t[k] = s[1 + k - 1]
  BY <1>1, <1>3, SubSeqProperties
<1> HIDE DEF t
<1>6. Len(t) = n /\ \A k \in 1 .. n : t[k] = p[k]
  BY <1>1, <1>3, <1>5
<1>7. t = p
  BY <1>5, <1>6, SeqEqual DEF n
<1> QED
  BY <1>1, <1>2, <1>4, <1>7 DEF s, t

(* The loop of split() keeps its invariant. *)
LEMMA ScanIs ==
  ASSUME NEW str \in Strings, NEW d \in Chars, NEW f, Scans(f, str, d, Len(str))
  PROVE  \A i \in 0 .. Len(str) : Splitting(f[i].result, f[i].current, str, d, i)
<1> DEFINE n == Len(str)
           T == {i \in 0 .. n : ~ Splitting(f[i].result, f[i].current, str, d, i)}
<1>1. SUFFICES ASSUME T # {} PROVE FALSE
  OBVIOUS
<1>2. n \in Nat
  BY LenProperties DEF Strings
<1>3. PICK i \in T : \A j \in T : i <= j
  <2>1. T \in SUBSET Nat
    BY <1>2
  <2> QED
    BY <1>1, <2>1, LeastOf
<1>4. i \in 0 .. n /\ ~ Splitting(f[i].result, f[i].current, str, d, i) /\ f[i] = Scan(f, str, d, i)
  BY <1>3 DEF Scans
<1>5. CASE i = 0
  <2>1. f[i] = [result |-> <<>>, current |-> <<>>]
    BY <1>4, <1>5 DEF Scan
  <2>2. <<>> \in Strings /\ <<>> \in Seq(Strings) /\ Append(<<>>, <<>>) = << <<>> >>
    BY EmptySeq DEF Strings
  <2>3. concat(<< <<>> >>, <<d>>) = <<>> /\ SubSeq(str, 1, 0) = <<>>
    BY ConcatOne, SubSeqEmpty
  <2>4. ~ EmptyBefore(str, d, 0)
    BY DEF EmptyBefore
  <2>5. Splitting(<<>>, <<>>, str, d, 0)
    BY <2>2, <2>3, <2>4 DEF Splitting
  <2> QED
    BY <1>4, <1>5, <2>1, <2>5
<1>6. CASE i # 0
  <2>1. i - 1 \in 0 .. n - 1 /\ i - 1 \in 0 .. n /\ i - 1 \notin T /\ (i - 1) + 1 = i
    BY <1>2, <1>3, <1>4, <1>6
  <2> DEFINE s == f[i - 1]
  <2>2. Splitting(s.result, s.current, str, d, i - 1)
    BY <2>1
  <2>3. f[i] = IF str[i] = d
               THEN [result |-> Append(s.result, s.current), current |-> <<>>]
               ELSE [result |-> s.result, current |-> Append(s.current, str[i])]
    BY <1>4, <1>6 DEF Scan
  <2> HIDE DEF s
  <2>4. IF str[(i - 1) + 1] = d
        THEN Splitting(Append(s.result, s.current), <<>>, str, d, (i - 1) + 1)
        ELSE Splitting(s.result, Append(s.current, str[(i - 1) + 1]), str, d, (i - 1) + 1)
    BY <2>1, <2>2, SplitStep
  <2>5. IF str[i] = d
        THEN Splitting(Append(s.result, s.current), <<>>, str, d, i)
        ELSE Splitting(s.result, Append(s.current, str[i]), str, d, i)
    BY <2>1, <2>4, Zenon
  <2> QED
    BY <1>4, <2>3, <2>5
<1> QED
  BY <1>5, <1>6

(* What split() promises: the fields joined are the argument, but for one   *)
(* trailing delimiter, and a field is empty only if the user left it so.    *)
LEMMA SplitFacts ==
  ASSUME NEW str \in Strings, NEW d \in Chars
  PROVE  /\ split(str, d) \in Seq(Strings)
         /\ concat(split(str, d), <<d>>) = IF endsWith(str, <<d>>) THEN Front(str) ELSE str
         /\ (\E j \in DOMAIN split(str, d) : split(str, d)[j] = <<>>) <=> EmptyBefore(str, d, Len(str))
<1> DEFINE n == Len(str)
           fields == split(str, d)
<1>1. PICK f : /\ Scans(f, str, d, n)
               /\ split(str, d) = lastField(f[n].result, f[n].current)
  BY SplitIs DEF Strings
<1> DEFINE result == f[n].result
           current == f[n].current
<1>2. n \in Nat /\ n \in 0 .. n
  BY LenProperties DEF Strings
<1>3. Splitting(result, current, str, d, n)
  BY <1>1, <1>2, ScanIs
<1>4. fields = IF current # <<>> THEN Append(result, current) ELSE result
  BY <1>1 DEF lastField
<1>5. SubSeq(str, 1, n) = str
  BY SubSeqFull DEF Strings
<1> HIDE DEF fields, result, current, n
<1>6. /\ result \in Seq(Strings) /\ current \in Strings
      /\ concat(Append(result, current), <<d>>) = str
      /\ current = <<>> <=> n = 0 \/ str[n] = d
      /\ (\E j \in DOMAIN result : result[j] = <<>>) <=> EmptyBefore(str, d, n)
  BY <1>3, <1>5 DEF Splitting
<1>7. endsWith(str, <<d>>) <=> n # 0 /\ str[n] = d
  <2>1. Len(<<d>>) = 1 /\ <<d>>[1] = d
    OBVIOUS
  <2>2. CASE n = 0
    BY <2>1, <2>2 DEF endsWith, n
  <2>3. CASE n # 0
    <3>1. (n - 1) + 1 = n /\ n >= 1 /\ n \in 1 .. n
      BY <1>2, <2>3
    <3>2. SubSeq(str, n, n) = <<str[n]>>
      BY <3>1, SubSeqOne DEF Strings, n
    <3>3. endsWith(str, <<d>>) <=> <<str[n]>> = <<d>>
      BY <2>1, <3>1, <3>2 DEF endsWith, n
    <3>4. <<str[n]>> = <<d>> <=> str[n] = d
      OBVIOUS
    <3> QED
      BY <2>3, <3>3, <3>4
  <2> QED
    BY <2>2, <2>3
<1>8. CASE current # <<>>
  <2>1. fields = Append(result, current)
    BY <1>4, <1>8
  <2>2. ~ endsWith(str, <<d>>)
    BY <1>6, <1>7, <1>8
  <2>3. fields \in Seq(Strings)
    BY <1>6, <2>1, AppendProperties
  <2>4. (\E j \in DOMAIN fields : fields[j] = <<>>) <=> (\E j \in DOMAIN result : result[j] = <<>>)
    <3>1. /\ Len(result) \in Nat /\ DOMAIN result = 1 .. Len(result)
          /\ DOMAIN fields = 1 .. Len(result) + 1
          /\ \A j \in 1 .. Len(result) : fields[j] = result[j]
          /\ fields[Len(result) + 1] = current
      BY <1>6, <2>1, AppendProperties, LenProperties
    <3>2. 1 .. Len(result) + 1 = (1 .. Len(result)) \cup {Len(result) + 1}
      BY <3>1
    <3> QED
      BY <1>8, <3>1, <3>2
  <2> QED
    BY <1>6, <2>1, <2>2, <2>3, <2>4 DEF fields, n
<1>9. CASE current = <<>>
  <2>1. fields = result
    BY <1>4, <1>9
  <2>2. CASE result = <<>>
    <3>1. str = <<>>
      <4>1. Append(result, current) = << <<>> >>
        BY <1>9, <2>2
      <4> QED
        BY <1>6, <4>1, ConcatOne
    <3>2. concat(fields, <<d>>) = <<>>
      BY <2>1, <2>2 DEF concat
    <3>3. ~ endsWith(str, <<d>>)
      BY <1>7, <3>1 DEF n
    <3> QED
      BY <1>6, <2>1, <3>1, <3>2, <3>3 DEF fields, n
  <2>3. CASE result # <<>>
    <3> DEFINE p == concat(result, <<d>>)
    <3>1. p \in Seq(Chars) /\ <<d>> \in Seq(Chars) /\ p \o <<d>> \in Seq(Chars)
      BY <1>3, <2>3, ConcatProperties DEF Splitting, Strings
    <3>2. str = p \o <<d>> \o <<>>
      BY <1>6, <1>9, <2>3, ConcatAppend
    <3> HIDE DEF p
    <3>3. str = p \o <<d>>
      BY <3>1, <3>2, ConcatEmptySeq
    <3>4. Len(str) # 0 /\ Front(str) = p
      BY <3>1, <3>3, FrontOfConcat
    <3>5. endsWith(str, <<d>>)
      BY <1>6, <1>7, <1>9, <3>4 DEF n
    <3> QED
      BY <1>6, <2>1, <3>4, <3>5 DEF fields, n, p
  <2> QED
    BY <2>2, <2>3
<1> QED
  BY <1>8, <1>9

-----------------------------------------------------------------------------
(* toEvents(), for any records. *)

(* What the walk over the records copies from record i on. *)
Copied(s, i) == SubSeq(s, i, IF i < Len(s) THEN Len(s) - 1 ELSE i)

Walk(f, s, i) ==
  <<s[i]>> \o (IF Following(s, i) < Len(s) THEN f[Following(s, i)] ELSE <<>>)

(* One record more at the front of the walk. *)
LEMMA WalkStep ==
  ASSUME NEW S, NEW s \in Seq(S), NEW f, NEW i \in DOMAIN s,
         i + 1 < Len(s) => f[i + 1] = Copied(s, i + 1)
  PROVE  Walk(f, s, i) = Copied(s, i)
<1> DEFINE n == Len(s)
<1>1. n \in Nat /\ i \in Nat /\ 1 <= i /\ i <= n /\ i \in 1 .. n /\ s[i] \in S
  BY LenProperties, ElementOfSeq
<1>2. <<s[i]>> \in Seq(S)
  BY <1>1
<1>3. CASE i + 1 < n
  <2>1. Following(s, i) = i + 1 /\ i < n /\ n - 1 \in i .. n
    BY <1>1, <1>3 DEF Following
  <2>2. SubSeq(s, i, n - 1) = <<s[i]>> \o SubSeq(s, i + 1, n - 1)
    BY <1>1, <2>1, SubSeqRecursiveFirst
  <2>3. Copied(s, i) = SubSeq(s, i, n - 1) /\ Copied(s, i + 1) = SubSeq(s, i + 1, n - 1)
    BY <1>3, <2>1 DEF Copied
  <2>4. Walk(f, s, i) = <<s[i]>> \o f[i + 1]
    BY <1>3, <2>1 DEF Walk
  <2> QED
    BY <1>3, <2>2, <2>3, <2>4
<1>4. CASE ~ (i + 1 < n)
  <2>1. ~ (Following(s, i) < n)
    BY <1>1, <1>4 DEF Following
  <2>2. (IF i < n THEN n - 1 ELSE i) = i
    BY <1>1, <1>4
  <2>3. Copied(s, i) = <<s[i]>>
    BY <1>1, <2>2, SubSeqOne DEF Copied
  <2>4. Walk(f, s, i) = <<s[i]>> \o <<>>
    BY <2>1 DEF Walk
  <2> QED
    BY <1>2, <2>3, <2>4, ConcatEmptySeq
<1> QED
  BY <1>3, <1>4

(* Every such walk copies those records, and there is one. *)
LEMMA WalkIs ==
  ASSUME NEW S, NEW s \in Seq(S), NEW f, f = [i \in DOMAIN s |-> Walk(f, s, i)]
  PROVE  \A i \in DOMAIN s : f[i] = Copied(s, i)
<1> DEFINE n == Len(s)
           T == {k \in 0 .. n - 1 : f[n - k] # Copied(s, n - k)}
<1>1. n \in Nat /\ DOMAIN s = 1 .. n
  BY LenProperties
<1> HIDE DEF n
<1>2. ASSUME T # {} PROVE FALSE
  <2>1. T \in SUBSET Nat
    BY <1>1
  <2>2. PICK k \in T : \A m \in T : k <= m
    BY <1>2, <2>1, LeastOf
  <2> DEFINE i == n - k
  <2>3. k \in 0 .. n - 1 /\ i \in 1 .. n /\ i \in DOMAIN s
    BY <1>1, <2>2
  <2>4. i + 1 < n => f[i + 1] = Copied(s, i + 1)
    <3> SUFFICES ASSUME i + 1 < n PROVE f[i + 1] = Copied(s, i + 1)
      OBVIOUS
    <3>1. k - 1 \in 0 .. n - 1 /\ n - (k - 1) = i + 1 /\ ~ (k <= k - 1)
      BY <1>1, <2>3
    <3>2. k - 1 \notin T
      BY <2>2, <3>1
    <3> QED
      BY <3>1, <3>2
  <2>5. f[i] = Walk(f, s, i)
    BY <2>3
  <2> HIDE DEF i
  <2>6. f[i] = Copied(s, i)
    BY <2>3, <2>4, <2>5, WalkStep DEF n
  <2> QED
    BY <2>2, <2>6 DEF i
<1>3. ASSUME NEW i \in 1 .. n PROVE f[i] = Copied(s, i)
  <2>1. n - i \in 0 .. n - 1 /\ n - (n - i) = i
    BY <1>1
  <2>2. n - i \notin T
    BY <1>2
  <2> QED
    BY <2>1, <2>2
<1> QED
  BY <1>1, <1>3

LEMMA WalkExists ==
  ASSUME NEW S, NEW s \in Seq(S)
  PROVE  \E f : f = [i \in DOMAIN s |-> Walk(f, s, i)]
<1> DEFINE f == [i \in DOMAIN s |-> Copied(s, i)]
<1>1. ASSUME NEW i \in DOMAIN s PROVE Copied(s, i) = Walk(f, s, i)
  <2>1. i + 1 < Len(s) => f[i + 1] = Copied(s, i + 1)
    BY LenProperties
  <2> HIDE DEF f
  <2> QED
    BY <2>1, WalkStep
<1> QED
  BY <1>1

(* What toEvents() leaves out: nothing but the last of several records. *)
LEMMA ToEventsIs ==
  ASSUME NEW S, NEW s \in Seq(S), s # <<>>
  PROVE  /\ toEvents(s) \in Seq(S)
         /\ Len(toEvents(s)) = IF Len(s) = 1 THEN 1 ELSE Len(s) - 1
         /\ \A i \in 1 .. Len(toEvents(s)) : toEvents(s)[i] = s[i]
<1> DEFINE n == Len(s)
           k == IF n = 1 THEN 1 ELSE n - 1
<1>1. n \in Nat /\ n # 0 /\ 1 \in DOMAIN s /\ DOMAIN s = 1 .. n
  BY LenProperties, EmptySeq
<1>2. toEvents(s) = Copied(s, 1)
  <2> DEFINE walk == CHOOSE f : f = [i \in DOMAIN s |-> Walk(f, s, i)]
  <2>1. toEvents(s) = walk[1]
    BY DEF toEvents, Walk
  <2>2. walk = [i \in DOMAIN s |-> Walk(walk, s, i)]
    BY WalkExists
  <2> HIDE DEF walk
  <2> QED
    BY <1>1, <2>1, <2>2, WalkIs
<1>3. k \in Nat /\ 1 <= k /\ k <= n /\ (IF 1 < n THEN n - 1 ELSE 1) = k
  BY <1>1
<1>4. toEvents(s) = SubSeq(s, 1, k)
  BY <1>2, <1>3 DEF Copied
<1>5. \A i \in 1 .. k : s[i] \in S
  BY <1>1, <1>3, ElementOfSeq
<1> HIDE DEF k
<1>6. /\ SubSeq(s, 1, k) \in Seq(S) /\ Len(SubSeq(s, 1, k)) = IF 1 <= k THEN k - 1 + 1 ELSE 0
      /\ \A i \in 1 .. k - 1 + 1 : SubSeq(s, 1, k)[i] = s[1 + i - 1]
  BY <1>3, <1>5, SubSeqProperties
<1>7. k - 1 + 1 = k /\ \A i \in 1 .. k : 1 + i - 1 = i
  BY <1>3
<1>8. Len(toEvents(s)) = k /\ \A i \in 1 .. k : toEvents(s)[i] = s[i]
  BY <1>3, <1>4, <1>6, <1>7
<1> QED
  BY <1>4, <1>6, <1>8 DEF k

-----------------------------------------------------------------------------
(* From a change to its command: every record is that of a change, and the  *)
(* numbers of the changes on their way follow one another.                 *)

(* One of the extensions e ends the name. *)
Hit(e, name) == \E i \in DOMAIN e : endsWith(name, e[i])

(* The record in the zeroed memory. *)
Blank == [id |-> 0, file |-> <<>>]

(* The record is that of a change in c, or, once changes were forgotten, the *)
(* zeroed one.                                                               *)
Real(r, c) == r.id \in DOMAIN c /\ r.file = c[r.id]
AllReal(s, c, gone) == \A i \in DOMAIN s : Real(s[i], c) \/ (gone /\ s[i] = Blank)

(* What the command ran on. *)
RanReal(r, c, e, gone) ==
  \A i \in DOMAIN r :
    \/ r[i] \in DOMAIN c /\ Hit(e, c[r[i]])
    \/ gone /\ r[i] = 0 /\ Hit(e, <<>>)

(* The records that the loop will get, when the read did not fail. *)
Block == IF queue # <<>> /\ ~Head(queue).failed THEN mem[Head(queue).buffer] ELSE <<>>

(* Everything anywhere is the record of a change. *)
RecordsInv ==
  /\ TypeOK
  /\ extensions = split(argument, comma)
  /\ overflowed => forgotten
  /\ phase # "handle" => events = <<>>
  /\ port # "open" => ran = <<>> /\ phase # "handle"
  /\ \A b \in Buffers : mem[b] # <<>> /\ AllReal(mem[b], changes, TRUE)
  /\ AllReal(backlog, changes, FALSE)
  /\ AllReal(Block, changes, forgotten)
  /\ AllReal(events, changes, forgotten)
  /\ RanReal(ran, changes, extensions, forgotten)

(* The command is still to come for change n, has run or will not. *)
Settles(n, ev, r, c, e) ==
  \/ \E i \in DOMAIN ev : ev[i].id = n
  \/ Hit(e, c[n]) => \E i \in DOMAIN r : r[i] = n

(* The numbers of the changes on their way, when none was forgotten. *)
InOrder(ev, r, t) ==
  /\ \A i \in DOMAIN ev : ev[i].id <= t
  /\ \A i \in DOMAIN r : r[i] <= t
  /\ \A i, j \in DOMAIN ev : i < j => ev[i].id < ev[j].id
  /\ \A i, j \in DOMAIN r : i < j => r[i] < r[j]
  /\ \A i \in DOMAIN r, j \in DOMAIN ev : r[i] < ev[j].id

NoPair(ev, r, c, e, t) ==
  \A n \in 2 .. t : Settles(n - 1, ev, r, c, e) \/ Settles(n, ev, r, c, e)

(* The records are those of consecutive changes. *)
Numbered(s, from) == \A i \in DOMAIN s : s[i].id = from + i

(* The changes whose records the loop has not got are the last ones. *)
FlowInv ==
  ~forgotten /\ port # "null" =>
    LET t == Len(changes) - Len(backlog) - Len(Block)
    IN  /\ Numbered(backlog, Len(changes) - Len(backlog))
        /\ Numbered(Block, t)
        /\ InOrder(events, ran, t)
        /\ NoPair(events, ran, changes, extensions, t)

(* More changes, or forgotten ones, and what was real is. *)
LEMMA StillReal ==
  ASSUME NEW c \in Seq(Files), NEW f \in Files, NEW g \in BOOLEAN, NEW h \in BOOLEAN, g => h
  PROVE  /\ \A s : AllReal(s, c, g) => AllReal(s, c, h) /\ AllReal(s, Append(c, f), h)
         /\ \A r, e : RanReal(r, c, e, g) => RanReal(r, c, e, h) /\ RanReal(r, Append(c, f), e, h)
<1>1. /\ Len(c) \in Nat /\ DOMAIN c = 1 .. Len(c) /\ DOMAIN Append(c, f) = 1 .. Len(c) + 1
      /\ \A i \in 1 .. Len(c) : Append(c, f)[i] = c[i]
  BY AppendProperties, LenProperties
<1>2. 1 .. Len(c) \subseteq 1 .. Len(c) + 1
  BY <1>1
<1>3. \A i \in DOMAIN c : i \in DOMAIN Append(c, f) /\ Append(c, f)[i] = c[i]
  BY <1>1, <1>2
<1> QED
  BY <1>3 DEF AllReal, RanReal, Real

(* Empty things are. *)
LEMMA NothingReal ==
  ASSUME NEW c, NEW g
  PROVE  AllReal(<<>>, c, g)
BY DEF AllReal

(* The loop handles one of the events. *)
LEMMA TailReal ==
  ASSUME NEW s \in Seq(Records), s # <<>>, NEW c, NEW g, AllReal(s, c, g)
  PROVE  /\ Tail(s) \in Seq(Records) /\ AllReal(Tail(s), c, g)
         /\ Head(s) \in Records /\ (Real(Head(s), c) \/ (g /\ Head(s) = Blank))
<1>1. /\ Tail(s) \in Seq(Records) /\ Head(s) \in Records /\ Len(Tail(s)) = Len(s) - 1
      /\ \A i \in 1 .. Len(Tail(s)) : Tail(s)[i] = s[i + 1]
  BY HeadTailProperties
<1>2. /\ DOMAIN s = 1 .. Len(s) /\ Len(s) \in Nat /\ Len(s) # 0
      /\ DOMAIN Tail(s) = 1 .. Len(s) - 1
  BY <1>1, LenProperties, EmptySeq
<1>3. \A i \in 1 .. Len(s) - 1 : i + 1 \in 1 .. Len(s)
  BY <1>2
<1>4. Head(s) = s[1] /\ 1 \in DOMAIN s
  BY <1>2
<1> QED
  BY <1>1, <1>2, <1>3, <1>4 DEF AllReal

(* The kernel records a change. *)
LEMMA AppendReal ==
  ASSUME NEW s \in Seq(Records), NEW c \in Seq(Files), NEW f \in Files,
         NEW r \in Records, r = [id |-> Len(c) + 1, file |-> f], AllReal(s, c, FALSE)
  PROVE  Append(s, r) \in Seq(Records) /\ AllReal(Append(s, r), Append(c, f), FALSE)
<1>1. AllReal(s, Append(c, f), FALSE)
  BY StillReal
<1>2. Real(r, Append(c, f))
  <2>1. /\ Len(c) \in Nat /\ DOMAIN Append(c, f) = 1 .. Len(c) + 1 /\ Append(c, f)[Len(c) + 1] = f
    BY AppendProperties, LenProperties
  <2>2. Len(c) + 1 \in 1 .. Len(c) + 1
    BY <2>1
  <2> QED
    BY <2>1, <2>2 DEF Real
<1>3. /\ Len(s) \in Nat /\ DOMAIN s = 1 .. Len(s)
      /\ Append(s, r) \in Seq(Records) /\ DOMAIN Append(s, r) = 1 .. Len(s) + 1
      /\ (\A i \in 1 .. Len(s) : Append(s, r)[i] = s[i]) /\ Append(s, r)[Len(s) + 1] = r
  BY AppendProperties, LenProperties
<1>4. 1 .. Len(s) + 1 = (1 .. Len(s)) \cup {Len(s) + 1}
  BY <1>3
<1> QED
  BY <1>1, <1>2, <1>3, <1>4 DEF AllReal

(* toEvents() invents nothing. *)
LEMMA EventsReal ==
  ASSUME NEW s \in Seq(Records), s # <<>>, NEW c, NEW g, AllReal(s, c, g)
  PROVE  toEvents(s) \in Seq(Records) /\ AllReal(toEvents(s), c, g)
<1>1. /\ toEvents(s) \in Seq(Records)
      /\ Len(toEvents(s)) = IF Len(s) = 1 THEN 1 ELSE Len(s) - 1
      /\ \A i \in 1 .. Len(toEvents(s)) : toEvents(s)[i] = s[i]
  BY ToEventsIs
<1>2. Len(s) \in Nat /\ Len(s) # 0 /\ DOMAIN s = 1 .. Len(s)
  BY LenProperties, EmptySeq
<1>3. DOMAIN toEvents(s) = 1 .. Len(toEvents(s))
  BY <1>1, LenProperties
<1>4. 1 .. Len(toEvents(s)) \subseteq 1 .. Len(s)
  <2> DEFINE n == Len(s)
             k == Len(toEvents(s))
  <2>1. n \in Nat /\ n # 0 /\ k = IF n = 1 THEN 1 ELSE n - 1
    BY <1>1, <1>2
  <2> HIDE DEF n, k
  <2>2. k \in Nat /\ k <= n
    BY <2>1
  <2>3. 1 .. k \subseteq 1 .. n
    BY <2>1, <2>2
  <2> QED
    BY <2>3 DEF n, k
<1> QED
  BY <1>1, <1>2, <1>3, <1>4 DEF AllReal

(* What the loop gets after each kind of step. *)
LEMMA BlockAfter ==
  ASSUME PoolInv
  PROVE  /\ UNCHANGED <<queue, mem>> => Block' = Block
         /\ Report /\ port = "open" =>
              Block = <<>> /\ inFlight \in Buffers /\ Block' = mem'[inFlight]
         /\ Report /\ port # "open" => Block = <<>> /\ Block' = <<>>
         /\ FailRead => Block = <<>> /\ Block' = <<>>
         /\ GetThrows => Block = <<>> /\ Block' = <<>>
         /\ Get => /\ port = "open" /\ Head(queue).buffer \in Buffers
                   /\ Block = mem[Head(queue).buffer] /\ Block' = <<>>
<1>1. UNCHANGED <<queue, mem>> => Block' = Block
  BY DEF Block
<1>2. ASSUME NEW failed \in BOOLEAN, completeRead(failed)
      PROVE  /\ Block = <<>> /\ inFlight \in Buffers
             /\ port # "open" => Block' = <<>>
             /\ failed => Block' = <<>>
             /\ port = "open" /\ ~failed => Block' = mem'[inFlight]
  <2>1. queue = <<>> /\ inFlight \in Buffers
    BY <1>2 DEF PoolInv, PortTypeOK, completeRead
  <2>2. CASE port # "open"
    BY <1>2, <2>1, <2>2 DEF completeRead, Block
  <2>3. CASE port = "open"
    <3> DEFINE p == [buffer |-> inFlight, failed |-> failed]
    <3>1. queue' = <<p>> /\ p.buffer = inFlight /\ p.failed = failed
      BY <1>2, <2>1, <2>3 DEF completeRead
    <3> HIDE DEF p
    <3>2. queue' # <<>> /\ Head(queue') = p
      BY <3>1
    <3> QED
      BY <2>1, <2>3, <3>1, <3>2 DEF Block
  <2> QED
    BY <2>2, <2>3
<1>3. ASSUME GetThrows PROVE Block = <<>> /\ Block' = <<>>
  <2>1. queue' = <<>>
    BY <1>3, OnePacket DEF GetThrows, getThrows, PoolInv
  <2>2. queue # <<>> => Head(queue).failed
    BY <1>3 DEF GetThrows, getThrows, Fails, PoolInv
  <2> QED
    BY <2>1, <2>2 DEF Block
<1>4. ASSUME Get
      PROVE  /\ port = "open" /\ Head(queue).buffer \in Buffers
             /\ Block = mem[Head(queue).buffer] /\ Block' = <<>>
  <2>1. queue # <<>> /\ ~Head(queue).failed /\ queue' = Tail(queue) /\ port = "open"
    BY <1>4 DEF Get, get, PoolInv
  <2>2. Tail(queue) = <<>> /\ Head(queue).buffer \in Buffers
    BY <2>1, OnePacket DEF PoolInv, Packets
  <2> QED
    BY <2>1, <2>2 DEF Block
<1> QED
  BY <1>1, <1>2, <1>3, <1>4 DEF Report, FailRead

LEMMA BlankRecord == Blank \in Records
BY FileAssumption DEF Blank, Records

(* The command runs on one more change. *)
LEMMA RanMore ==
  ASSUME NEW c \in Seq(Files), NEW e, NEW g \in BOOLEAN, NEW r \in Seq(0 .. MaxChanges),
         NEW x \in Records, Real(x, c) \/ (g /\ x = Blank), Hit(e, x.file), RanReal(r, c, e, g)
  PROVE  Append(r, x.id) \in Seq(0 .. MaxChanges) /\ RanReal(Append(r, x.id), c, e, g)
<1>1. x.id \in 0 .. MaxChanges
  BY DEF Records
<1>2. /\ Len(r) \in Nat /\ DOMAIN r = 1 .. Len(r)
      /\ Append(r, x.id) \in Seq(0 .. MaxChanges) /\ DOMAIN Append(r, x.id) = 1 .. Len(r) + 1
      /\ (\A i \in 1 .. Len(r) : Append(r, x.id)[i] = r[i]) /\ Append(r, x.id)[Len(r) + 1] = x.id
  BY <1>1, AppendProperties, LenProperties
<1>3. 1 .. Len(r) + 1 = (1 .. Len(r)) \cup {Len(r) + 1}
  BY <1>2
<1>4. \/ x.id \in DOMAIN c /\ Hit(e, c[x.id])
      \/ g /\ x.id = 0 /\ Hit(e, <<>>)
  BY DEF Real, Blank
<1> QED
  BY <1>2, <1>3, <1>4 DEF RanReal

LEMMA NextRecordsInv ==
  ASSUME PoolInv, PoolInv', RecordsInv, [Next]_vars
  PROVE  RecordsInv'
<1> USE FileAssumption
<1>0. PortTypeOK'
  BY DEF PoolInv
<1>1. ASSUME UNCHANGED <<argVars, queue, mem, kernelVars, events, ran>>,
             phase' \in {"port", "open", "associate", "poll", "get", "handle", "exit"},
             phase' # "handle" => events = <<>>,
             port' # "open" => ran = <<>> /\ phase' # "handle"
      PROVE  RecordsInv'
  <2>1. Block' = Block
    BY <1>1, BlockAfter
  <2> QED
    BY <1>0, <1>1, <2>1 DEF RecordsInv, TypeOK
<1>2. CASE Startup
  <2>1. CASE \E handle \in {"null", "open"} : CreatePort(handle)
    <3>1. port = "none" /\ ran = <<>> /\ events = <<>>
      BY <2>1 DEF CreatePort, Goto, PoolInv, RecordsInv
    <3> QED
      BY <1>1, <2>1, <3>1 DEF CreatePort, Goto
  <2>2. CASE OpenDirectory \/ Associate
    BY <1>1, <2>2 DEF OpenDirectory, Associate, Goto, RecordsInv
  <2> QED
    BY <1>2, <2>1, <2>2 DEF Startup
<1>3. CASE Poll
  <2>1. Block' = Block
    BY <1>3, BlockAfter DEF Poll, allocAndRelease
  <2>2. /\ phase' = "get" /\ events = <<>> /\ watching' \in BOOLEAN
        /\ UNCHANGED <<port, argVars, backlog, overflowed, changes, forgotten, mem, events, ran>>
    BY <1>3 DEF Poll, allocAndRelease, Goto, RecordsInv
  <2> QED
    BY <1>0, <2>1, <2>2 DEF RecordsInv, TypeOK
<1>4. CASE PollThrows \/ EndIteration
  BY <1>1, <1>4 DEF PollThrows, EndIteration, Goto, deleteHeld, RecordsInv
<1>5. CASE Get
  <2>1. /\ port = "open" /\ Block = mem[Head(queue).buffer] /\ Block' = <<>>
        /\ Head(queue).buffer \in Buffers
    BY <1>5, BlockAfter
  <2>2. /\ phase' = "handle" /\ port' = port /\ events' = toEvents(Block)
        /\ UNCHANGED <<argVars, kernelVars, mem, ran>>
    BY <1>5, <2>1 DEF Get, Goto, get
  <2>3. Block \in Seq(Records) /\ Block # <<>>
    BY <2>1 DEF RecordsInv, TypeOK
  <2>4. events' \in Seq(Records) /\ AllReal(events', changes, forgotten)
    BY <2>2, <2>3, EventsReal DEF RecordsInv
  <2> QED
    BY <1>0, <2>1, <2>2, <2>4, NothingReal DEF RecordsInv, TypeOK
<1>6. CASE GetThrows
  <2>1. Block' = <<>> /\ events = <<>>
    BY <1>6, BlockAfter DEF GetThrows, Goto, RecordsInv
  <2>2. phase' = "exit" /\ port' = port /\ UNCHANGED <<argVars, kernelVars, mem, events, ran>>
    BY <1>6 DEF GetThrows, Goto, getThrows
  <2> QED
    BY <1>0, <2>1, <2>2, NothingReal DEF RecordsInv, TypeOK
<1>7. CASE Handle
  <2> DEFINE x == Head(events)
  <2>1. /\ phase = "handle" /\ events # <<>> /\ events' = Tail(events)
        /\ ran' = (IF Hit(extensions, x.file) THEN Append(ran, x.id) ELSE ran)
        /\ UNCHANGED <<argVars, portVars, phase, kernelVars, mem>>
    BY <1>7 DEF Handle, run, Hit
  <2>2. /\ events' \in Seq(Records) /\ AllReal(events', changes, forgotten)
        /\ x \in Records /\ (Real(x, changes) \/ (forgotten /\ x = Blank))
    BY <2>1, TailReal DEF RecordsInv, TypeOK
  <2>3. Block' = Block
    BY <2>1, BlockAfter
  <2>4. port = "open"
    BY <2>1 DEF PoolInv, PortTypeOK, RecordsInv
  <2> HIDE DEF x
  <2>5. ran' \in Seq(0 .. MaxChanges) /\ RanReal(ran', changes, extensions, forgotten)
    BY <2>1, <2>2, RanMore DEF RecordsInv, TypeOK
  <2> QED
    BY <1>0, <2>1, <2>2, <2>3, <2>4, <2>5 DEF RecordsInv, TypeOK
<1>8. CASE Report
  <2>1. /\ backlog' = <<>> /\ overflowed' = FALSE
        /\ mem' = (IF overflowed THEN mem ELSE [mem EXCEPT ![inFlight] = backlog])
        /\ backlog # <<>> \/ overflowed
        /\ port' = port /\ UNCHANGED <<argVars, phase, watching, events, changes, forgotten, ran>>
    BY <1>8 DEF Report, completeRead
  <2>2. inFlight \in Buffers
    BY <1>8 DEF Report, completeRead, PoolInv, PortTypeOK
  <2>3. /\ mem' \in [Buffers -> Seq(Records)]
        /\ \A b \in Buffers : mem'[b] # <<>> /\ AllReal(mem'[b], changes, TRUE)
        /\ AllReal(mem'[inFlight], changes, forgotten)
    <3>1. CASE overflowed
      BY <2>1, <2>2, <3>1 DEF RecordsInv, TypeOK
    <3>2. CASE ~ overflowed
      <4>1. \A g \in BOOLEAN : AllReal(backlog, changes, g)
        BY DEF RecordsInv, AllReal
      <4> QED
        BY <2>1, <2>2, <3>2, <4>1 DEF RecordsInv, TypeOK
    <3> QED
      BY <3>1, <3>2
  <2>4. AllReal(Block', changes, forgotten)
    BY <1>8, <2>3, BlockAfter, NothingReal
  <2>5. Len(backlog') = 0 /\ backlog' \in Seq(Records) /\ AllReal(backlog', changes, FALSE)
    <3>1. AllReal(<<>>, changes, FALSE)
      BY NothingReal
    <3>2. Len(backlog') = 0 /\ backlog' \in Seq(Records)
      BY <2>1
    <3> QED
      BY <2>1, <3>1, <3>2, Zenon
  <2> QED
    <3>0. Len(backlog') <= KernelCap
      <4>1. 0 <= KernelCap
        OBVIOUS
      <4> QED
        BY <2>5, <4>1
    <3>1. TypeOK'
      BY <1>0, <2>1, <2>3, <2>5, <3>0 DEF RecordsInv, TypeOK
    <3> QED
      BY <2>1, <2>3, <2>4, <2>5, <3>1 DEF RecordsInv
<1>9. CASE FailRead
  <2>1. Block' = Block /\ port' = port /\ UNCHANGED <<argVars, phase, kernelVars, mem, events, ran>>
    BY <1>9, BlockAfter DEF FailRead, completeRead
  <2> QED
    BY <1>0, <2>1 DEF RecordsInv, TypeOK
<1>10. ASSUME NEW f \in Files, Change(f) PROVE RecordsInv'
  <2>1. /\ changes' = Append(changes, f) /\ Len(changes) < MaxChanges
        /\ UNCHANGED <<argVars, portVars, phase, watching, mem, events, ran>>
    BY <1>10 DEF Change
  <2>2. /\ changes \in Seq(Files) /\ Len(changes) \in Nat
        /\ changes' \in Seq(Files) /\ Len(changes') <= MaxChanges
    <3>1. changes \in Seq(Files)
      BY DEF RecordsInv, TypeOK
    <3>2. changes' \in Seq(Files) /\ Len(changes') = Len(changes) + 1 /\ Len(changes) \in Nat
      BY <2>1, <3>1, AppendProperties, LenProperties
    <3> QED
      BY <2>1, <3>1, <3>2
  <2>3. /\ overflowed' \in BOOLEAN /\ forgotten' \in BOOLEAN
        /\ forgotten => forgotten'
        /\ overflowed' => forgotten'
    BY <1>10 DEF Change, RecordsInv, TypeOK
  <2>4. /\ backlog' \in Seq(Records) /\ Len(backlog') <= KernelCap
        /\ AllReal(backlog', changes', FALSE)
    <3>1. CASE overflowed \/ Len(backlog) = KernelCap
      <4>1. backlog' = <<>>
        BY <1>10, <3>1 DEF Change
      <4>2. Len(backlog') = 0 /\ backlog' \in Seq(Records)
        BY <4>1
      <4>3. AllReal(backlog', changes', FALSE)
        BY <4>1, NothingReal
      <4>4. 0 <= KernelCap
        OBVIOUS
      <4> QED
        BY <4>2, <4>3, <4>4
    <3>2. CASE ~ (overflowed \/ Len(backlog) = KernelCap)
      <4> DEFINE r == [id |-> Len(changes) + 1, file |-> f]
      <4>1. backlog' = Append(backlog, r)
        BY <1>10, <3>2 DEF Change
      <4>2. r \in Records
        BY <2>1, <2>2 DEF Records
      <4>3. backlog \in Seq(Records) /\ AllReal(backlog, changes, FALSE)
        BY DEF RecordsInv, TypeOK
      <4>4. Len(backlog) \in Nat /\ Len(backlog) <= KernelCap
        BY LenProperties DEF RecordsInv, TypeOK
      <4> HIDE DEF r
      <4>5. backlog' \in Seq(Records) /\ AllReal(backlog', changes', FALSE)
        BY <2>1, <2>2, <4>1, <4>2, <4>3, AppendReal DEF r
      <4>6. Len(backlog') = Len(backlog) + 1
        BY <4>1, <4>2, <4>3, AppendProperties
      <4>7. Len(backlog') <= KernelCap
        BY <3>2, <4>4, <4>6
      <4> QED
        BY <4>5, <4>7, Zenon
    <3> QED
      BY <3>1, <3>2, Zenon
  <2>5. Block' = Block
    BY <2>1, BlockAfter
  <2>6. forgotten \in BOOLEAN
    BY DEF RecordsInv, TypeOK
  <2>7. /\ AllReal(Block', changes', forgotten') /\ AllReal(events', changes', forgotten')
        /\ RanReal(ran', changes', extensions', forgotten')
    <3>1. /\ \A s : AllReal(s, changes, forgotten) => AllReal(s, changes', forgotten')
          /\ \A r, e : RanReal(r, changes, e, forgotten) => RanReal(r, changes', e, forgotten')
      <4>1. /\ changes \in Seq(Files) /\ forgotten' \in BOOLEAN /\ forgotten \in BOOLEAN
            /\ forgotten => forgotten'
        BY <2>2, <2>3, <2>6
      <4>2. /\ \A s : AllReal(s, changes, forgotten) => AllReal(s, Append(changes, f), forgotten')
            /\ \A r, e : RanReal(r, changes, e, forgotten) =>
                         RanReal(r, Append(changes, f), e, forgotten')
        BY <4>1, StillReal, Zenon
      <4> QED
        BY <2>1, <4>2, Zenon
    <3> QED
      BY <2>1, <2>5, <3>1 DEF RecordsInv
  <2>8. \A b \in Buffers : mem'[b] # <<>> /\ AllReal(mem'[b], changes', TRUE)
    BY <2>1, <2>2, StillReal DEF RecordsInv
  <2> QED
    <3>1. TypeOK'
      BY <1>0, <2>1, <2>2, <2>3, <2>4 DEF RecordsInv, TypeOK
    <3> QED
      BY <2>1, <2>3, <2>4, <2>7, <2>8, <3>1 DEF RecordsInv
<1>11. CASE UNCHANGED vars
  BY <1>1, <1>11 DEF vars, RecordsInv, TypeOK
<1> QED
  BY <1>2, <1>3, <1>4, <1>5, <1>6, <1>7, <1>8, <1>9, <1>10, <1>11 DEF Next, Loop, AtRest

LEMMA InitRecordsInv == Init => RecordsInv
<1> SUFFICES ASSUME Init PROVE RecordsInv
  OBVIOUS
<1>1. PortTypeOK
  BY InitialList DEF Init, PortInit, PortTypeOK
<1>2. <<Blank>> \in Seq(Records) /\ <<Blank>> # <<>>
  BY BlankRecord
<1>3. /\ mem = [b \in Buffers |-> <<Blank>>]
      /\ queue = <<>> /\ ran = <<>> /\ events = <<>> /\ backlog = <<>> /\ changes = <<>>
  BY DEF Init, PortInit, Blank
<1>4. \A b \in Buffers : mem[b] # <<>> /\ AllReal(mem[b], changes, TRUE)
  BY <1>2, <1>3 DEF AllReal
<1>5. AllReal(<<>>, <<>>, FALSE) /\ Block = <<>> /\ RanReal(<<>>, <<>>, extensions, FALSE)
  BY <1>3 DEF AllReal, RanReal, Block
<1>6. Len(backlog) = 0 /\ Len(changes) = 0 /\ 0 <= KernelCap /\ 0 <= MaxChanges
  BY <1>3, FileAssumption
<1>7. /\ backlog \in Seq(Records) /\ events \in Seq(Records) /\ changes \in Seq(Files)
      /\ ran \in Seq(0 .. MaxChanges) /\ mem \in [Buffers -> Seq(Records)]
  BY <1>2, <1>3
<1>8. TypeOK
  BY <1>1, <1>6, <1>7 DEF Init, TypeOK
<1>9. /\ AllReal(backlog, changes, FALSE) /\ AllReal(events, changes, forgotten)
      /\ AllReal(Block, changes, forgotten) /\ RanReal(ran, changes, extensions, forgotten)
  BY <1>3, <1>5 DEF AllReal, RanReal
<1> QED
  BY <1>3, <1>4, <1>8, <1>9 DEF Init, PortInit, RecordsInv

(* The loop gets a block of records: it will handle all but the last. *)
LEMMA GotBlock ==
  ASSUME NEW s \in Seq(Records), s # <<>>, NEW t \in Int, NEW r \in Seq(0 .. MaxChanges), NEW c, NEW e,
         Numbered(s, t), InOrder(<<>>, r, t), NoPair(<<>>, r, c, e, t)
  PROVE  /\ InOrder(toEvents(s), r, t + Len(s))
         /\ NoPair(toEvents(s), r, c, e, t + Len(s))
<1> DEFINE k == Len(s)
           v == toEvents(s)
           m == Len(v)
<1>1. k \in Nat /\ k # 0 /\ DOMAIN s = 1 .. k
  BY LenProperties, EmptySeq
<1>2. m = (IF k = 1 THEN 1 ELSE k - 1) /\ DOMAIN v = 1 .. m /\ \A i \in 1 .. m : v[i] = s[i]
  BY ToEventsIs, LenProperties
<1> HIDE DEF k, v, m
<1>3. m \in Nat /\ m >= 1 /\ m <= k /\ m >= k - 1
  <2>1. m = IF k = 1 THEN 1 ELSE k - 1
    BY <1>2
  <2> QED
    BY <1>1, <2>1
<1>4. \A i \in 1 .. m : i \in 1 .. k /\ i \in Int
  BY <1>1, <1>3
<1>5. \A i \in DOMAIN v : i \in 1 .. m /\ i \in Int /\ v[i].id = t + i
  BY <1>1, <1>2, <1>4 DEF Numbered
<1>6. \A i \in DOMAIN r : r[i] \in Int /\ r[i] <= t
  <2>1. \A i \in DOMAIN r : r[i] \in 0 .. MaxChanges
    BY LenProperties, ElementOfSeq
  <2>2. \A i \in DOMAIN r : r[i] \in Int
    BY <2>1
  <2> QED
    BY <2>2 DEF InOrder
<1>7. InOrder(v, r, t + k)
  <2>1. \A i \in DOMAIN v : v[i].id <= t + k
    BY <1>1, <1>3, <1>5
  <2>2. \A i \in DOMAIN r : r[i] <= t + k
    BY <1>1, <1>6
  <2>3. \A i, j \in DOMAIN v : i < j => v[i].id < v[j].id
    BY <1>5
  <2>4. \A i \in DOMAIN r, j \in DOMAIN v : r[i] < v[j].id
    BY <1>5, <1>6
  <2> QED
    BY <2>1, <2>2, <2>3, <2>4 DEF InOrder
<1>8. ASSUME NEW n \in 2 .. t + k
      PROVE  Settles(n - 1, v, r, c, e) \/ Settles(n, v, r, c, e)
  <2>1. CASE n <= t
    <3>1. n \in 2 .. t
      BY <2>1
    <3>2. Settles(n - 1, <<>>, r, c, e) \/ Settles(n, <<>>, r, c, e)
      BY <3>1 DEF NoPair
    <3> QED
      BY <3>2 DEF Settles
  <2>2. CASE n = t + 1
    <3>1. 1 \in DOMAIN v /\ v[1].id = n
      BY <1>2, <1>3, <1>5, <2>2
    <3> QED
      BY <3>1 DEF Settles
  <2>3. CASE n > t + 1
    <3> DEFINE i == n - 1 - t
    <3>1. i \in 1 .. m /\ t + i = n - 1
      BY <1>1, <1>3, <2>3
    <3> HIDE DEF i
    <3>2. i \in DOMAIN v /\ v[i].id = n - 1
      BY <1>2, <1>5, <3>1
    <3> QED
      BY <3>2 DEF Settles
  <2>4. n \in Int
    BY <1>1
  <2> QED
    BY <2>1, <2>2, <2>3, <2>4
<1>9. NoPair(v, r, c, e, t + k)
  BY <1>8 DEF NoPair
<1> QED
  BY <1>7, <1>9 DEF v, k

(* The loop handles an event. *)
LEMMA HandledOne ==
  ASSUME NEW v \in Seq(Records), v # <<>>, NEW r \in Seq(0 .. MaxChanges), NEW u, NEW c, NEW e, NEW t \in Int,
         Real(Head(v), c),
         u = IF Hit(e, Head(v).file) THEN Append(r, Head(v).id) ELSE r,
         InOrder(v, r, t), NoPair(v, r, c, e, t)
  PROVE  InOrder(Tail(v), u, t) /\ NoPair(Tail(v), u, c, e, t)
<1> DEFINE x == v[1]
           w == Tail(v)
           k == Len(v)
           l == Len(r)
<1>1. k \in Nat /\ k # 0 /\ DOMAIN v = 1 .. k /\ 1 \in DOMAIN v
  BY LenProperties, EmptySeq
<1>2. x = Head(v) /\ x \in Records /\ x.id \in Int
  <2>1. x = Head(v) /\ x \in Records
    BY <1>1, ElementOfSeq
  <2>2. x.id \in 0 .. MaxChanges
    BY <2>1 DEF Records
  <2> QED
    BY <2>1, <2>2
<1>3. /\ w \in Seq(Records) /\ Len(w) = k - 1
      /\ DOMAIN w = 1 .. k - 1 /\ \A i \in 1 .. k - 1 : w[i] = v[i + 1]
  <2>1. w \in Seq(Records) /\ Len(w) = k - 1 /\ \A i \in 1 .. Len(w) : w[i] = v[i + 1]
    BY HeadTailProperties
  <2> QED
    BY <2>1, LenProperties
<1>4. l \in Nat /\ DOMAIN r = 1 .. l /\ \A i \in 1 .. l : r[i] \in Int
  <2>1. l \in Nat /\ DOMAIN r = 1 .. l
    BY LenProperties
  <2>2. \A i \in 1 .. l : r[i] \in 0 .. MaxChanges
    BY ElementOfSeq
  <2>3. \A i \in 1 .. l : r[i] \in Int
    BY <2>2
  <2> QED
    BY <2>1, <2>3
<1>5. /\ u \in {Append(r, x.id), r}
      /\ Hit(e, x.file) => u = Append(r, x.id)
  BY <1>2
<1>6. /\ DOMAIN Append(r, x.id) = 1 .. l + 1
      /\ (\A i \in 1 .. l : Append(r, x.id)[i] = r[i]) /\ Append(r, x.id)[l + 1] = x.id
  <2>1. x.id \in 0 .. MaxChanges
    BY <1>2 DEF Records
  <2> QED
    BY <2>1, AppendProperties, LenProperties
<1> HIDE DEF w, k, l
<1>7. \A i \in DOMAIN w : i \in Int /\ i + 1 \in DOMAIN v /\ w[i] = v[i + 1] /\ i + 1 > 1
  BY <1>1, <1>3
<1>8. \A i \in DOMAIN u :
        \/ i \in DOMAIN r /\ i \in Int /\ i < l + 1 /\ u[i] = r[i]
        \/ i = l + 1 /\ u[i] = x.id
  <2>1. \A i \in 1 .. l + 1 : i \in 1 .. l \/ i = l + 1
    BY <1>4
  <2>2. \A i \in 1 .. l : i \in Int /\ i < l + 1
    BY <1>4
  <2>3. CASE u = r
    BY <1>4, <2>2, <2>3
  <2>4. CASE u = Append(r, x.id)
    BY <1>4, <1>6, <2>1, <2>2, <2>4
  <2> QED
    BY <1>5, <2>3, <2>4
<1>9. \A i \in DOMAIN r : i \in DOMAIN u /\ u[i] = r[i]
  <2>1. 1 .. l \subseteq 1 .. l + 1
    BY <1>4
  <2> QED
    BY <1>4, <1>5, <1>6, <2>1
<1>10. \A j \in DOMAIN v : v[j].id \in Int
  <2>1. \A j \in DOMAIN v : v[j] \in Records
    BY ElementOfSeq, <1>1 DEF k
  <2> QED
    BY <2>1 DEF Records
<1> HIDE DEF x
<1>11. \A i \in DOMAIN w : w[i].id \in Int /\ w[i].id <= t /\ x.id < w[i].id
  <2> SUFFICES ASSUME NEW i \in DOMAIN w
               PROVE  w[i].id \in Int /\ w[i].id <= t /\ x.id < w[i].id
    OBVIOUS
  <2>1. i + 1 \in DOMAIN v /\ w[i] = v[i + 1] /\ 1 < i + 1 /\ 1 \in DOMAIN v
    BY <1>1, <1>7
  <2> QED
    BY <1>10, <2>1 DEF InOrder, x
<1>12. \A i \in DOMAIN r : r[i] \in Int /\ r[i] <= t /\ r[i] < x.id
  BY <1>1, <1>4 DEF InOrder, x
<1>13. x.id <= t
  BY <1>1 DEF InOrder, x
<1>14. InOrder(w, u, t)
  <2>1. \A i \in DOMAIN u : u[i] <= t
    BY <1>8, <1>12, <1>13
  <2>2. \A i, j \in DOMAIN w : i < j => w[i].id < w[j].id
    <3> SUFFICES ASSUME NEW i \in DOMAIN w, NEW j \in DOMAIN w, i < j
                 PROVE  w[i].id < w[j].id
      OBVIOUS
    <3>1. i + 1 \in DOMAIN v /\ j + 1 \in DOMAIN v /\ i + 1 < j + 1
      BY <1>7
    <3>2. v[i + 1].id < v[j + 1].id
      BY <3>1 DEF InOrder
    <3> QED
      BY <1>7, <3>2
  <2>3. \A i, j \in DOMAIN u : i < j => u[i] < u[j]
    <3> SUFFICES ASSUME NEW i \in DOMAIN u, NEW j \in DOMAIN u, i < j
                 PROVE  u[i] < u[j]
      OBVIOUS
    <3>1. CASE j \in DOMAIN r /\ u[j] = r[j] /\ j < l + 1 /\ j \in Int
      <4>1. i \in DOMAIN r /\ u[i] = r[i]
        BY <1>4, <1>8, <3>1
      <4> QED
        BY <3>1, <4>1 DEF InOrder
    <3>2. CASE j = l + 1 /\ u[j] = x.id
      <4>1. i \in DOMAIN r /\ u[i] = r[i]
        BY <1>4, <1>8, <3>2
      <4> QED
        BY <1>12, <3>2, <4>1
    <3> QED
      BY <1>8, <3>1, <3>2
  <2>4. \A i \in DOMAIN u, j \in DOMAIN w : u[i] < w[j].id
    <3> SUFFICES ASSUME NEW i \in DOMAIN u, NEW j \in DOMAIN w
                 PROVE  u[i] < w[j].id
      OBVIOUS
    <3>1. CASE u[i] = x.id
      BY <1>11, <3>1
    <3>2. CASE i \in DOMAIN r /\ u[i] = r[i]
      BY <1>2, <1>11, <1>12, <3>2
    <3> QED
      BY <1>8, <3>1, <3>2
  <2>5. \A i \in DOMAIN w : w[i].id <= t
    BY <1>11
  <2> QED
    BY <2>1, <2>2, <2>3, <2>4, <2>5 DEF InOrder
<1>15. ASSUME NEW n, Settles(n, v, r, c, e)
       PROVE  Settles(n, w, u, c, e)
  <2>1. CASE Hit(e, c[n]) => \E i \in DOMAIN r : r[i] = n
    BY <1>9, <2>1 DEF Settles
  <2>2. ASSUME NEW j \in DOMAIN v, v[j].id = n
        PROVE  Settles(n, w, u, c, e)
    <3>1. CASE j = 1
      <4>1. x.id = n /\ x.file = c[n]
        BY <1>2, <2>2, <3>1 DEF Real, x
      <4>2. CASE Hit(e, c[n])
        <5>1. u = Append(r, x.id)
          BY <1>5, <4>1, <4>2
        <5>2. l + 1 \in DOMAIN u /\ u[l + 1] = n
          BY <1>4, <1>6, <4>1, <5>1
        <5> QED
          BY <5>2 DEF Settles
      <4> QED
        BY <4>2 DEF Settles
    <3>2. CASE j # 1
      <4>1. j - 1 \in 1 .. k - 1 /\ (j - 1) + 1 = j
        BY <1>1, <3>2
      <4>2. j - 1 \in DOMAIN w /\ w[j - 1].id = n
        BY <1>3, <2>2, <4>1
      <4> QED
        BY <4>2 DEF Settles
    <3> QED
      BY <3>1, <3>2
  <2> QED
    BY <1>15, <2>1, <2>2 DEF Settles
<1>16. NoPair(w, u, c, e, t)
  BY <1>15 DEF NoPair
<1> QED
  BY <1>14, <1>16 DEF w

(* One more change does not disturb what is settled of those before it. *)
LEMMA ChangedOne ==
  ASSUME NEW c \in Seq(Files), NEW f \in Files, NEW v, NEW r, NEW e, NEW t \in Int, t <= Len(c),
         NoPair(v, r, c, e, t)
  PROVE  NoPair(v, r, Append(c, f), e, t)
<1>1. Len(c) \in Nat /\ \A i \in 1 .. Len(c) : Append(c, f)[i] = c[i]
  BY AppendProperties, LenProperties
<1>2. \A n \in 2 .. t : n \in 1 .. Len(c) /\ n - 1 \in 1 .. Len(c)
  BY <1>1
<1> QED
  BY <1>1, <1>2 DEF NoPair, Settles

(* The next change has the next number. *)
LEMMA NumberedMore ==
  ASSUME NEW s \in Seq(Records), NEW x \in Records, NEW from \in Int,
         Numbered(s, from), x.id = from + Len(s) + 1
  PROVE  Numbered(Append(s, x), from)
<1>1. /\ Len(s) \in Nat /\ DOMAIN s = 1 .. Len(s) /\ DOMAIN Append(s, x) = 1 .. Len(s) + 1
      /\ (\A i \in 1 .. Len(s) : Append(s, x)[i] = s[i]) /\ Append(s, x)[Len(s) + 1] = x
  BY AppendProperties, LenProperties
<1>2. \A i \in 1 .. Len(s) + 1 : i \in 1 .. Len(s) \/ i = Len(s) + 1
  BY <1>1
<1>3. from + Len(s) + 1 = from + (Len(s) + 1)
  BY <1>1
<1> QED
  BY <1>1, <1>2, <1>3 DEF Numbered

LEMMA NextFlowInv ==
  ASSUME PoolInv, RecordsInv, FlowInv, [Next]_vars
  PROVE  FlowInv'
<1> USE FileAssumption
<1> DEFINE t == Len(changes) - Len(backlog) - Len(Block)
<1>0. SUFFICES ASSUME ~forgotten', port' # "null"
               PROVE  /\ Numbered(backlog', Len(changes') - Len(backlog'))
                      /\ Numbered(Block', t')
                      /\ InOrder(events', ran', t')
                      /\ NoPair(events', ran', changes', extensions', t')
  BY DEF FlowInv
<1>1. /\ Len(changes) \in Nat /\ Len(backlog) \in Nat /\ Len(Block) \in Nat
      /\ Block \in Seq(Records) /\ changes \in Seq(Files) /\ backlog \in Seq(Records)
  <2>1. Block \in Seq(Records)
    <3>1. CASE queue # <<>>
      <4>1. Head(queue).buffer \in Buffers
        BY <3>1, OnePacket DEF PoolInv, Packets
      <4> QED
        BY <4>1 DEF Block, RecordsInv, TypeOK
    <3>2. CASE queue = <<>>
      BY <3>2 DEF Block
    <3> QED
      BY <3>1, <3>2
  <2> QED
    BY <2>1, LenProperties DEF RecordsInv, TypeOK
<1>2. t \in Int
  BY <1>1
<1>3. ASSUME ~forgotten, port # "null"
      PROVE  /\ Numbered(backlog, Len(changes) - Len(backlog))
             /\ Numbered(Block, t)
             /\ InOrder(events, ran, t)
             /\ NoPair(events, ran, changes, extensions, t)
  BY <1>3 DEF FlowInv
<1>4. ASSUME UNCHANGED <<extensions, backlog, changes, forgotten, events, ran>>,
             Block' = Block, port' # "null" => port # "null"
      PROVE  FlowInv'
  <2>1. t' = t
    BY <1>4
  <2> HIDE DEF t
  <2>2. ~forgotten /\ port # "null"
    BY <1>0, <1>4
  <2> QED
    BY <1>3, <1>4, <2>1, <2>2 DEF FlowInv, t
<1>5. CASE Startup \/ Poll \/ PollThrows \/ EndIteration
  <2>1. Block' = Block
    BY <1>5, BlockAfter DEF Startup, CreatePort, OpenDirectory, Associate, Poll, PollThrows,
       EndIteration, allocAndRelease, deleteHeld
  <2>2. port' # "null" => port # "null"
    BY <1>5 DEF Startup, CreatePort, OpenDirectory, Associate, Poll, PollThrows,
       EndIteration, allocAndRelease, deleteHeld, Goto, PoolInv
  <2>3. UNCHANGED <<extensions, backlog, changes, forgotten, events, ran>>
    BY <1>5 DEF Startup, CreatePort, OpenDirectory, Associate, Poll, PollThrows, EndIteration
  <2> QED
    BY <1>0, <1>4, <2>1, <2>2, <2>3 DEF FlowInv
<1>6. CASE GetThrows \/ FailRead
  <2>1. Block' = Block /\ port' = port
    BY <1>6, BlockAfter DEF GetThrows, getThrows, FailRead, completeRead
  <2>2. UNCHANGED <<extensions, backlog, changes, forgotten, events, ran>>
    BY <1>6 DEF GetThrows, FailRead
  <2> QED
    BY <1>0, <1>4, <2>1, <2>2 DEF FlowInv
<1>7. CASE UNCHANGED vars
  <2>1. Block' = Block
    BY <1>7, BlockAfter DEF vars
  <2> QED
    BY <1>0, <1>4, <1>7, <2>1 DEF FlowInv, vars
<1>8. CASE Get
  <2>1. /\ port = "open" /\ Block' = <<>> /\ Block = mem[Head(queue).buffer]
        /\ Head(queue).buffer \in Buffers
    BY <1>8, BlockAfter
  <2>2. /\ events' = toEvents(Block) /\ events = <<>>
        /\ UNCHANGED <<argVars, kernelVars, mem, ran>>
    BY <1>8, <2>1 DEF Get, Goto, RecordsInv
  <2>3. Block # <<>> /\ ran \in Seq(0 .. MaxChanges)
    BY <2>1 DEF RecordsInv, TypeOK
  <2>4. t' = t + Len(Block)
    <3>1. Len(Block') = 0
      BY <2>1
    <3> QED
      BY <1>1, <2>2, <3>1
  <2>5. /\ Numbered(backlog, Len(changes) - Len(backlog))
        /\ Numbered(Block, t)
        /\ InOrder(<<>>, ran, t)
        /\ NoPair(<<>>, ran, changes, extensions, t)
    BY <1>0, <1>3, <2>1, <2>2
  <2> HIDE DEF t
  <2>6. /\ InOrder(toEvents(Block), ran, t + Len(Block))
        /\ NoPair(toEvents(Block), ran, changes, extensions, t + Len(Block))
    BY <1>1, <1>2, <2>3, <2>5, GotBlock
  <2>7. Numbered(Block', t')
    BY <2>1 DEF Numbered
  <2> QED
    BY <2>2, <2>4, <2>5, <2>6, <2>7
<1>9. CASE Handle
  <2>1. /\ phase = "handle" /\ events # <<>> /\ events' = Tail(events)
        /\ ran' = (IF Hit(extensions, Head(events).file) THEN Append(ran, Head(events).id) ELSE ran)
        /\ UNCHANGED <<argVars, portVars, phase, kernelVars, mem>>
    BY <1>9 DEF Handle, run, Hit
  <2>2. events \in Seq(Records) /\ ran \in Seq(0 .. MaxChanges)
    BY DEF RecordsInv, TypeOK
  <2>3. Real(Head(events), changes)
    BY <1>0, <2>1, <2>2, TailReal DEF RecordsInv
  <2>4. Block' = Block /\ t' = t
    BY <2>1, BlockAfter
  <2> HIDE DEF t
  <2>5. ~forgotten /\ port # "null"
    BY <1>0, <2>1
  <2>6. InOrder(events', ran', t) /\ NoPair(events', ran', changes, extensions, t)
    BY <1>2, <1>3, <2>1, <2>2, <2>3, <2>5, HandledOne
  <2> QED
    BY <1>3, <2>1, <2>4, <2>5, <2>6
<1>10. CASE Report
  <2>1. /\ backlog' = <<>>
        /\ mem' = (IF overflowed THEN mem ELSE [mem EXCEPT ![inFlight] = backlog])
        /\ port' = port /\ UNCHANGED <<argVars, phase, watching, events, changes, forgotten, ran>>
    BY <1>10 DEF Report, completeRead
  <2>2. port = "open"
    BY <1>0, <1>10 DEF Report, completeRead, PoolInv, PortTypeOK
  <2>3. Block = <<>> /\ inFlight \in Buffers /\ Block' = mem'[inFlight]
    BY <1>10, <2>2, BlockAfter
  <2>4. ~forgotten /\ ~overflowed
    BY <1>0, <2>1 DEF RecordsInv
  <2>5. Block' = backlog
    BY <2>1, <2>3, <2>4 DEF RecordsInv, TypeOK
  <2>6. t' = Len(changes) - Len(backlog) /\ t = Len(changes) - Len(backlog)
    <3>1. Len(<<>>) = 0
      OBVIOUS
    <3>2. Len(backlog') = 0 /\ Len(Block) = 0 /\ Len(Block') = Len(backlog) /\ changes' = changes
      BY <2>1, <2>3, <2>5, <3>1, Zenon
    <3> QED
      BY <1>1, <3>2
  <2> HIDE DEF t
  <2>7. Numbered(backlog', Len(changes') - Len(backlog'))
    <3>1. \A from : Numbered(<<>>, from)
      BY DEF Numbered
    <3> QED
      BY <2>1, <3>1, Zenon
  <2> QED
    BY <1>3, <2>1, <2>2, <2>4, <2>5, <2>6, <2>7
<1>11. ASSUME NEW f \in Files, Change(f) PROVE FlowInv'
  <2> DEFINE r == [id |-> Len(changes) + 1, file |-> f]
  <2>1. /\ changes' = Append(changes, f) /\ Len(changes) < MaxChanges
        /\ UNCHANGED <<argVars, portVars, phase, watching, mem, events, ran>>
    BY <1>11 DEF Change
  <2>2. backlog' = Append(backlog, r) /\ forgotten' = forgotten
    BY <1>0, <1>11 DEF Change
  <2>3. r \in Records /\ r.id = Len(changes) + 1
    BY <1>1, <2>1 DEF Records
  <2> HIDE DEF r
  <2>4. Len(changes') = Len(changes) + 1 /\ Len(backlog') = Len(backlog) + 1
    BY <1>1, <2>1, <2>2, <2>3, AppendProperties
  <2>5. Block' = Block
    BY <2>1, BlockAfter
  <2> DEFINE from == Len(changes) - Len(backlog)
  <2>6. t' = t /\ t <= Len(changes) /\ from' = from /\ from \in Int
        /\ r.id = from + Len(backlog) + 1
    BY <1>1, <2>3, <2>4, <2>5
  <2>7. ~forgotten /\ port # "null"
    BY <1>0, <2>1, <2>2
  <2>8. Numbered(backlog, from)
    BY <1>3, <2>7
  <2> HIDE DEF t, from
  <2>9. Numbered(backlog', from)
    BY <1>1, <2>2, <2>3, <2>6, <2>8, NumberedMore
  <2>10. NoPair(events, ran, changes', extensions, t)
    BY <1>1, <1>2, <1>3, <2>1, <2>6, <2>7, ChangedOne
  <2>11. /\ Numbered(backlog', from') /\ Numbered(Block', t')
         /\ InOrder(events', ran', t') /\ NoPair(events', ran', changes', extensions', t')
    BY <1>3, <2>1, <2>5, <2>6, <2>7, <2>9, <2>10
  <2> QED
    BY <2>11 DEF FlowInv, t, from
<1>12. CASE \E f \in Files : Change(f)
  BY <1>0, <1>11, <1>12 DEF FlowInv
<1> QED
  BY <1>5, <1>6, <1>7, <1>8, <1>9, <1>10, <1>12 DEF Next, Loop, AtRest

LEMMA LogInvariance == Spec => [](PoolInv /\ RecordsInv /\ FlowInv)
<1>1. Init => FlowInv
  <2> SUFFICES ASSUME Init PROVE FlowInv
    OBVIOUS
  <2>1. /\ changes = <<>> /\ backlog = <<>> /\ queue = <<>> /\ events = <<>> /\ ran = <<>>
    BY DEF Init, PortInit
  <2>2. Block = <<>>
    BY <2>1 DEF Block
  <2>3. Len(<<>>) = 0 /\ 0 - 0 - 0 = 0 /\ 0 - 0 = 0 /\ 2 .. 0 = {}
    OBVIOUS
  <2>4. \A from : Numbered(<<>>, from)
    BY DEF Numbered
  <2>5. InOrder(<<>>, <<>>, 0)
    BY DEF InOrder
  <2>6. NoPair(<<>>, <<>>, <<>>, extensions, 0)
    BY <2>3 DEF NoPair
  <2> QED
    BY <2>1, <2>2, <2>3, <2>4, <2>5, <2>6 DEF FlowInv
<1>2. PoolInv /\ RecordsInv /\ FlowInv /\ [Next]_vars => (RecordsInv /\ FlowInv)'
  BY NextPoolInv, NextRecordsInv, NextFlowInv
<1> QED
  BY <1>1, <1>2, InitRecordsInv, PoolInvariance, PTL DEF Spec

(* The extensions, by what split() promises. *)
LEMMA Extensions ==
  ASSUME RecordsInv
  PROVE  /\ argument \in Strings
         /\ extensions \in Seq(Strings)
         /\ concat(extensions, <<comma>>) =
              IF endsWith(argument, <<comma>>) THEN Front(argument) ELSE argument
         /\ (\E j \in DOMAIN extensions : extensions[j] = <<>>) <=> EmptyField
<1>1. argument \in Strings /\ comma \in Chars /\ extensions = split(argument, comma)
  BY FileAssumption DEF RecordsInv, TypeOK, Strings
<1>2. DOMAIN argument = 1 .. Len(argument)
  BY <1>1, LenProperties DEF Strings
<1>3. EmptyField <=> EmptyBefore(argument, comma, Len(argument))
  BY <1>2 DEF EmptyField, EmptyBefore
<1> QED
  BY <1>1, <1>3, SplitFacts

(* run() tests for a watched extension, the empty one included. *)
LEMMA HitIsWatched ==
  ASSUME RecordsInv, NEW name \in Strings
  PROVE  /\ Hit(extensions, name) <=> Watched(name)
         /\ name = <<>> /\ Hit(extensions, name) => EmptyField
<1>1. Len(name) \in Nat
  BY LenProperties DEF Strings
<1>2. endsWith(name, <<>>)
  <2> DEFINE n == Len(name)
  <2>1. Len(<<>>) = 0
    OBVIOUS
  <2> HIDE DEF n
  <2>2. n \in Nat /\ n >= 0 /\ n - 0 + 1 = n + 1 /\ n < n + 1
    BY <1>1 DEF n
  <2>3. SubSeq(name, n + 1, n) = <<>>
    BY <2>2, SubSeqEmpty
  <2> QED
    BY <2>1, <2>2, <2>3 DEF endsWith, n
<1>3. \A i \in DOMAIN extensions : extensions[i] = <<>> => EmptyField
  BY Extensions
<1>4. EmptyField => \E i \in DOMAIN extensions : extensions[i] = <<>>
  BY Extensions
<1>5. Hit(extensions, name) <=> Watched(name)
  BY <1>2, <1>3, <1>4 DEF Hit, Watched
<1>6. ASSUME name = <<>>, NEW i \in DOMAIN extensions, endsWith(name, extensions[i])
      PROVE  EmptyField
  <2>1. extensions[i] \in Strings
    BY Extensions, ElementOfSeq, LenProperties
  <2>2. Len(extensions[i]) \in Nat /\ Len(name) = 0 /\ Len(name) >= Len(extensions[i])
    BY <1>6, <2>1, LenProperties DEF Strings, endsWith
  <2>3. Len(extensions[i]) = 0
    BY <2>2
  <2>4. extensions[i] = <<>>
    BY <2>1, <2>3, EmptySeq DEF Strings
  <2> QED
    BY <1>3, <2>4
<1> QED
  BY <1>5, <1>6 DEF Hit

(* Every variable keeps to its set: records name files that changed, and the *)
(* kernel keeps no more of them than it has room for.                        *)
THEOREM TypeCorrect == Spec => []TypeOK
<1>1. RecordsInv => TypeOK
  BY DEF RecordsInv
<1> QED
  BY <1>1, LogInvariance, PTL

(* Whatever the user gives as extensions, split() loses no character of it   *)
(* (Util.cc:27-41).                                                           *)
THEOREM SplittingLosesNothing == Spec => []RoundTrip
<1>1. RecordsInv => RoundTrip
  BY Extensions DEF RoundTrip
<1> QED
  BY <1>1, LogInvariance, PTL

(* However many changes, files and buffers there are, and however reads fail    *)
(* or overflow, the command runs only for changes of files with an extension,   *)
(* in their order and once for each until the kernel forgets some.  From then   *)
(* on it may run again for an old change, or, if an extension is empty, for the *)
(* zeroed record (Main.cc:20-34, FileWatcher.cc:31-44).                         *)
THEOREM CommandsFollowChanges == Spec => []RunsFollowChanges
<1>1. RecordsInv /\ FlowInv => RunsFollowChanges
  <2> SUFFICES ASSUME RecordsInv, FlowInv PROVE RunsFollowChanges
    OBVIOUS
  <2>1. ASSUME NEW i \in DOMAIN ran
        PROVE  \/ ran[i] \in DOMAIN changes /\ Watched(changes[ran[i]])
               \/ ran[i] = 0 /\ EmptyField /\ forgotten
    <3>1. CASE ran[i] \in DOMAIN changes /\ Hit(extensions, changes[ran[i]])
      <4>1. changes[ran[i]] \in Files
        BY <3>1, ElementOfSeq, LenProperties DEF RecordsInv, TypeOK
      <4>2. changes[ran[i]] \in Strings
        BY <4>1, FileAssumption DEF Strings
      <4> QED
        BY <3>1, <4>2, HitIsWatched
    <3>2. CASE forgotten /\ ran[i] = 0 /\ Hit(extensions, <<>>)
      <4>1. <<>> \in Strings
        BY DEF Strings
      <4> QED
        BY <3>2, <4>1, HitIsWatched
    <3> QED
      BY <3>1, <3>2 DEF RecordsInv, RanReal
  <2>2. ASSUME ~forgotten, NEW i \in DOMAIN ran, NEW j \in DOMAIN ran, i < j
        PROVE  ran[i] < ran[j]
    <3>1. port = "open"
      BY <2>2 DEF RecordsInv
    <3> QED
      BY <2>2, <3>1 DEF FlowInv, InOrder
  <2> QED
    BY <2>1, <2>2 DEF RunsFollowChanges
<1> QED
  BY <1>1, LogInvariance, PTL

(* The record that toEvents() leaves out is the last of its buffer, and the  *)
(* first of the next buffer is never left out: of two consecutive changes of *)
(* watched files one has its command run (FileWatcher.cc:31-44).             *)
THEOREM MissesAreSingle == Spec => []NoTwoInARowMissed
<1>1. RecordsInv /\ FlowInv => NoTwoInARowMissed
  <2> SUFFICES ASSUME RecordsInv, FlowInv, phase = "get", Settled, ~forgotten,
                      NEW n \in DOMAIN changes, n > 1,
                      Watched(changes[n - 1]), Watched(changes[n])
               PROVE  \E i \in DOMAIN ran : ran[i] \in {n - 1, n}
    BY DEF NoTwoInARowMissed
  <2>1. port = "open" /\ queue = <<>> /\ backlog = <<>> /\ events = <<>>
    BY DEF Settled, RecordsInv
  <2>2. /\ changes \in Seq(Files) /\ Len(changes) \in Nat /\ DOMAIN changes = 1 .. Len(changes)
    BY LenProperties DEF RecordsInv, TypeOK
  <2>3. Len(backlog) = 0 /\ Len(Block) = 0
    <3>1. Len(<<>>) = 0 /\ Block = <<>>
      BY <2>1 DEF Block
    <3> QED
      BY <2>1, <3>1, Zenon
  <2>4. Len(changes) - Len(backlog) - Len(Block) = Len(changes)
    BY <2>2, <2>3
  <2>5. NoPair(<<>>, ran, changes, extensions, Len(changes))
    BY <2>1, <2>4 DEF FlowInv
  <2>6. n \in 2 .. Len(changes) /\ n - 1 \in DOMAIN changes
    BY <2>2
  <2>7. Hit(extensions, changes[n]) /\ Hit(extensions, changes[n - 1])
    <3>1. changes[n] \in Files /\ changes[n - 1] \in Files
      BY <2>2, <2>6, ElementOfSeq
    <3>2. changes[n] \in Strings /\ changes[n - 1] \in Strings
      BY <3>1, FileAssumption DEF Strings
    <3> QED
      BY <3>2, HitIsWatched
  <2>8. Settles(n - 1, <<>>, ran, changes, extensions) \/ Settles(n, <<>>, ran, changes, extensions)
    BY <2>5, <2>6 DEF NoPair
  <2> QED
    BY <2>7, <2>8 DEF Settles
<1> QED
  BY <1>1, LogInvariance, PTL

=============================================================================
