# cpp-misc: specifications and proofs

The repository is a collection of small, independent C++ programs. A few of
them carry real logic: a Windows tool that watches a directory (`wwatch`), a
library of stream operators with mutexes and a timer (`stream4.cc` over
`timer_w32.cc`), an older version of it made of closures (`stream.cc`), a
block-wise file reader (`myio.hh`) with a program that counts cards
(`card.cc`), a hexadecimal printer (`disasm.cc`) and the start of a parser
combinator library (`parsec.cc`). These are modelled here. The rest is
experiments of a few straight-line statements.

Contents: [the system](#1-the-system), [the modules](#2-the-modules),
[the runs](#3-the-runs), [fairness](#4-fairness), [proofs](#5-proofs),
[what the checks found](#6-what-the-checks-found),
[what is not modelled](#7-what-is-not-modelled), [plan](#8-plan).

To check a run: `tlc -config <run>.cfg <module>.tla`; the module of each run is
in the table of section 3. To check the proofs, run `tlapm` on each module whose
name ends in `Proofs`.

## 1. The system

### Timer (`src/timer_w32.cc`)

*State*: the action, the OS timer's handle, the flag `disposed_`; outside it,
the Win32 timer queue with the timers it has armed and the callbacks it runs.
*Operations*: `start()` (periodic), `once()`, `stop()`, the destructor, and
`tick()`, which the queue calls on a thread of its own through `timer_tick()`.
*Hard*: nothing is locked; `stop()` does not wait for a callback that runs;
`init()` clears `disposed_` before it knows whether a timer was created; a
second `start()` overwrites the handle of the first.
*Correct when*: a callback always finds an action, every timer created is
deleted exactly once, and after `stop()` no callback starts.

### TimeCluster (`src/stream4.cc:199-252`, uses Timer)

*State*: the items gathered, `first_`, a recursive mutex, a Timer, the action
downstream. *Operations*: `operator()(item)`, whose first item arms a one-shot
timer; `flushAndReset()`, the timer's callback, which hands all items to the
action; `reset()`, which stops the timer and drops the items, and is also the
last step of `flushAndReset()`.
*Interaction*: client threads and the threads of the timer queue meet at the
mutex, but `Timer::tick()` runs before it is taken, and `Timer::stop()` is
called with it held. The action below may be a whole chain, and `reset()` goes on
down it; `operator>>` moves a cluster that is not the first stage of its chain.
*Hard*: late callbacks, re-entry of the mutex, a timer that cannot be created, an
action that throws on the queue's thread or pushes into the cluster it is called
by, what a move leaves behind, the destruction of the chain.
*Correct when*: every item accepted leaves exactly once, in a batch or by a
reset; none waits without a timer; no timer is leaked; no call blocks for ever;
nothing starts on a chain that is gone.

### The synchronous stages (`src/stream4.cc:13-193, 258-290`)

*State*: `items_`, their capacity and a mutex in each `Buffer` and `Window`;
`Where`, `Select`, `Concat` and `Action` have none. *Operations*:
`operator()(item)` and `reset()`; `operator>>` composes stages into a chain.
*Interaction*: a call runs down the chain and returns up it; a `Buffer` or
`Window` holds its mutex while everything below runs. *Hard*: nested mutexes, an
action that throws in the middle, fullness that is defined by the vector's
capacity, `reset()` that some stages pass on and others do not. *Correct when*:
a buffer loses and repeats nothing and passes on batches of its size, a window
slides by one, a reset clears all it can reach, threads never deadlock.

### wwatch (`src/wwatch/src/wwatch/`)

*Main loop* (`Main.cc`): waits for changes, runs a command for each changed file
with a given extension. *FileWatcher* (`FileWatcher.cc`): the directory handle
and `toEvents()`, which walks the kernel's change records. *CompletionPort and
BufferPool* (`CompletionPort.hh`): the buffers the kernel writes to, moved
between the pool, the program, the kernel and the port by a `unique_ptr` that is
released and attached again. *Util*: `split`, `concat`, `endsWith`.
*Win32Error*: a code with its message.
*Hard*: the kernel writes to a buffer of the program while files keep changing;
no read is pending while commands run; the kernel's own buffer overflows; an
exception frees the pool with the directory still open.
*Correct when*: each buffer has one owner, commands run for the changes made and
in their order, the backlog is worked off.

### myio (`src/myio.hh`) and card (`src/card.cc`)

`read_block_by_block()` fills a buffer, shows it to a callback, moves what the
callback left to the front and reads on behind it. `read_all_bytes()` takes a
file's size and reads that much. `card.cc` parses the bytes into cards and
counts them. *Hard*: unsigned arithmetic at the end of the file, short reads,
files that change while they are read, a loop that looks one character too far.
*Correct when*: no byte is skipped or repeated, the loops end, and the counts
are those of what was read.

### Sequential algorithms

`stream.cc`: combinators as closures that copy their state along with them.
`disasm.cc`: `print_hex()`, bytes in lines with a count of the lines left out.
`parsec.cc`: parsers as objects, a `Result` with a union whose members are
constructed and destroyed by hand.

Every component, those without a model too, is listed in `PROJECT.json`
("components"); the hazards, each at its line and with the properties that
cover it, are there as well ("hazards").

## 2. The modules

| module | models | code to model |
|---|---|---|
| `Timer` | class `Timer` and its part of the timer queue | one action formula per member function; no `Next` of its own |
| `TimerOwner` | an owner and the queue's threads around one `Timer` | `start`/`once` are two steps, the assignment of `action_` and `init()`, so a callback can come between |
| `TimeCluster` | `TimeCluster`, which EXTENDS `Timer` | a step per lock operation, timer call and member update; `pc` names the point a thread has reached; a handle also names the thread of its callback |
| `ClusterChain` | a cluster in a chain, with the stage below it, its move and its end | EXTENDS `TimeCluster`: its steps with what they do to the stage below and to the object |
| `ClusterSpec` | what a cluster promises | no code of its own: `Accept`, `Deliver`, `Discard`, with no thread, lock or timer |
| `Pipeline` | the synchronous stages as a chain | one frame per stage; `op` says whether a thread's call goes down, returns, unwinds or resets |
| `CompletionPort` | `BufferPool` and `CompletionPort` | where each buffer is; one formula per operation that moves one |
| `WWatch` | `wmain()`, `pollInternal2`, `handle`, `toEvents`, and the kernel | `phase` is the point of the loop; EXTENDS `CompletionPort` and `WatchUtil` |
| `WatchUtil` | `split`, `concat`, `endsWith` | operators on sequences of characters; `split` is a fold, as its loop is |
| `ReadBlocks` | `read_block_by_block()` | read, callback and shift as steps; a byte is its position in the file |
| `CardInput` | `card -`: the callback of `main()` over `ReadBlocks` | EXTENDS `ReadBlocks`; the callback is that of `main()` or one that may answer anything |
| `Cards` | `read_cards()` | one pass with a step per loop test and `getCard()` |
| `CardProgram` | `card <path>`: `read_all_bytes()`, `Cards`, the counting | the file can change between any two calls |
| `StreamFn` | the combinators of `stream.cc` | a closure is its count and its vector; a copy copies them |
| `PrintHex` | `print_hex()` | a step per byte; a line is its width |
| `Parsec` | the parsers and `Result` | a frame per `RunParser()`; `errors` counts live `Error`s |
| `ClusterProofs` | theorems about `TimeCluster` (the timer, the items, the refinement), `ClusterChain` and `TimerOwner` | |
| `ReadBlocksProofs` | theorems about `ReadBlocks` and `CardInput` | |
| `WWatchProofs`, `PipelineProofs`, `CardProgramProofs`, `StreamFnProofs`, `PrintHexProofs`, `ParsecProofs` | theorems about the module of that name | |
| `MC...` | instances for TLC | constants that a cfg cannot write |

Definitions that begin with the name of another one and end in a suffix
(`Clear_KeepsFirst`, `Acquire_Nothing`) are *mutants*: the bug a property is
there to catch, written out. They take no part in the specification; replacing
the definition by its mutant must break the property `PROJECT.json` pairs it
with, and does.

Decisions that hold for several modules:

* The granularity of a step in the concurrent modules is what another thread can
  see: taking or leaving a mutex, a call of the timer queue, an update of a
  member under its mutex. Updates of several members under one mutex are one
  step where no other code reads these members without it.
* Windows is modelled from how the code uses it: `CreateTimerQueueTimer` returns
  a fresh handle or fails; `DeleteTimerQueueTimer` with no event does not wait;
  a `ReadDirectoryChangesW` completes with all the changes recorded, or with
  nothing after an overflow, or with an error.
* A vector grows by half of its capacity, as that of the Microsoft library the
  programs were built with. The properties of `BatchSizes` do not depend on how
  far it grows, only that it does.
* Undefined behaviour is not given a meaning. Where the code can reach it the
  model stops (`"crash"` in `ReadBlocks` and `PrintHex`) or records it
  (`wrongDelete`, `overread`, `errorCopied`), and a property states when.

## 3. The runs

| run | module | distinct states | question |
|---|---|---|---|
| `cluster` | MCTimeCluster | 74519 | do items, timers, mutex and callbacks of a cluster keep together, and does it implement `ClusterSpec`? |
| `timer_owner` | MCTimerOwner | 7275 | what does a `Timer` guarantee to an owner who calls it in any order? |
| `pipeline` | MCPipeline | 54283 | do stages keep their promises under threads, exceptions and resets? |
| `cluster_chain` | MCClusterChain | 290751 | what does a flush cost the stages below, which items can be lost, what outlives the chain? |
| `wwatch` | MCWWatch | 136946 | where are the buffers, what does the command run on, which changes are missed, is the backlog worked off? |
| `wwatch_promise` | MCWWatch | violated | does the command run for every change? |
| `read_blocks` | MCCardInput | 3405 | does the callback see each byte in place, does the loop end, what has `card -` gathered by then? |
| `read_blocks_clamp` | MCCardInput | violated | is the answer of the callback bounded by what it was shown? |
| `cards` | MCCardProgram | 570034 | does the summary count what was read, whatever happens to the file? |
| `stream_fn` | MCStreamFn | 2689402 | does each combinator do what its name says, copied or throwing, and what does `all()` make of it? |
| `print_hex` | MCPrintHex | 45436 | do the lines and the count of those left out add up, and which lines fit? |
| `parsec` | MCParsec | 6494 | is a choice ordered at any depth, and is each `Error` destroyed once? |

What they show, and why the bounds are enough:

**`cluster`.** Three clients, three handles (a handle is never used again, so at
most three timers are created), three pushes, two resets by clients, one failed
creation. (`Once`, like `CallStart` of `TimerOwner`, asks for a handle that is left;
three pushes never lack one.) Two clients are needed for a push during a push, a third for a reset
during both. Three timers let the late callback of the first one meet the
cluster of the second, and the third follow what that leaves behind. `EachItemOnce`: nothing is lost or doubled.
`NoOrphan`: items never wait for nothing. `OneLiveTimer`: the cluster's only
timer is the one it remembers, none when idle. `DeletedOnce`: a handle is deleted twice
only if a creation failed. `OwnTimerFlushes` and `ActionNotRaced` say what holds
*as long as nobody calls `reset()`*, as in `main()`: a batch leaves when its own
timer expires, and `action_` is never assigned while a callback reads it. With a
`reset()` between, both fail in the model as they do in the code, because
`stop()` does not wait; the condition is part of the property.
`ImplementsCluster` maps the cluster to `ClusterSpec`: what is held is `items_`,
or nothing from the moment the callback gave them away until it has cleared
them. `ItemsLeave` and `CallsReturn` are liveness.

**`cluster_chain`.** Two clients, three handles, three pushes by clients and one by
the action, one reset, one failed creation; below the cluster an action, or a
buffer or window of one or two. Two is the least size at which a batch would have
to stay in a stage from one flush to the next, and three handles make room for
two flushes after a failure or an overlap. A call of the chain below is one step:
it runs under the cluster's mutex on one thread, and the only way back into the
cluster, through that recursive mutex, is a step of its own (`PushFromAction`).
`FlushForgets`: as every flush resets what is below, a window under a cluster
never slides and nothing passes a buffer of two or more. `LostIfPushedFromAction`:
the one way to lose an item is to push it from the action into the cluster that
is flushing. `QuietWhenDestroyed`: however the chain was used, its destructor
leaves no armed timer. `OnTopItemsLeave` (liveness): on top of a chain a cluster
passes on everything; not so below another stage, because the move constructor
leaves `milliseconds_` uninitialised, which the model makes a choice of `Init`.

**`timer_owner`.** Three handles under symmetry, two callbacks of one timer at
the same time (a periodic timer starts the second before the first has
returned), two failures. A third start is one over a timer that itself replaced
one. `HandleGivenBack` and `QuietAfterStop` carry their condition: no `start()`
over a live timer, and for the double deletion no failed creation.

**`pipeline`.** One chain holds every kind of stage: `buffer(2) >> window(2)`,
the chain `b` of `main()`, then `concat`, `where`, `select` and a `buffer(0)`
below the stages that do not pass `reset()` on. Two threads, six pushes (three
full batches and a window that has slid), two resets, one exception. The
first stage of this chain is a buffer, which keeps its mutex while everything
below it runs, so that mutex is the only one a thread ever waits for:
`CallsReturn` shows that every call returns although an exception leaves the
nested guards, not that contended mutexes inside a chain are taken in a good
order. That is `NoCircleOfWaits`, proved for every chain (section 5). `BatchSizes`
says what exceptions do: the vector of a buffer grows, and its batches with it.

**`wwatch`.** Two buffers of the pool's 2000: one is with the kernel, in a
packet or with the program, and the other shows that a second one is not
needed. Three changes fit the kernel's buffer and five happen, so that it
overflows, and so that batches of one, two and three records follow each
other. The list of extensions is any sequence of up to three characters over a
letter and the comma: a delimiter first, last, doubled and alone, and one or two
extensions; of the two files one ends with the letter. The creation of the port
may fail. `BufferInOnePlace`: each buffer has one owner, and the pool is never
empty when the loop needs one. `NoReadIntoFreedPool`: an exception that frees the
pool does not leave a read pending, except on the one path it names (section 6).
`RoundTrip`: `split` loses nothing. `RunsFollowChanges`: even after an overflow,
when the loop parses the records of an earlier read again, the command runs for
real changes of watched files only, and without one in their order and once for
each; an empty extension makes every file a watched one. `NoTwoInARowMissed`
bounds what `toEvents()` leaves out. `BacklogDrains` is liveness.

**`read_blocks`.** A buffer of four bytes, files of up to eleven, every length of
a short read, errors at any time, and two callbacks: any answer from 0 to one more
than there can be, or that of `main()`, half a buffer. Eleven bytes fill the
buffer, refill its half three times and end in the middle of a half.
`SizeLimit` 256 stands for 2^64: all that matters is that a negative difference
becomes larger than the buffer. `ShownTwice` says of `card -` that by the end each
byte behind the first half buffer has been gathered twice, none is missing, and
none comes three times.

**`cards`.** Files of up to four characters over two suits, a face, a space and
another character that is also the zero of a fresh vector, one change of the
file's length by another program at any point up to the read, a size that
cannot be taken, short reads, and any value of the character behind the buffer.
Four characters hold two cards, or a card with something dropped before or
after it, or two suits and a face.

**`stream_fn`.** All seven combinators, those that take an `int` with -1 to 3, two
holders, five calls, two copies, exceptions at any call. Five calls fill a buffer
of two twice, and pass a skip or take of three. The vector that `all()` is given
has both holders, in order, so one of them comes after an action that may throw;
the loop ends there. `ForwardsAsNamed` is about the calls made directly.
`AllForgets` is about those that `all()` makes on its copies: each meets its item as
the next one after the direct calls, whatever `all()` was called with before, and
an action misses the items on which an action before it threw, and no others.

**`print_hex`.** Up to eighteen bytes, columns from -2 to 14, lines from -1 to 5,
separators of zero to two characters: one byte per line to all in one, partial
last lines, limits under, at and over the number of lines, and the columns
at which a line holds no byte. The line `... n more` counts as a line with a width
of its own; its number is printed in hexadecimal, like the bytes before it, and with
eighteen bytes it can have two digits. `FitsColumns` says that a line is wider than
the columns only if it is that one, which nothing keeps to them.

**`parsec`.** All choices nested two deep over both parsers on streams of up to
two characters, started at any position, with a caller who asks the result for
its item or its error, whichever it has, and then lets it go.

## 4. Fairness

Only what a scheduler, the OS or a caller outside the model gives is assumed,
and only as weak fairness:

* *A thread inside a call keeps running* (`TimeCluster`, `Pipeline`). It covers
  waiting for a mutex, which the bounds on calls keep from going on for ever.
  Without them the code promises no more than the mutex does, which is not fair.
  Nobody is obliged to make a call.
* *An armed timer expires, and its callback runs* (`TimeCluster`). In
  `ClusterChain` only if the cluster still has the time it was given; nobody is
  obliged to destroy a chain, and an action is not obliged to throw or to push.
* *The loop of wwatch and the commands it waits for go on, and the kernel reports
  changes it has recorded* (`WWatch`). Changes and errors are not obliged to
  happen.
* *The callback of `read_block_by_block()` returns* (`CardInput`), *the program
  runs on* (`CardProgram`), while others need not touch the file.

Safety does not use fairness, but a run has one specification, and where a run
checks liveness as well its invariants are checked under the fair one, which has
the same reachable states.

## 5. Proofs

All 31 invariants that runs show to hold are proved for all values of the
constants, and of the nine action and temporal properties the two that are not
liveness. TLC checked each inductive invariant on the instance of its run before
it was proved.

### The cluster

`ClusterProofs` proves, for any sets of clients and
handles and any number of calls, resets and failures, with `ThreadAssumption`
(clients and handles are different things, and `Nobody` is not one of them) as the
only assumption:

* `TypeCorrect`: `Spec => []TypeOK`. Not as shallow as it sounds: the bound on
  the depth of the recursive mutex rests on who can be inside it.
* `AtMostOneTimer`: `Spec => []OneLiveTimer`.
* `NoItemOrphaned`: `Spec => []NoOrphan`.
* `NoDoubleDelete`: `Spec => []DeletedOnce`.
* `NoItemLostOrDoubled`: `Spec => []EachItemOnce`.
* `ClusterImplementsSpec`: `Spec => ImplementsCluster`, the refinement of
  `ClusterSpec`.

All follow from `Invariance`, `Spec => []IInv`. None of the properties is
inductive. `IInv` adds to the types:

* `LockInv`: a thread owns the mutex exactly when it is between an acquisition and
  the matching release, twice when it is a callback inside `reset()`. Needed
  everywhere, because a step of one thread must not disturb what another has
  established under the mutex.
* `TimerInv`: the only live timer is the one `timerHandle_` names; there is none
  at the points where a new one is created or the cluster has been stopped. That
  `disposed_` is *not* equivalent to "nothing is live" after a failed creation
  is why its second half is restricted to `failures = 0`.
* `ActionInv`: `action_` is set before a timer exists, so a callback never finds
  it null and always reaches the mutex.
* `WakeInv`: `first_` is false only while the cluster has a wake-up: its timer is
  armed, or that timer's callback is on its way to the mutex, or the thread that
  holds the mutex is about to clear the cluster. This is the argument for
  `NoOrphan`: a push that finds `first_` false relies on a wake-up it did not
  create, and the only thread that can use it up clears the cluster before it
  lets go of the mutex.

`EachItemOnce` needs one more conjunct, in `ItemsInv`: while a callback has handed
the items downstream and not cleared them (`Flushing`), everything held has been
delivered, so that what the reset at the end of the flush clears is not lost. It
is preserved because of `LockInv`: that callback owns the mutex, so no push comes
between the hand-over and the clearing (`OthersNotFlushing`). `StepKinds` divides
the steps of `Next` into those that take an item, hand over, or clear, and the
quiet rest; what is shown of the four kinds gives both the invariant and the
refinement, in which `Seen` and `Batches` are the values the refinement mapping
gives to what `ClusterSpec` holds and has delivered.

`OwnTimerOnly` and `NoActionRace` need to know which callbacks are late:
`CurrentInv` says that without a `reset()` the only callback on its way is that
of the cluster's own timer, because the one step that would leave another one
behind, the `stop()` at the end of a flush, is made by that very callback.

There is one lemma per part (`NextTypeOK`, `NextLockInv`, `NextTimerInv`,
`NextActionInv`, `NextWakeInv`), each with one step per action of `Next`; the
last step of each theorem is temporal.

`ClusterChain` has the same steps and more. `ChainSteps` shows each of its steps
to be one of the cluster, a push by the action, or the destruction; so `IInv`
holds there too, and with it what the chain adds: `QuietAtTheEnd`,
`NothingGathersBelow` (the stage below is empty whenever nobody is between a
hand-over and the end of its reset), and `OnlyActionLosesItems`, where a flush
tells the items it has handed over from those the action has pushed since.

### A Timer and its owner

The last part of `ClusterProofs` EXTENDS `TimerOwner`, whose variables are those of
the Timer, which it shares with the cluster, and its owner's own. For any handles
and bounds (`BoundAssumption`): `NoHandleLost` (`OwnerSpec => []HandleGivenBack`) and
`NoLateStart` (`OwnerSpec => QuietAfterStop`, an action property). The invariant says what `timerHandle_` is worth: while no
creation has failed, a Timer that is not disposed remembers a live handle
(`OwnsHandle`); while no live timer was overwritten, there is no other live one,
and none when disposed (`OnlyHandle`). A callback can only start for an armed
timer, and armed timers are live.

`ClusterOwnsTimer` (`ChainSpec => Used!OwnerSpec`) puts the two together: a cluster, in
whatever chain, implements `TimerOwner`. Its owner is inside `once()` while a client
is between the assignment of `action_` and `init()`, and gone with the chain; it has
no periodic timer, one callback per handle, and replaces no live timer. The last is
what has to be shown, by `TimerInv` and `LockInv`: when `init()` creates a timer,
none is live. So the free interleaving of calls and callbacks that `timer_owner`
explores includes all that a cluster does to its timer.

### The block reader

`ReadBlocksProofs`, for any size of buffer and file and any `SizeLimit` above the
buffer size plus one (`SizeAssumption`): `SpansContinue` and
`WrapsOnlyWhenDrained`, both for the composition `CardInput`, which
`CardDrivesLoop` shows to be an instance of the loop. The invariant ties `offset`,
`remaining` and `numRead` to the contents of the buffer at each point of the loop,
says that a short read of an open file has set a flag, and so that after a
callback that was shown nothing the file is closed. `DifferenceInRange` and
`DifferenceWraps` are what `size_t` subtraction does.

`EveryByteShownTwice` needs a buffer of even size: half a buffer is what the
callback of `main()` answers. Its invariant, `ShownInv`, counts for every byte
how often it has been gathered: twice below what is settled, once in the half
buffer that will be shown again, never beyond.

`LoopRunsDown` is the safety half of `LoopEnds`: what the loop has left, three steps
for each byte not processed and the rest of the round, gets less with every step,
because the clamped answer is at least one. What is missing for `LoopEnds` is that a
loop that has steps left takes one, which is fairness and ENABLED.

### The stages

`PipelineProofs`, for any chain, any threads, predicates and mappers, and any
number of calls and exceptions. `ChainAssumption` asks for windows of at least
one item and a chain that ends; `ThreadAssumption` for `Nobody` not to be a
thread. The invariant has six parts. `Calls`: what frames a thread can have.
`LockInv`: a thread owns exactly the mutexes of the stages its call has gone
below (`Owns`), which is why no other thread changes what one of them holds.
`Data`, `Batch`, `Kept`, `Slides`, `Reset`: what is in the vectors, between and
during the calls. The steps are first sorted by what they do to the stack
(`GoesDown`, `TurnsBack`, `GoesUp`), then by what they do to a stage's items.

* `NothingIsLost`, `BatchesAreFull`, `WindowsAreTheLast`, `ResetLeavesNothing`
  are the properties of the run. The history `FlattenSeq(gave[k])` is recursive,
  and that appending a batch appends its items is proved by a least length at
  which it would fail (`LeastOf`), since the library's induction cannot be used.
* `NoCircleOfWaits` is not a property of the run: a thread waits only for one
  further down, or for one on its way up, which waits for nothing. That is the
  safety half of `CallsReturn`.

`ResetClears` speaks of a reset that holds a mutex. In an early form it did not,
and the proof failed for a chain whose upper stages have none: another thread
can pass the resetting one there and leave an item behind it.

### wwatch

`WWatchProofs`: `EveryBufferInOnePlace` and `PoolOutlivesReads`, for a finite
pool that is not empty (`BufferAssumption`). `PoolInv`: the free list has no
repetitions; at most one buffer is away from it, and the point of the loop says
where. The counts of `Places` follow from that.

`SplittingLosesNothing`, `CommandsFollowChanges` and `MissesAreSingle`, for
strings over any alphabet, any list of extensions, any kernel buffer and any number
of changes (`FileAssumption`: files have names, and names are strings).

* Text: `split`, `concat` and the walk of `toEvents` are recursive functions. That
  each exists is shown by a least length at which it would not (`JoinsExist`,
  `ScansExist`) or by naming it (`WalkExists`), and what each computes by a least
  index at which it would be something else: `Splitting` is the invariant of
  `split`'s loop (joining what is collected gives back what was read, and a field is
  empty only where two delimiters meet), and `ToEventsIs` says that `toEvents`
  returns its records but for the last of several.
* `RecordsInv`: every record, in the kernel, in a buffer, in a packet or among the
  events, is that of a change that happened, or the zeroed one; the zeroed one
  reaches the loop only after an overflow. With `HitIsWatched` it gives
  `RunsFollowChanges` but for the order.
* `FlowInv`, while nothing was forgotten: the numbers of the changes that the kernel
  keeps, then those in the packet, then those whose records the loop has got follow
  one another; the events and the commands run are in order; and of any two
  consecutive changes the loop has got, one is settled, that is, still among the
  events or with its command run. `GotBlock` is where that matters: the last record
  of a block is left out, and the first of the next never is.

`RecordsInv` and `FlowInv` were checked with TLC on the bounds of `wwatch` first.

### The sequential programs

* `CardProgramProofs`: `ReadsOnePastTheEnd` and `SummaryIsExact`, for any file and
  any change of it, when suits, faces and spaces are different characters
  (`CharacterAssumption`; with a character in two of these classes the second is
  false). The parser's result is in bijection with the places where a card is;
  that one pass finds them all is `FoundAll`: none lies between the card last
  found and the point reached, because whatever is dropped there is no card.
  `ProgramRunsDown` is the safety half of `Ends`: the phases, three steps for each
  character before `end` and one for each card found get less with every step of the
  program, whatever others do to the file. It needs that a card takes two
  characters (`Sparse`), and that the end met in the inner loop costs no round.
* `StreamFnProofs`: `NamesKept` (`Spec => []ForwardsAsNamed`) and `AllNeverCounts`
  (`Spec => []AllForgets`), for any predicate, mapper and `int`, any holders and any
  number of calls, copies and exceptions. What a closure promises of its past does
  not say what it will do next, so `IInv` adds what its state remembers: the count
  of a skip or a take is what is left of its `int` after the items seen (`Counts`),
  and the vector of a buffer is shorter than its size unless the last batch threw,
  of which it then has every item (`Gathers`). It holds for each holder with its own
  history, so a copy needs no more than that both are copied. What a filter chose
  and what a buffer delivered are stated with `FlattenSeq`, which is recursive; that
  it is defined and that one more item adds what that item stands for is shown by a
  least length at which it would fail. All of
  this is stated of a closure with its past (`Named`), whether a holder has it or it
  is the copy `all()` makes and throws away: the past of that copy is the holder's
  and one item more, so what holds of a holder carries over to it. With that
  `AllForgets` is itself inductive; its second part only needs that the loop stops
  at the first action that throws.
* `PrintHexProofs`: `LinesFit` and `NothingUncounted`, for any columns within
  the width of a `size_t`, any separator and length. `LinesFit` adds to `FitsColumns`
  that the line too wide, the one that counts the rest, has at most seventeen
  characters, since the count is an `int`. The arithmetic of
  `\div` and `%` that they rest on is proved there (`OneMore`, `RoundedUp`), and
  so is the number of multiples below a length.
* `ParsecProofs`: `ErrorsDieOnce` and `FirstChoiceTaken`, for parsers nested to any
  depth. `IInv` counts the owners of `Error`s: each call of an `OrParser` that
  runs its second parser has one, and the result may have one. For the choice,
  `Path` says that the stack is a path into the tree with only failures to its
  left, all at the position that was given. `Attempts` is a recursive function;
  that it exists (`AttemptsIs`) and divides at an `OrParser` (`SucceedsOf`) is
  shown by a least depth at which it would fail. `ParserAssumption` therefore
  gives each parser a `Depth` above that of its parts, which copies of parsers
  inside an `OrParser` always have.

Every one of these modules also proves the type invariant of its component.

### Not proved

Out of reach of the prover, and so for TLC alone:
liveness and fairness (`ItemsLeave`, `OnTopItemsLeave`, `CallsReturn`,
`BacklogDrains`, `LoopEnds`, `Ends`), seven properties of forty. Of three the safety
half is proved: `NoCircleOfWaits`, `LoopRunsDown`, `ProgramRunsDown`. No module declares
a RECURSIVE operator.

## 6. What the checks found

* `wwatch_promise`: `toEvents()` (`FileWatcher.cc:41`) stops at the last of two
  or more records without copying it, so of changes reported together the last
  is missed. The program tells its user that it executes the command for the
  files it watches (`Main.cc:67`).
* `read_blocks_clamp`: `myio.hh:96-97` bounds the callback's answer by what is
  available, `myio.hh:98` undoes that when nothing is. Then `available -
  processed` wraps around and `memmove` is asked for 2^64 - 1 bytes: no run of
  the loop ends by its own condition unless the file could not be opened or the
  buffer has no size. `card -`, the only caller, aborts at the end of its input.

Noted while modelling, and stated by properties as the condition under which
the code is right rather than as findings, because nothing in the repository
says otherwise: an early flush by a late callback after `reset()`
(`OwnTimerFlushes`), the loss of an item pushed from the action of a flush
(`LostIfPushedFromAction`), the reset of everything below a cluster with every
flush (`FlushForgets`), the time that a moved cluster does not keep
(`OnTopItemsLeave`), the unlocked read of `action_` (`ActionNotRaced`), the
second deletion of a handle after a failed creation (`DeletedOnce`), batches
that grow after an exception (`BatchSizes`), combinators that never move on
under `all()`, and actions left out because one before them threw (`AllForgets`), the
line that counts the rest wider than the columns (`FitsColumns`), a read one past the
buffer (`OverreadByOne`), the
second half of each block gathered twice by `card -` (`ShownTwice`), the command
run for every file after an empty extension (`RunsFollowChanges`), and a read
that is pending when the pool is freed, if `CreateIoCompletionPort` fails both
when the port is created and when the directory is associated with it
(`NoReadIntoFreedPool`): it reports failure by NULL, which `CompletionPort.hh:82`
does not test for, and which line 95 then finds equal to the port it expects.

## 7. What is not modelled

* `stream2.cc` and `stream3.cc`: drafts of `stream4.cc`. `trie.cc`, `rr.c` and
  `journal.cc` are unfinished; these three and `stream2.cc` do not compile.
* `main()` of `stream.cc` passes an lvalue where an rvalue is required (line 111)
  and does not compile either; its templates are modelled, called as their
  signatures allow. The `concat` of `stream4.cc` is modelled as its classes say
  it composes, although the builder's second parameter keeps `main()` from
  instantiating it.
* `thread.cc`, `threadlocal.cc`, `madints.cc`: threads without shared state.
* Measurements (`rep.cc`, `malloc.cc`, ...), language experiments, assembly, build
  skeletons, `Win32Error`: no state that changes, or output only. The `.cod` files
  are listings a compiler generated.
* Within the modelled parts: wording and layout of output, the time in a
  `TimeEvent`, and code that nothing calls: `CompletionPort::post`,
  `FileWatcher::poll` with `pollInternal`, `CFile::write`, and the ordering
  operators of `Card`, of which `card.cc` uses only `==`.
* `window(0)`, which erases from an empty vector with its first item, and the
  actions that `stream.cc` captures by reference and calls after their end
  (`stream.cc:34`): undefined from the first step, so nothing can be stated of
  what follows. `~Result()` destroys `m_stream`, which the compiler destroys again
  (`parsec.cc:67`): nothing observable depends on it for the iterators used.
* Moving or copying a chain once it is in use: `operator>>` moves stages while the
  chain is built, and `main()` of `stream4.cc` copies one without a mutex into a
  `std::function`.
* What a callback that is already running does to a chain that is destroyed under
  it: `ClusterChain` ends there. That it can happen is what `QuietWhenDestroyed`
  says by leaving it out.

## 8. Plan

Written in this order, because the interleavings of the cluster are the hardest
part of the repository: `Timer`, `TimerOwner`, `TimeCluster` with `ClusterSpec`,
the proofs of its lock and timers; `Pipeline`, `CompletionPort` and `WWatch`; the
sequential modules; then the compositions `ClusterChain`, `CardInput` and
`WatchUtil` in `WWatch`, and the proofs of the items, the refinement, the Timer and
the block reader.

Then the proofs of the chain around a cluster, the stages, the buffers of wwatch and
the sequential programs, component by component.

Last the combinators of `stream.cc`, whose promises were first stated with
`SelectSeq`, of which the prover has no facts, and the refinement of `TimerOwner` by
the cluster; and that the programs of `card` run down.

Nothing of the plan is left but what section 7 leaves out.
