# RTcmix: a TLA+ verification project

RTcmix is a real-time language for sound synthesis. A parser thread (Minc, Perl,
Python, a socket, OSC or a host application) creates *instruments* from score
commands. An audio thread, driven by the sound card, moves the instruments that
are due from a heap to *ripe queues*, one per bus, runs them slice by slice, and
mixes what they produce along a graph of *buses*. A pool of worker threads may
run the instruments of one bus in parallel. This project models the parts of the
engine whose correctness depends on order: which thread does what when, who owns
an object, and what is executed in which slice.

Paths are relative to the root of the repository. `PROJECT.json` lists the
components, the runs, the mutants, the source lines behind every definition, the
hazards, the findings and the theorems.

| Module | Models | Checked by | Proved in |
|---|---|---|---|
| `TaskPool` | the worker pool and its lock-free stack | `pool` | `TaskPoolProof` |
| `TaskBatch` | what the pool promises `inTraverse` | refinement in `pool` | `TaskPoolProof` |
| `Scheduler` | `inTraverse`, ripe queues, the life of an instrument | `score`, `session`, `late_note_freed_early` | `SchedulerProof`, `SamplesProof` |
| `InstHeap` | the heap of scheduled instruments | `heap` | `InstHeapProof` |
| `PriorityQueue` | what the heap promises the scheduler | refinement in `heap` | `InstHeapProof` |
| `BusGraph` | bus configuration, loop search, play order, the walk | `bus_graph`, `chain_configured_often` | `BusGraphProof`, `PlayOrderProof` |
| `MainLoop` | sessions, interrupts, the audio device and its thread | `main_loop`, `server_ends_early` | `MainLoopProof` |
| `InputFiles` | the table of input files and its reference counts | `input_files` | `InputFilesProof` |
| `MincInterp` | the interpreter: scopes, calls, nodes shared by activations | `minc`, `minc_stale_symbol` | - |

The modules whose name begins with `MC` only give constants their values.

## 1. Inventory

Modelled, or modelled in part:

| Component (sources) | State | Operations | What is hard | Correct when |
|---|---|---|---|---|
| Task pool (`src/rtcmix/TaskManager.cpp`, `atomic_stack.h`, `RTSemaphore.h`, `RTThread.cpp`) | list of added tasks, linked stack, request counter, one semaphore per worker and one for the audio thread, a mix vector per worker | add a task, hand a batch over and wait, pop, run, report, destroy | a lock-free pop without a version counter, nodes deleted under a racing reader, the barrier before the mix, left-over posts, shutdown | each task runs once per batch; nobody runs while the audio thread mixes; no stale compare-exchange succeeds; every batch and every shutdown ends |
| Scheduler (`src/rtcmix/intraverse.cpp`, `Instrument.cpp`, `heap/rtQueue.cpp`, `RefCounted.cpp`) | elapsed frames, ripe queues, each instrument's position, buses written and references | drain, play a queue, requeue or release, send, read the status | an instrument on several buses, notes that arrive late, panic, release at the right bus, the ending condition | a timely note puts each sample at its frame once on each of its buses; whatever a list holds is alive, whatever no list holds is released; playback ends when all is played |
| Instrument construction (`src/rtcmix/checkInsts.cpp`, `Instrument.cpp`) | the new instrument, its slot, its start and end | create, set up, configure, schedule | failing `init` and `configure`, starts relative to a clock that runs on | as above |
| Heap (`src/rtcmix/heap/heap.cpp`, `heap.h`, `queue.cpp`) | linked tree, queue of empty slots, size, lock | `insert`, `deleteMin` | two linked structures that must agree while slots are swapped, empty and one-element heaps | the leaves are exactly the empty slots in order; heap order; a priority queue for its callers |
| Bus configuration (`src/rtcmix/bus_config.cpp`, `BusSlot.h`) | graph of aux buses, three playlists, current slot per name | `bus_config`, default configuration, loop search, play order | loops, fixed-size tables, refused commands that leave traces, a walk while the lists are rewritten | no feedback, exact refusals, every bus of a note is visited once per slice, writers before readers |
| Main loop (`src/rtcmix/RTcmixMain.cpp`, `intraverse.cpp`, `RTcmix.cpp`, `rtsetparams.cpp`) | `run_status`, `audio_config` with its condition, `audioDone`, `rtsetparams_called`, the device pointer | run a score, a socket or an OSC session, wait, close, interrupt | flags without a lock, wake-ups, a handler on any thread, a loop of sessions | no use of a deleted device, every file closed, scores end, shutdowns are carried out |
| Audio devices with a thread (`src/audio/AudioDeviceImpl.cpp`, `ThreadedAudioDevice.cpp`, `AudioFileDevice.cpp`, `ALSAAudioDevice.cpp`) | state, stopping and closing flags, file descriptor, the thread | open, start, run, stop, close, delete | the thread's own end against `stop` and `close` from main | each descriptor is closed exactly once |
| Input files (`src/rtcmix/InputFile.cpp`, `rtinput.cpp`, `rtsetinput.cpp`, `rtgetin.cpp`) | file table, reference counts, the current input | open or find, attach, give back, close | counts lowered by deletions that run elsewhere, a score that fails half way, a full table | a reader's file stays open in its slot; a count is exact, and the last reader closes the file |
| Minc interpreter (`src/parser/minc/Node.cpp`, `Scope.cpp`, `Symbol.cpp`) | scopes, stacks of calls and arguments, values and symbols kept in the nodes of the tree, a pending return | execute a statement, call, return, throw | every activation of a function uses the same nodes; an exception may pass over anything | nobody can tell that nodes are shared; every stack is balanced however a score ends; nothing runs after a return |

Not modelled (the reasons are in section 8):

| Component | State | Operations | How it meets the rest |
|---|---|---|---|
| Buffers (`src/rtcmix/buffers.cpp`, `rtsendsamps.cpp`, ...) | aux and out buffers | allocate, clear, add, send | written in the order `BusGraph` and `Scheduler` give |
| Minc's grammar and its other values, Perl and Python front ends | lists, maps, structs, strings | parse, evaluate | call the commands of a score in sequence |
| Dispatch and handles (`src/rtcmix/dispatch.cpp`, `handle.cpp`) | tables of functions | look up, call | the parser thread only |
| PFields and PFBus (`src/rtcmix/PField*.cpp`) | one number each | read, connect | instruments read what controllers write |
| Controllers (`src/control/`: MIDI, OSC, mouse, display) | device state | poll, call back | threads that write one number |
| Options, tables, `cmix` on disk, loader | values | read, compute | used at start, or by the parser thread |
| Instruments and DSP library (`insts/`, `genlib/`) | filters, oscillators | init, configure, run | in `Scheduler`, what runs for a chunk |
| Hosts (Max, Pd, `src/imbed`, apps) | an embedded RTcmix | script, traverse, flush | call `inTraverse` themselves |
| Other audio drivers, vendored libraries | external | external | external |

How the parts interact:

- the parser thread calls `bus_config` (graph and playlists, under a
  reader-writer lock held for one entry or one step), `checkInsts` (creates an
  instrument and inserts it into the heap, under the heap's lock) and
  `rtsetparams` (opens the device, wakes up main);
- the audio thread calls `inTraverse` once per slice: it empties the heap into
  the ripe queues up to the slice's end, walks the playlists, and for each queue
  runs what is ripe, itself or through the pool; then it sends the buses to the
  device and reads `run_status`. When `inTraverse` returns false the device's
  thread ends, may close its device, and sets `audioDone`;
- the parser thread attaches an instrument to the file `rtinput` last named;
  whoever drops the instrument's last reference, mostly the audio thread, gives
  the file back;
- main waits for `audio_config`, starts the device, polls `audioDone` and
  deletes the device;
- the interrupt handler and the command threads write `run_status` and
  `audio_config` whenever they like.

## 2. Plan

Done, in this order: `TaskPool` with `TaskBatch` and their proof, because a
wrong barrier corrupts everything above it; `Scheduler`, the heart of the
program; `InstHeap` with `PriorityQueue`; `BusGraph`; `MainLoop` with its proof;
`MincInterp`; `InputFiles` with its proof; the proofs of the heap and its
refinement, of the loop search, of the scheduler, and of the play order and the walk
along it.

Left, the most useful first:

- A composition of `Scheduler` with `BusGraph`: the play order the scheduler
  takes as a constant is the one the graph computes. Writers then precede the
  readers of a bus sample by sample.
- Bus slots (`BusSlot.h:14`): two threads raise and lower one plain int.
- CHAIN (`makeinstrument`), which holds instruments outside of the scheduler.
- Pauses and RT_SKIP of the devices, PFields that controllers feed; lists and
  structs in `MincInterp`.

The abstract specifications are `TaskBatch` and `PriorityQueue`. `Scheduler`
uses both in place of the code they stand for: its `PlayBatch` is one step
because of `TaskBatch`, its heap is a set because of `PriorityQueue`.

## 3. Modules and code

`map` in `PROJECT.json` gives the lines of every definition. Some definitions
are named after another with a deviation (`PopStore` after `PopCas`): they are
that definition with a plausible bug, are not part of `Next`, and are what
`mutants` puts in its place to show that a property notices.

**TaskPool.** `mainPc` is the audio thread inside `TaskManager`: `gather`
(addTask), `push`/`pushCas` (push_atomic), `wake`, `waitAll`, `mix`, and
`stop`/`join` (the destructor). `wpc[w]` is a worker inside `TaskThread::run` and
`pop_atomic`. Every load, compare-exchange, semaphore operation and counter
update is one action. Memory is explicit: `alloc` are the addresses in use, a
freed address may be handed out again at once, and the read of a deleted node
returns anything (`PopReadNext`).

**Scheduler.** One action per element of a queue (`PlayNext`: pop, `exec`,
add to the bus, requeue or release) and per stage of `inTraverse`. `inst[i]`
holds the members of an instrument that matter here: references, position, end,
buses written, whether `run` is due. A bus buffer is the set of samples mixed in,
each with its frame and its number in the note, so that a property can say what
reaches the device. The multi-threaded build pops a whole queue (`Gather`), runs
it as a batch (`PlayBatch`) and then requeues. `build` is chosen at the start.

**InputFiles.** `rtinput` is `FindInput`, `OpenInput`, `OpenFails`, `NotRecording`
and `TableFull`; `rtsetinput` is `AttachInput`, `IllegalOffset` and `AttachFails`;
a destructor is one step where the thread that drops the reference runs it, and
three where the system's queue does (`Delete`, `DestructorStarts`,
`DestructorEnds`): the count is loaded in one and stored in the next. `host` says
how RTcmix runs: a score or a session, under a front end that stops at a failed
call or one that goes on, with deletions on a queue or not.

**MincInterp.** One step executes one statement of the top level, as `go` does;
`Exec` follows `exct` from node to node with the whole state of the interpreter.
A node is its path in its tree, `value` and `symbol` are what `Node::v` and
`Node::_symbol` hold, so that two activations of a function overwrite each other
exactly where the code's do. With `shared` FALSE every activation has nodes of
its own: the reference that `SharingUnseen` compares with.

**InstHeap.** A slot is the path to it from the top, `2k` and `2k + 1` being its
children in the order `insert` appends them to the queue of leaves. Each turn of
a sifting loop is an action, and the lock is a variable.

**BusGraph.** One action per hold of the playlists' lock and per bus of the
breadth-first search. `walk` and `accepted` are history variables. The walk of
`inTraverse` is in the module, one action per entry.

**MainLoop.** `mainPc` runs through `runMainLoop`, `waitForMainLoop` and `close`;
`parserPc` is the thread that parses (main itself in a score); `handlerPc` is
`interrupt_handler`, `audioPc` the device's thread. Reads and writes of the
shared flags are separate steps in the order of the code. Of `inTraverse` only
the result matters.

## 4. Runs

Distinct states are those of TLC 2 with the given configuration.

| Run | Question | Instance | States |
|---|---|---|---|
| `pool` | Do two workers and the audio thread run each batch once, whatever the interleaving of single memory operations, is every batch and every shutdown completed, and is `TaskBatch` implemented? | 2 workers, 3 tasks, 3 addresses | 140,177 |
| `score` | Does a parsed score reach the device, sample for sample, and end? | 2 notes, 3 queues, slices of 2 frames, starts 0 and 3, lengths 0, 2, 5, failures of `init`, `configure` and the device, cuts, an interrupt | 138,034 |
| `session` | The same for notes sent while the audio runs, in both builds; and do buses keep in step, and no note run twice in a slice? | 2 notes, 2 queues, starts 0 and 1 from now, lengths 1 and 4, panic, cuts, failing `configure`, an interrupt, 4 slices | 2,787,015 |
| `heap` | Do the two linked structures of the heap agree, and is it a priority queue? | 6 instruments, 4 start times, one parser against the audio thread, 2 slices | 49,543 |
| `bus_graph` | Is every graph of three commands ordered, or rightly refused; and does the walk stay in the lists and find every bus while a session rewrites them? | 8 buses (`MINBUS`), 2 channels; a score: 15 configurations, 3 commands; a session: sources and outputs, 2 commands | 503,936 |
| `main_loop` | Does every kind of session end in order, with no device used after its deletion or left open? | score, socket and OSC; hardware and file; 4 commands, an interrupt, a score of 2 slices | 481,212 |
| `input_files` | Is a file kept for as long as a reader is left, and no longer? | 3 instruments, 5 names (the device, two files, one with too many channels, one missing), 2 slots, every kind of host | 18,131 |
| `minc` | Is the interpreter's state balanced after every score, and does nobody notice that the activations of a function share its tree? | 14 functions, nearly all recursive, 11 statements that use them, 4 in a row | 8,643 |
| `late_note_freed_early`, `chain_configured_often`, `server_ends_early`, `minc_stale_symbol` | findings, see section 7 | one property each | until the violation |

What the properties say is in the comment above each of them.

Why the bounds are enough to be interesting:

- *pool*: with three tasks and two workers a worker may take two tasks, a batch
  may be larger or smaller than the pool, and a freed address may come back in
  the next batch while a slow worker still holds the pointer. The batches are not
  bounded. The theorems of section 6 cover every number. Task objects are
  interchangeable, so the CONSTRAINT `TasksInOrder` keeps one order of adding and
  pushing a batch: every other behaviour is one of these with its tasks renamed, and
  wherever a step out of order is possible one in order is, so fairness is not
  cut short.
- *score*, *session*: slices of two frames tell the start of a slice from its
  middle; a length of 5 crosses two boundaries, 0 and 2 are the corner cases; one
  bus, two buses of one note, and two notes that meet on a bus all occur. Two
  notes are enough to disturb each other: a queue's elements interact only through
  its order. Late notes occur in `session`: in the multi-threaded build the parser
  may be preempted for a slice between reading the clock and inserting (`Timely`
  says for which build it may not, so that both are explored; the single-threaded
  build with late notes is the finding `late_note_freed_early`).
  `NoteNeverOverrun` and `BusesInLockstep` are checked in `session`, where notes
  may be late; in `score` every note is timely and `SamplesOnTime` says more.
- *heap*: six instruments fill three levels, so that a sift has a node with two,
  one and no filled child, and the bottom moves between levels.
- *bus_graph*: a loop needs up to three commands; two inputs and two outputs in
  a slot give two ways between buses and repeated inputs; 8 is the smallest
  number of buses the program allows, and the walk can reach the lists' ends.
- *input_files*: with two slots the table fills, a slot is used again for another
  file, and three instruments may be attached to one file, be deleted at once, or
  fail between two others.
- *minc*: most kinds of nodes occur with a call that runs the same node again
  between its first and its last use of its own fields; recursion reaches depth 2
  for each function and the limit of the list stack (6 instead of 32) for one
  that does not end; eleven statements cover too few and too many arguments, an
  argument of the wrong type, a call in an if, in a block and in an argument, an
  exception, a second definition, and more arguments than a list has room for (3
  instead of 1024). No function of the run stores to a variable that holds a
  function, after which the store would keep to the types (`strict`).
- *main_loop*: four commands allow two OSC sessions, each with a stop, and two
  devices.

Deadlock is checked in all runs but `bus_graph`, `chain_configured_often`,
`main_loop`, `server_ends_early` and `input_files`: the first two end when the
score has failed and nothing plays; in the others the process exits, or a session
waits for a client that sends nothing more, or a score has been played and its
instruments are gone. Where a run reaches a bound the module has a `Finished`
step, so that a deadlock elsewhere would be seen.

## 5. Fairness

- `TaskPool!FairSpec`: weak fairness for the audio thread once it has a batch
  and for every worker: both are threads of a preemptive scheduler, blocked only
  on semaphores. Strong fairness for a successful compare-exchange: the weak form
  may fail spuriously, but not for ever. What the caller decides (to add a task,
  to destroy the pool) is not fair.
- `Scheduler!FairSpec`: weak fairness for the parser and the audio thread, used
  in `score`, where the parser works through a finite score.
- `MainLoop!Spec`: weak fairness for each thread and for an interrupt handler
  that has begun; none for the user, the client, or the start of a device that
  may fail.
- `TaskBatch!Spec` promises in turn that a batch that is started is completed.
- `InstHeap`, `BusGraph`, `InputFiles` and `MincInterp` state safety only.

## 6. What is proved

`tlapm` checks `TaskPoolProof` (1,122 obligations), `MainLoopProof` (881),
`InputFilesProof` (642), `InstHeapProof` (1,456), `BusGraphProof` (1,001),
`PlayOrderProof` (3,688), `SchedulerProof` (2,994) and `SamplesProof` (1,962) to the
last leaf; nothing is assumed but the named assumptions on the constants, and where a
theorem needs more of them, the hypotheses in its statement.

**TaskPoolProof**, for every number of workers, tasks and addresses. Assumed:
at least one worker; `NULL` is no task and no address; the sets of tasks and
addresses are finite and there is an address per task (`new` does not fail).
None of the properties is inductive, nor is `TypeOK`, which says that no semaphore
ever counts beyond 0 and 1: a post must find it at 0. The invariant `IInv` adds

- *Accounting*: the request counter, the posts of the semaphores and the
  positions of the workers add up. While the audio thread waits, the counter is
  the number of workers that were woken and have not reported; a post of
  `mWaitSema` exists only when it is zero. This is what turns "the counter
  reached zero" into "no worker is popping", and so gives `MixIsComplete` and
  `CleanBetweenBatches`.
- *Stopping*: the destructor finds every semaphore of a worker it has not yet woken
  at 0, and nobody posts but the destructor.
- *Contents*: the nodes reachable from `head` hold distinct tasks, each task of
  the batch is not yet pushed, on the stack, in one worker's hand, or in one mix
  vector. Because nothing is pushed while a worker pops, the head only moves
  forward, and a pointer that equals the head was read with the head's true
  successor: `NoStaleNext`, `NodeDeletedOnce`, `TaskRunsOnce`.

Theorems: `TypeCorrect`, `Invariance`, `MixAfterBarrier`, `ExactlyOnce`, `NoABA`,
`NoDoubleDelete`, `CleanStart`, and `Refinement`: initial states are initial
states of `TaskBatch`, and each step is one of its steps or a stutter.

**MainLoopProof**, for every number of commands and slices, and every kind of
session and device. Assumed: the modes and kinds are those the code has, the
numbers are natural. `DeviceOutlivesThread` and `DeletedIsClosed` are not
inductive; the invariant adds

- *Files*: a file device is closing exactly if its descriptor is closed; an ALSA
  device is open exactly if its descriptor is;
- *Playing*: while the thread uses the device, `audioDone` is false,
  `audioLoopStarted` is true (so an interrupt cannot end the process) and main is
  between the start of the device and the end of its wait;
- *Pointers*: the device main is about to change exists, and is in a state that
  allows the change.

Each step is a lemma per thread: `ParserOwned`, `MainOwned`, `AudioOwned`, and
three more for the types of the other variables. Theorems: `MainInvariance`,
`MainTypeCorrect`, `ThreadOutlived`, `NoDeviceLeftOpen`.

**SchedulerProof**, for any number of notes and queues, any slots, start times and
lengths, any length of slice, in scores and sessions, in both builds, with every
fault the module has. Three theorems need that no note is late, or that the
multi-threaded build plays the late ones (`Careful`). No note is late in a score, nor in
the builds in `Timely`, where the parser is not held up for a whole slice between
reading the clock and inserting the note (`Punctual`). A condition is
needed, as in a session of the single-threaded build with late notes `AliveWhileHeld` is
false (`late_note_freed_early`), because the walk meets what it has requeued again on the
same bus. Assumed of the constants: a slice has a frame, no
queue is in the play order twice, a slot has a queue. The single facts are not
inductive, because an instrument is between two states while the walk passes its
buses. The invariant `IInv` is

- *Times*: before the walk every entry of a queue is due in the slice, and none is
  due later than the end of it. If no note is late, an entry that is put back begins
  the next slice, and the entries tell how far the walk is. A late note's next chunk
  may still lie in this slice (`Onward`); then it counts as due (`Due`) only on the
  queues the walk has not passed. So an instrument is on all its queues at one
  position, or one chunk further on those that are passed (`At`);
- *Places*: an instrument is with the parser, in the heap, held by queues or the
  batch, or nowhere, and owns what goes with that. While it is held, the buses on
  which it still waits tell which ones it has written, whether `run` is due at the
  next, and which references are left: `Rested`, nothing written in the slice, or
  `Walked`, written on all it does not wait for;
- *OneEach*, *Batching* and *Parsing*: no list holds an instrument twice, what a
  task was told, and that a new note starts after the slice if none is late.

Theorems: `TypeCorrect`, `InstrumentsLiveWhileHeld`, `BusesStayInStep`. The fourth,
`PlaybackEndsComplete`, has no such condition. Its invariant is that playback has
been told to end only by an interrupt, or in a score with nothing left anywhere
(*Stopping*), and that in a score whatever is on a queue for the next slice has been
counted (*Counted*): `allQSize` is set when an entry is put back, and no entry is left
on a queue that the slice did not play. That an instrument on no list is not alive
comes from `IInv`: a score is never late, and in a session playback does not
end by itself.

**SamplesProof**: on top of `IInv`, the notes that were drained in time and never cut.
Such a note is due at one position of the slice on all its buses, where the slice
begins or the note starts (`Position`); of the samples due in the slice the mix has
those of the buses it has left, and its counters name the next ones (*Aligned*); one
that no list holds any more has ended in the slice, with all of them in the mix
(*Ended*). A note that is not drained yet has played nothing (*Unplayed*), and the mix
is empty before the walk (*Cleared*). Theorem: `SamplesAreOnTime`.

The condition is `Careful` again: late notes leave the timely ones undisturbed.
The second theorem, `NotesAreNeverOverrun`, is about the late ones too. Its invariant adds
that a chunk ends with the note wherever it starts (*Bounded*, from `ChunkBounds`), and
that what was heard is not heard again (*HeardOnce*), because its bus is behind or has
no entry of the note that is due in the slice.

**InstHeapProof**, for any number of instruments, parser threads, start times and
slices. The invariant adds that the lock makes the sifting of one thread the only
change in progress (*Locked*, *Positions*), that the children of the slot being
sifted are in order with its parent (*Grandchildren*), so that a swap mends one
edge and breaks at most the next, and that no instrument is in two slots. The
leaves are an interval of slot numbers, `Count + 1 .. 2 * Count + 1`, which gives
`LeavesAreFrontier`. Theorems: `TypeCorrect`, `LeavesCorrect`, `OrderCorrect` and
`HeapIsPriorityQueue`: the whole refinement, as PriorityQueue's specification is
safety alone.

**BusGraphProof**, for any number of buses, names and configurations.
`RefusalsAreJustified`: what the lists of inputs hold is an edge of an accepted
configuration (*Recorded*), and each bus the search met leads to the new inputs
(*Met*). `NoLoopIsAccepted`: under the hypothesis that no bus can be given
`busCount` inputs (`Suffices`), so that no list is started again, the lists hold all
edges (*Complete*), and a search that ends has visited all that leads to the new
inputs (*Looked*); a loop through a new edge would have to be among them. Without
the hypothesis the theorem is false: `chain_configured_often` is how.

**PlayOrderProof**, on top of it, is about the playlists and the walk. The invariants:

- *Scanned*, of the two flat lists: they hold the buses in use in ascending order, an
  entry's place being the number of buses below it. A rewritten list therefore moves
  a bus back or leaves it where it is, never towards an entry the walk has passed;
  this is why a session may rewrite these two under the walk, entry by entry;
- *Ordered*, of the third: what `create_play_order` has written, and what its search
  has met and is still to write, are different buses, namely those without a parent
  and those visited that have one. So there is room for each (`Room`, by counting);
- *Closure*: the inputs of a visited bus are visited or on the list of those to be
  checked, and so are the buses without a child. When nothing is left to check, the
  buses with a parent that were not visited would each have a child among
  themselves, that is, form a loop, which `NoFeedback` excludes (`NoneMissed`);
- *ByClass*, *Along*, *Passed*: where the walk has been. It is past a queue in a
  list only if it has played it, and in a score goes along lists that rest;
- *Levelled*, for any grading of the graph: the search meets the buses level by
  level, its list of buses to be checked spans two levels at most, and what it has met
  climbs. Reversed, writers come first; a bus that a later search finds met already
  was written by an earlier one (*WritersMet*, *WritersPending*, *WritersWritten*).

| Theorem | States | Hypotheses beside the assumptions |
|---|---|---|
| `ListsAreInBounds` | `TypeOK` | none |
| `NoQueueIsPlayedTwice` | `NoBusPlayedTwice` | none |
| `WalkStaysInBounds` | `WalkStaysInList` | fewer channels than buses, and an aux bus that is in no configuration |
| `EveryQueueIsPlayed` | `EveryBusPlayed` | `Suffices(K)` for a `K`; `NoChainInSession` |
| `WritersArePlayedFirst` | `WritersFirstIfGraded` | the same |

The hypotheses are conditions the code does not check. Without a free bus a playlist
has no -1 at its end and the walk meets the assertion at `intraverse.cpp:364`. Without
`Suffices` a list of inputs is started again (`chain_configured_often`). Without
`NoChainInSession` the third list is written anew under the walk in an order that is
not ascending, and a slice may miss a queue (section 7). The instance of `bus_graph`
meets all of them: `K` is 2, buses 4 to 7 are free, its session has no chains.

**InputFilesProof**, for any number of instruments, names and slots, and every kind
of host `HostAssumption` admits. `ReferencesAreExact` and `ReaderKeepsItsFile` need
each other, and three facts more: an instrument that owes a reference has its file
in its slot (*FilesKept*); deletions do not meet attachments (*Deletions*); what a
deletion has loaded covers those still attached (*Loads*), although others may have
stored since. Theorems: `TypeCorrect`, `ReferencesCorrect`, `ReadersKeepFiles`.

**Only model-checked**: all of `MincInterp`, whose `Exec` is recursive, which the
prover cannot expand; and all liveness (`BatchCompletes`, `PoolShutsDown`, the liveness part of `ImplementsTaskBatch`,
`ScoreIsPlayed`, `ShutdownEndsSession`, `ScoreRunsToEnd`): liveness under fairness is
out of the prover's reach.

## 7. What the checks found

Four runs end in a violation; `findings` quotes the text of the repository each
one contradicts.

- `late_note_freed_early` (`intraverse.cpp:642`): a stereo note that arrives
  late runs twice in a slice; its buses fall out of step, and when it ends the
  scheduler drops its reference while the second queue still holds it.
- `chain_configured_often` (`bus_config.cpp:383`): a bus that has been given
  `busCount` inputs, repeated ones included, forgets them all and drops out of
  the play order; notes on it are silent.
- `server_ends_early` (`rtsetparams.cpp:119`): main is woken up before
  `rtsetparams_called` is set, and the OSC server may end unasked.
- `minc_stale_symbol` (`Node.cpp:1646`): in `x += f(n - 1)` within `f`, the target is
  looked up before the call, whose activation leaves its own `x` in the node; that
  one is freed when the call returns, and read and written afterwards.

Other places where the code does less than one might think. The models keep
them, unless it is said that they do not, and the properties are stated so as to
hold with them:

- A session that joins two chains rewrites the play order entry by entry under
  the walk (`bus_config.cpp:487`), and a slice may miss a queue; the session of
  `bus_graph` has no chains.
- In `n + f(n - 1)` and in relations the left operand is read from its node after
  the call has run the same node (`Node.cpp:1870`); `&&` and `||` preset their own
  value and may return what an inner activation left. `SharingUnseen` is stated for
  trees in which no operator is `Exposed` in this way.
- After an argument that does not fit, `inCalledFunctionArgList` stays set; a
  declaration that then repeats a name asks an empty vector for its last element
  (`Node.cpp:1954`). The model ends there (`noCaller`).
- Under a front end that goes on after a failed call, an instrument that fails may
  drop the last reference of the file that `last_input_index` still names: the next
  instrument without a configuration meets the assertion at `bus_config.cpp:582`
  (`DefaultConfigAborts`), one with a configuration is told there is no input.
- A file with more than MAXCHANS channels is refused after its name is in the
  table (`InputFile::init`), and a second `rtinput` of it succeeds.
- Where deletions run on a queue of the system (macOS), two decrements may lose
  one, and the file is never closed; no count ever falls too low. A deletion that
  meets a `reference()`, under Perl, is left out (`HostAssumption`).
- In a session files are never given back, so the table fills. `rtinput` leaks the
  descriptor when it is full.
- `RECORD` and `VCCM` ignore what `rtsetinput` returns. CHAIN drops references of
  instruments it never counted, so that a handle given to two CHAINs is freed
  twice. Start samples pass through `unsigned long` (`heap.cpp:101`), which is 32 bits wide
  on some hosts. A former configuration of a name stays in the graph
  (`bus_config.cpp:402`). None of these is in a model but the last.

- A panic pops notes without releasing them, and `checkInsts` does not release
  an instrument whose `configure` fails in a session (`EndedIsReleased` excludes
  both).
- The end of a panic, in `sockit` (`RTcmixMain.cpp:1111`) or in `inTraverse`
  (`intraverse.cpp:758`), sets `RT_GOOD` and so may overwrite an interrupt's
  `RT_SHUTDOWN`; so does the end of RT_SKIP (`intraverse.cpp:140`).
- The OSC loop resets three flags one after the other (`RTcmixMain.cpp:504`-
  `508`): a quit in between is overwritten until the next stop, and a device that
  `rtsetparams` opens in between is neither played nor deleted.
- An interrupt after `RTcmixMain.cpp:832` and before main waits clears
  `audio_config`, and a score waits for ever: `ScoreRunsToEnd` excludes
  interrupts. `RTcmix_off` ends the socket thread without waking up main, and an
  interrupt leaves main in the join of a socket thread that waits for its client.
- A file device's thread may call `stop` on itself: main sets the state to
  Running after `start` returns, which may be after the thread has ended. The
  join fails without effect.
- If every bus is in use, a playlist has no room for its closing -1, and the walk
  runs into the assertion at `intraverse.cpp:364`: the instances leave a bus free.
- A `bus_config` that reverses a former chain of the same instrument is refused
  as a loop, although nothing plays on the former one. And where two buses are
  connected by ways of different lengths, a reader may come before a writer:
  hence `Graded` in `WritersFirstIfGraded`.

## 8. What is not modelled, and why

- *Samples and arithmetic*: `insts/`, `genlib/`, tables, sample conversion,
  buffers. Numerical code without order; the scheduler's model has the number of
  each sample instead of its value.
- *Reading input files*: skips, conversion, files in memory and the buffers of an
  embedding host, which `InputFiles` leaves out; the counts of bus slots. An
  instrument is counted by one thread at a time, so exact counts are faithful in
  `Scheduler`; a bus slot is not.
- *Minc's grammar and other values* (strings, lists, maps, structs, methods, handles):
  data that one thread evaluates; Perl and Python are not part of the repository.
  Dispatch, handles, options, the loader: sequential, and used by the parser
  thread only. The models keep that a command may fail.
- *Controllers and PFields*: each writes one number; the only effect on the
  scheduler, an end moved to zero, is `cut`.
- *Hosts*: an embedded RTcmix is driven by its host's callback; RT_FLUSH and
  `resetHeapAndQueue` belong there.
- *Other devices* (OSX, JACK, OSS, ...) and recording: the devices of the Linux
  build that run a thread of RTcmix are modelled.
- *Memory order*: memory is sequentially consistent. The stack uses relaxed
  loads with release and acquire exchanges (`atomic_stack.h:208`-`221`); the
  semaphores order a batch's pushes before its pops, and a stale head only makes
  an exchange fail, which the model allows at any time (`PopRetry`). The plain
  flags `run_status` and `audioDone` are modelled as if each read and write were
  atomic.
- `getTop` of the heap, which nothing calls, and what the heap leaks when it
  becomes empty; the startup zeros and RT_SKIP in `Scheduler`; a signal that
  arrives while its thread holds `audio_config_lock`.
