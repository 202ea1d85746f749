----------------------------- MODULE Scheduler -----------------------------
(***************************************************************************)
(* RTcmix's scheduler: the audio callback inTraverse, the heap of          *)
(* scheduled instruments, the ripe queues (one per bus and bus class) and  *)
(* Instrument::exec, with the parser thread that creates and schedules     *)
(* instruments meanwhile.                                                  *)
(*                                                                         *)
(* Each callback renders one slice of FrameCount frames: it moves the      *)
(* instruments due in the slice from the heap to the ripe queue of each of *)
(* their buses, then walks the queues in playlist order.  An instrument    *)
(* computes its chunk of samples (run) at the first of its buses and adds  *)
(* one channel of it to the bus at each (addout); it is requeued as long   *)
(* as it has samples left, and released at its last bus otherwise.         *)
(*                                                                         *)
(* Abstracted: a sample is the number it has in its instrument's output,   *)
(* so a bus buffer is the set of <<instrument, queue, frame, sample>>      *)
(* mixed into it; the heap and a ripe queue are sets, popped at any of the *)
(* least start times; what only the audio thread sees is done in one step  *)
(* per queue element; reference counts are exact (no lost update).         *)
(* A definition named for a deviation of another (SettledEarly) is that    *)
(* definition with a plausible bug, and not part of Next.                  *)
(***************************************************************************)
EXTENDS Integers, Sequences, FiniteSets

CONSTANTS
  Insts,         \* instruments
  FrameCount,    \* frames in a slice, bufsamps()
  PlayOrder,     \* the three playlists one after the other: queues <<class, bus>>
  Slots,         \* bus configurations: sets of queues of one class
  StartTimes,    \* start times of the score, in samples
  Durations,     \* nSamps of an instrument
  MaxSlices,     \* bound: an interactive session is explored for that long
  INTERACTIVE,   \* notes arrive while the audio runs
  Builds,        \* "single", or "multi": plays a bus's instruments in parallel
  Timely,        \* the builds in which the parser is never preempted for a slice
                 \* between reading the elapsed time and inserting into the heap
  Faults         \* what may go wrong, a subset of FaultNames

FaultNames == {"setup",      \* an instrument's init fails
               "configure",  \* an instrument's configure fails
               "cut",        \* run calls setendsamp(0) (bus_link, CONTROLLER)
               "panic",      \* the user sends RTcmix_panic
               "shutdown",   \* the user interrupts
               "device"}     \* rtsendsamps fails

ASSUME FrameAssumption == FrameCount \in Nat \ {0}
ASSUME ModeAssumption == /\ INTERACTIVE \in BOOLEAN
                         /\ Builds \subseteq {"single", "multi"}
                         /\ Timely \subseteq Builds
                         /\ Faults \subseteq FaultNames
Queues == {PlayOrder[n] : n \in DOMAIN PlayOrder}
ASSUME PlayOrderAssumption ==
  /\ PlayOrder \in Seq(Queues)
  /\ \A m, n \in DOMAIN PlayOrder : m # n => PlayOrder[m] # PlayOrder[n]
ASSUME SlotAssumption == \A s \in Slots : s # {} /\ s \subseteq Queues
ASSUME TimeAssumption == StartTimes \subseteq Nat /\ Durations \subseteq Nat

VARIABLES
  build,      \* the build that runs
  parserPc,   \* "ready", "insert", "panic", "done" or "failed"
  cur,        \* the instruments between configureEndSamp and heap::insert
  run_status, \* "RT_GOOD", "RT_PANIC", "RT_SHUTDOWN"
  interrupted, \* interrupt_handler_called
  rtHeap,     \* pairs <<start, instrument>>
  inst,       \* the instruments' members, see InstType
  fate,       \* history: what became of each instrument, see Fates
  audioPc,    \* where inTraverse is
  panic,      \* inTraverse's local
  bufStart,   \* bufStartSamp, which elapsed equals
  rtQueue,    \* per queue, pairs <<start, instrument>>
  playIdx,    \* position in PlayOrder
  batch,      \* MULTI_THREAD: <<start, instrument>> popped for the task manager
  allQSize,   \* inTraverse's sum of queue sizes: is it positive?
  playEm,     \* what inTraverse will return
  mix,        \* the buses' buffers
  twice       \* history: a sample was added to a bus twice in this slice

parserVars == <<parserPc, cur>>
statusVars == <<run_status, interrupted>>
sliceVars  == <<bufStart, panic, playEm>>
playVars   == <<rtQueue, playIdx, batch, allQSize, mix, twice>>
vars == <<build, parserVars, statusVars, rtHeap, inst, fate, audioPc, sliceVars,
          playVars>>

bufEnd == bufStart + FrameCount

MULTI_THREAD == build = "multi"

\* getElapsedFrames(): the first frame of the slice after the one that plays.
ElapsedFrames == bufStart + FrameCount

\* A note is "none" before it is created; "failed" when it never plays; "timely"
\* or "late" by the slice it is moved to the ripe queues in; "cut" once its
\* run() sets endsamp to 0, "panicked" once a panic drops it.
Fates == {"none", "scheduled", "failed", "timely", "late", "cut", "panicked"}

NoInst == [slot |-> {}, start |-> 0, end |-> 0, refs |-> 0, alive |-> FALSE,
           needs |-> TRUE, written |-> {}, cursamp |-> 0, out |-> 0, chunk |-> 0,
           offset |-> 0]

Least(pairs) == {e \in pairs : \A d \in pairs : e[1] <= d[1]}
Ripe(pairs)  == {e \in Least(pairs) : e[1] < bufEnd}
Min2(a, b)   == IF a < b THEN a ELSE b

\* RefCounted::ref and unref, n times.
Ref(r, n)   == [r EXCEPT !.refs = @ + n]
Unref(r, n) == [r EXCEPT !.refs = @ - n, !.alive = r.refs > n]

-----------------------------------------------------------------------------
Init ==
  /\ build \in Builds
  /\ parserPc = "ready"
  /\ cur = {}
  /\ run_status = "RT_GOOD"
  /\ interrupted = FALSE
  /\ rtHeap = {}
  /\ inst = [i \in Insts |-> NoInst]
  /\ fate = [i \in Insts |-> "none"]
  /\ audioPc = "idle"
  /\ panic = FALSE
  /\ bufStart = 0
  /\ rtQueue = [q \in Queues |-> {}]
  /\ playIdx = 1
  /\ batch = {}
  /\ allQSize = FALSE
  /\ playEm = TRUE
  /\ mix = {}
  /\ twice = FALSE

-----------------------------------------------------------------------------
(* The parser thread: checkInsts and Instrument::schedule.                 *)

\* The instrument is created and referenced; its init fails: it is released.  The
\* parser throws the status, and a score that fails is not played (main exits).
SetupFails(i) ==
  /\ parserPc = "ready"
  /\ fate[i] = "none"
  /\ "setup" \in Faults
  /\ fate' = [fate EXCEPT ![i] = "failed"]
  /\ inst' = [inst EXCEPT ![i] = Unref(Ref(NoInst, 1), 1)]
  /\ parserPc' = IF INTERACTIVE THEN "ready" ELSE "failed"
  /\ UNCHANGED <<cur, statusVars, rtHeap, audioPc, sliceVars, playVars>>

\* Its configure() fails, which is called here in an interactive session:
\* checkInsts returns without releasing it.
ConfigureFails(i) ==
  /\ parserPc = "ready"
  /\ fate[i] = "none"
  /\ INTERACTIVE /\ "configure" \in Faults
  /\ fate' = [fate EXCEPT ![i] = "failed"]
  /\ inst' = [inst EXCEPT ![i] = [Ref(NoInst, 1) EXCEPT !.alive = TRUE]]
  /\ UNCHANGED <<parserVars, statusVars, rtHeap, audioPc, sliceVars, playVars>>

\* configureEndSamp: the start is relative to the elapsed time.
Create(i, slot, start, dur) ==
  /\ parserPc = "ready"
  /\ fate[i] = "none"
  /\ LET startsamp == start + IF INTERACTIVE THEN ElapsedFrames ELSE 0 IN
       inst' = [inst EXCEPT ![i] =
                  [Ref(NoInst, 1) EXCEPT !.alive = TRUE, !.slot = slot,
                     !.start = startsamp, !.end = startsamp + dur]]
  /\ cur' = {i}
  /\ parserPc' = "insert"
  /\ UNCHANGED <<statusVars, rtHeap, fate, audioPc, sliceVars, playVars>>

\* rtHeap->insert(this, startsamp), under the heap's lock.
Insert(i) ==
  /\ parserPc = "insert"
  /\ i \in cur
  /\ rtHeap' = rtHeap \cup {<<inst[i].start, i>>}
  /\ fate' = [fate EXCEPT ![i] = "scheduled"]
  /\ cur' = {}
  /\ parserPc' = "ready"
  /\ UNCHANGED <<statusVars, inst, audioPc, sliceVars, playVars>>

\* The end of the score.
ScoreEnds ==
  /\ parserPc = "ready"
  /\ parserPc' = "done"
  /\ UNCHANGED <<cur, statusVars, rtHeap, inst, fate, audioPc, sliceVars,
                 playVars>>

\* sockit receives RTcmix_panic, waits for a while and resumes.
Panic ==
  /\ INTERACTIVE /\ "panic" \in Faults
  /\ parserPc = "ready"
  /\ run_status' = "RT_PANIC"
  /\ parserPc' = "panic"
  /\ UNCHANGED <<cur, interrupted, rtHeap, inst, fate, audioPc, sliceVars, playVars>>

PanicOver ==
  /\ parserPc = "panic"
  /\ run_status' = "RT_GOOD"
  /\ parserPc' = "ready"
  /\ UNCHANGED <<cur, interrupted, rtHeap, inst, fate, audioPc, sliceVars, playVars>>

\* interrupt_handler, which does its work once.
Shutdown ==
  /\ "shutdown" \in Faults
  /\ ~interrupted
  /\ interrupted' = TRUE
  /\ run_status' = "RT_SHUTDOWN"
  /\ UNCHANGED <<build, parserVars, rtHeap, inst, fate, audioPc, sliceVars, playVars>>

-----------------------------------------------------------------------------
(* The audio thread: one inTraverse per slice.                             *)

\* When the parser is not preempted for long, its two steps are one to us.
AudioTurn == build \in Timely => parserPc # "insert"

\* A non-interactive score is parsed to its end before the audio starts.
BeginSlice ==
  /\ audioPc = "idle"
  /\ IF INTERACTIVE THEN bufStart < MaxSlices * FrameCount
                    ELSE parserPc = "done"
  /\ panic' = (INTERACTIVE /\ run_status = "RT_PANIC")
  /\ playIdx' = 1
  /\ allQSize' = FALSE
  /\ audioPc' = "drain"
  /\ UNCHANGED <<parserVars, statusVars, rtHeap, inst, fate, bufStart, playEm,
                 rtQueue, batch, mix, twice>>

\* deleteMin(bufEndSamp) returns an instrument in a panic.
DrainPanic(e) ==
  /\ audioPc = "drain"
  /\ panic
  /\ e \in Ripe(rtHeap)
  /\ rtHeap' = rtHeap \ {e}
  /\ inst' = [inst EXCEPT ![e[2]] = Unref(@, 1)]
  /\ fate' = [fate EXCEPT ![e[2]] = "panicked"]
  /\ UNCHANGED <<parserVars, statusVars, audioPc, sliceVars, playVars>>

\* Its configure() fails, which is called here when not interactive.
DrainUnconfigured(e) ==
  /\ audioPc = "drain"
  /\ ~panic
  /\ ~INTERACTIVE /\ "configure" \in Faults
  /\ e \in Ripe(rtHeap)
  /\ rtHeap' = rtHeap \ {e}
  /\ inst' = [inst EXCEPT ![e[2]] = Unref(@, 1)]
  /\ fate' = [fate EXCEPT ![e[2]] = "failed"]
  /\ UNCHANGED <<parserVars, statusVars, audioPc, sliceVars, playVars>>

\* It is pushed on the ripe queue of each of its buses, with a reference each.
Drain(e) ==
  /\ audioPc = "drain"
  /\ ~panic
  /\ e \in Ripe(rtHeap)
  /\ rtHeap' = rtHeap \ {e}
  /\ LET slot == inst[e[2]].slot IN
       /\ rtQueue' = [q \in Queues |-> IF q \in slot THEN rtQueue[q] \cup {e}
                                                     ELSE rtQueue[q]]
       /\ inst' = [inst EXCEPT ![e[2]] = Ref(@, Cardinality(slot))]
  /\ fate' = [fate EXCEPT ![e[2]] = IF e[1] < bufStart THEN "late" ELSE "timely"]
  /\ UNCHANGED <<parserVars, statusVars, audioPc, sliceVars, playIdx, batch,
                 allQSize, mix, twice>>

DrainDone ==
  /\ audioPc = "drain"
  /\ Ripe(rtHeap) = {}
  /\ audioPc' = "play"
  /\ UNCHANGED <<parserVars, statusVars, rtHeap, inst, fate, sliceVars, playVars>>

-----------------------------------------------------------------------------
(* Playing one ripe queue.                                                 *)

busq == PlayOrder[playIdx]

\* Offset, but every chunk is put at the start of the slice.
OffsetIgnored(s) == 0

\* The frame of the slice at which s falls; a late chunk is put at the start.
Offset(s) == IF s < bufStart THEN 0 ELSE s - bufStart

\* ChunkSamps, but an instrument that ends in the slice is run to its end.
ChunkToSliceEnd(s, end) == FrameCount - Offset(s)

\* ChunkSamps, but the chunk is not limited to the slice.
ChunkToNoteEnd(s, end) == end - s

\* The frames to run from s, when the instrument's end is `end'.
ChunkSamps(s, end) ==
  LET endsamp == IF s < bufStart THEN end + (s - bufStart) ELSE end
      samps   == Min2(endsamp, bufEnd) - s
  IN CASE samps > FrameCount             -> FrameCount
       [] samps + Offset(s) > FrameCount -> FrameCount - Offset(s)
       [] OTHER                          -> samps

\* RTQueue::pop drops the queue's reference; then the chunk is set.
Popped(e) == LET r == inst[e[2]] IN
  [Unref(r, 1) EXCEPT !.chunk = ChunkSamps(e[1], r.end), !.offset = Offset(e[1])]

\* Instrument::exec, whose run() may end the instrument (cut).
Run(r, cut) ==
  IF ~r.needs THEN r
  ELSE [r EXCEPT !.out = r.cursamp, !.cursamp = @ + (IF r.chunk > 0 THEN r.chunk ELSE 0),
                 !.written = {}, !.needs = FALSE, !.end = IF cut THEN 0 ELSE @]

\* AddOut, but the instrument is never told to run again.
AddOutOnce(r) == [r EXCEPT !.written = @ \cup {busq}]

AddOut(r) ==
  LET written == r.written \cup {busq} IN
    [r EXCEPT !.written = written, !.needs = @ \/ written = r.slot]
Exec(r, cut) == AddOut(Run(r, cut))

\* The samples addout adds to the bus.
Added(i, r) == {<<i, busq, r.offset + f, r.out + f>> : f \in 0 .. r.chunk - 1}

\* Requeued, or released if every bus has been written.
Requeued(r) == r.end > bufEnd

\* Settled, but the instrument is released at its first bus.
SettledEarly(r) == IF Requeued(r) THEN Ref(r, 1) ELSE Unref(r, 1)

\* Settled, but an instrument that has ended is only forgotten.
SettledForgetful(r) == IF Requeued(r) THEN Ref(r, 1) ELSE r

Settled(r) == CASE Requeued(r)             -> Ref(r, 1)
                [] ~Requeued(r) /\ r.needs -> Unref(r, 1)
                [] OTHER                   -> r

MayCut(i) == "cut" \in Faults /\ inst[i].needs

\* Pop, execute, requeue or release: the single-threaded build.
PlayNext(e, cut) ==
  /\ ~MULTI_THREAD
  /\ audioPc = "play" /\ playIdx <= Len(PlayOrder)
  /\ e \in Ripe(rtQueue[busq])
  /\ ~panic
  /\ cut => MayCut(e[2])
  /\ LET i == e[2]
         r == Exec(Popped(e), cut)
         rest == rtQueue[busq] \ {e}
     IN /\ rtQueue' = [rtQueue EXCEPT ![busq] =
                         IF Requeued(r) THEN rest \cup {<<e[1] + r.chunk, i>>} ELSE rest]
        /\ inst' = [inst EXCEPT ![i] = Settled(r)]
        /\ mix' = mix \cup Added(i, r)
        /\ twice' = (twice \/ Added(i, r) \cap mix # {})
        /\ fate' = [fate EXCEPT ![i] = IF cut THEN "cut" ELSE @]
  /\ allQSize' = (allQSize \/ rtQueue'[busq] # {})
  /\ UNCHANGED <<parserVars, statusVars, rtHeap, audioPc, sliceVars, playIdx,
                 batch>>

\* In a panic a popped instrument is neither run nor requeued, in both builds;
\* exec has not returned, so it is not released either.
PlayPanic(e) ==
  /\ audioPc = "play" /\ playIdx <= Len(PlayOrder)
  /\ e \in Ripe(rtQueue[busq])
  /\ panic
  /\ rtQueue' = [rtQueue EXCEPT ![busq] = @ \ {e}]
  /\ inst' = [inst EXCEPT ![e[2]] = Popped(e)]
  /\ fate' = [fate EXCEPT ![e[2]] = "panicked"]
  /\ allQSize' = (allQSize \/ (~MULTI_THREAD /\ rtQueue'[busq] # {}))
  /\ UNCHANGED <<parserVars, statusVars, rtHeap, audioPc, sliceVars, playIdx,
                 batch, mix, twice>>

\* The loop that adds the tasks tests the start it popped last: pop overwrites the
\* one it read from the queue, so the first one past the slice is still taken.
GatherGoesOn == \A f \in batch : f[1] < bufEnd

\* Pop and add a task: the multi-threaded build.
Gather(e) ==
  /\ MULTI_THREAD
  /\ audioPc = "play" /\ playIdx <= Len(PlayOrder)
  /\ e \in Least(rtQueue[busq])
  /\ batch = {} => e[1] < bufEnd
  /\ GatherGoesOn
  /\ ~panic
  /\ rtQueue' = [rtQueue EXCEPT ![busq] = @ \ {e}]
  /\ inst' = [inst EXCEPT ![e[2]] = Popped(e)]
  /\ batch' = batch \cup {e}
  /\ UNCHANGED <<parserVars, statusVars, rtHeap, fate, audioPc, sliceVars, playIdx,
                 allQSize, mix, twice>>

\* waitForTasks returns when every task has been executed once (TaskBatch); then
\* mixToBus, and the loop that requeues or releases.  The walk goes on with the next
\* queue even if something ripe was requeued.
PlayBatch(cuts) ==
  /\ audioPc = "play" /\ playIdx <= Len(PlayOrder)
  /\ batch # {} /\ (rtQueue[busq] = {} \/ ~GatherGoesOn)
  /\ cuts \subseteq {e[2] : e \in batch} /\ \A i \in cuts : MayCut(i)
  /\ LET r == [i \in {e[2] : e \in batch} |-> Exec(inst[i], i \in cuts)]
         again == {e \in batch : Requeued(r[e[2]])}
         added == UNION {Added(i, r[i]) : i \in DOMAIN r}
     IN /\ rtQueue' = [rtQueue EXCEPT ![busq] =
                         @ \cup {<<e[1] + r[e[2]].chunk, e[2]>> : e \in again}]
        /\ inst' = [i \in Insts |-> IF i \in DOMAIN r THEN Settled(r[i]) ELSE inst[i]]
        /\ mix' = mix \cup added
        /\ twice' = (twice \/ added \cap mix # {})
  /\ fate' = [i \in Insts |-> IF i \in cuts THEN "cut" ELSE fate[i]]
  /\ allQSize' = (allQSize \/ rtQueue'[busq] # {})
  /\ batch' = {}
  /\ playIdx' = playIdx + 1
  /\ UNCHANGED <<parserVars, statusVars, rtHeap, audioPc, sliceVars>>

\* NextQueue, but the walk starts again after the last queue.
NextQueueAround ==
  /\ audioPc = "play" /\ playIdx <= Len(PlayOrder)
  /\ batch = {} /\ Ripe(rtQueue[busq]) = {}
  /\ playIdx' = IF playIdx < Len(PlayOrder) THEN playIdx + 1 ELSE 1
  /\ UNCHANGED <<parserVars, statusVars, rtHeap, inst, fate, audioPc, sliceVars,
                 rtQueue, batch, allQSize, mix, twice>>

\* The next entry of the playlists.
NextQueue ==
  /\ audioPc = "play" /\ playIdx <= Len(PlayOrder)
  /\ batch = {} /\ Ripe(rtQueue[busq]) = {}
  /\ playIdx' = playIdx + 1
  /\ UNCHANGED <<parserVars, statusVars, rtHeap, inst, fate, audioPc, sliceVars,
                 rtQueue, batch, allQSize, mix, twice>>

PlayDone ==
  /\ audioPc = "play" /\ playIdx > Len(PlayOrder)
  /\ audioPc' = "send"
  /\ UNCHANGED <<parserVars, statusVars, rtHeap, inst, fate, sliceVars, playVars>>

-----------------------------------------------------------------------------
(* The end of a slice.                                                     *)

\* rtsendsamps, or zeros in a panic; the sample counters; clearing the buses.
Send ==
  /\ audioPc = "send"
  /\ bufStart' = bufStart + FrameCount
  /\ mix' = {}
  /\ twice' = FALSE
  /\ audioPc' = "status"
  /\ UNCHANGED <<parserVars, statusVars, rtHeap, inst, fate, panic, playEm, rtQueue,
                 playIdx, batch, allQSize>>

\* rtsendsamps fails: inTraverse returns false at once.
SendFails ==
  /\ audioPc = "send"
  /\ "device" \in Faults
  /\ ~panic
  /\ audioPc' = "stopped"
  /\ UNCHANGED <<parserVars, statusVars, rtHeap, inst, fate, sliceVars, playVars>>

\* QueueIsEmpty, but an empty heap is enough.
HeapIsEmpty == rtHeap = {}

QueueIsEmpty == rtHeap = {} /\ ~allQSize

\* current_status = getRunStatus(), and the ending condition.
ReadStatus ==
  /\ audioPc = "status"
  /\ playEm' = ~ (run_status = "RT_SHUTDOWN" \/ (~INTERACTIVE /\ QueueIsEmpty))
  /\ panic' = (panic /\ run_status # "RT_GOOD")
  /\ audioPc' = IF INTERACTIVE /\ panic' /\ QueueIsEmpty THEN "calm" ELSE "return"
  /\ UNCHANGED <<parserVars, statusVars, rtHeap, inst, fate, bufStart, playVars>>

\* if (panic && instrumentQueueIsEmpty) setRunStatus(RT_GOOD)
EndPanic ==
  /\ audioPc = "calm"
  /\ run_status' = "RT_GOOD"
  /\ audioPc' = "return"
  /\ UNCHANGED <<parserVars, interrupted, rtHeap, inst, fate, sliceVars, playVars>>

\* The device calls back again, or ends the play loop.
Return ==
  /\ audioPc = "return"
  /\ audioPc' = IF playEm THEN "idle" ELSE "stopped"
  /\ UNCHANGED <<parserVars, statusVars, rtHeap, inst, fate, sliceVars, playVars>>

\* Nothing more happens: playback has ended, it was never begun, or the bound is
\* reached.
Finished ==
  /\ \/ audioPc = "stopped" \/ parserPc = "failed"
     \/ INTERACTIVE /\ audioPc = "idle" /\ bufStart = MaxSlices * FrameCount
  /\ UNCHANGED vars

-----------------------------------------------------------------------------
ParserStep ==
  /\ UNCHANGED build
  /\ \/ \E i \in Insts : SetupFails(i) \/ ConfigureFails(i) \/ Insert(i)
     \/ \E i \in Insts, s \in Slots, t \in StartTimes, d \in Durations :
          Create(i, s, t, d)
     \/ ScoreEnds \/ Panic \/ PanicOver

AudioStep ==
  /\ UNCHANGED build
  /\ \/ BeginSlice \/ DrainDone \/ NextQueue \/ PlayDone \/ Send \/ SendFails
     \/ ReadStatus \/ EndPanic \/ Return
     \/ \E e \in rtHeap : DrainPanic(e) \/ DrainUnconfigured(e) \/ Drain(e)
     \/ \E q \in Queues : \E e \in rtQueue[q] :
          PlayPanic(e) \/ Gather(e) \/ \E cut \in BOOLEAN : PlayNext(e, cut)
     \/ \E cuts \in SUBSET Insts : PlayBatch(cuts)

Next == ParserStep \/ (AudioTurn /\ AudioStep) \/ Shutdown \/ Finished

Spec == Init /\ [][Next]_vars

\* A non-interactive performance: the score is parsed, then played.
FairSpec == Spec /\ WF_vars(ParserStep) /\ WF_vars(AudioTurn /\ AudioStep)

-----------------------------------------------------------------------------
(* Properties.                                                             *)

InstType ==
  [slot : Slots \cup {{}}, start : Nat, end : Nat, refs : Nat, alive : BOOLEAN,
   needs : BOOLEAN, written : SUBSET Queues, cursamp : Nat, out : Nat,
   chunk : Int, offset : 0 .. FrameCount - 1]

\* Every variable has its type; in particular a sample never lands outside its
\* buffer (addout asserts endframe <= RTBUFSAMPS).
TypeOK ==
  /\ build \in Builds
  /\ parserPc \in {"ready", "insert", "panic", "done", "failed"}
  /\ cur \subseteq Insts
  /\ run_status \in {"RT_GOOD", "RT_PANIC", "RT_SHUTDOWN"}
  /\ interrupted \in BOOLEAN
  /\ rtHeap \subseteq Nat \X Insts
  /\ inst \in [Insts -> InstType]
  /\ fate \in [Insts -> Fates]
  /\ audioPc \in {"idle", "drain", "play", "send", "status", "calm", "return",
                  "stopped"}
  /\ {panic, allQSize, playEm, twice} \subseteq BOOLEAN
  /\ bufStart \in Nat
  /\ rtQueue \in [Queues -> SUBSET (Nat \X Insts)]
  /\ playIdx \in 1 .. Len(PlayOrder) + 1
  /\ batch \subseteq Nat \X Insts
  /\ mix \subseteq Insts \X Queues \X (0 .. FrameCount - 1) \X Nat

Queued(i) == {q \in Queues : \E e \in rtQueue[q] : e[2] = i}
InHeap(i) == \E e \in rtHeap : e[2] = i
InBatch(i) == \E e \in batch : e[2] = i

\* Every entry of a queue owns a reference, and the scheduler owns one more for
\* as long as a list holds the instrument: pop drops the entry's reference and
\* goes on to use the instrument, so without the other it would be destroyed in
\* its hands.  The last one is dropped at the last bus, never before.
HeldIsAlive ==
  \A i \in Insts : InHeap(i) \/ Queued(i) # {} \/ InBatch(i) =>
    inst[i].alive /\ inst[i].refs = 1 + Cardinality(Queued(i))

\* Conversely an instrument that no list holds any more is destroyed, and its input
\* file released: "if not unref'd here, it means the inst still needs to run on
\* another bus" (inTraverse).  Two kinds are forgotten: the notes that a panic pops,
\* and in a session the notes whose configure() fails.
EndedIsReleased ==
  \A i \in Insts :
    /\ inst[i].alive
    /\ fate[i] # "panicked"
    /\ ~(fate[i] = "failed" /\ INTERACTIVE)
    => InHeap(i) \/ Queued(i) # {} \/ InBatch(i) \/ i \in cur

\* An instrument lives exactly as long as a list of the scheduler holds it, whichever
\* of its buses comes last: neither destroyed in the hands of one nor left behind.
AliveWhileHeld == HeldIsAlive /\ EndedIsReleased

\* What reaches the device: in every slice, on every bus it plays to, a note
\* that was scheduled in time contributes exactly the samples that are due, each
\* at its frame and once, whatever other notes do.
DueSamples(i) ==
  {<<i, q, f, bufStart + f - inst[i].start>> :
     q \in inst[i].slot,
     f \in {g \in 0 .. FrameCount - 1 : /\ inst[i].start <= bufStart + g
                                        /\ bufStart + g < inst[i].end}}
SamplesOnTime ==
  audioPc = "send" /\ ~panic =>
    \A i \in Insts : fate[i] = "timely" => {x \in mix : x[1] = i} = DueSamples(i)

\* A note is run once per slice (the comment of Instrument::exec: the first call
\* for a timeslice runs, the others only add): no bus gets two of its samples at
\* one frame, or one sample twice.  And a note that was inserted too late is cut at
\* its end, not shifted: it is never heard after it.
NoteNeverOverrun ==
  /\ ~twice
  /\ \A x, y \in mix : x[1] = y[1] /\ x[2] = y[2] /\ x[3] = y[3] => x = y
  /\ \A x \in mix : fate[x[1]] # "cut" => bufStart + x[3] < inst[x[1]].end

\* Between slices an instrument waits on all of its buses or on none, at the same
\* position on all; and the wait is over in the next slice.
BusesInLockstep ==
  audioPc = "idle" => \A i \in Insts :
    /\ Queued(i) \in {{}, inst[i].slot}
    /\ Queued(i) # {} => inst[i].needs
    /\ Cardinality({e \in UNION {rtQueue[q] : q \in Queues} : e[2] = i}) <= 1
    /\ \A q \in Queued(i) : \A e \in rtQueue[q] : e[2] = i => e[1] < bufEnd

\* Playback ends by itself only when every scheduled note has been played: the
\* ending condition counts just the queues that played something in the slice.
EndsWhenAllPlayed ==
  audioPc = "return" /\ ~playEm /\ ~interrupted =>
    /\ ~INTERACTIVE
    /\ \A i \in Insts : ~inst[i].alive

\* A score that has been parsed is played to its end.
ScoreIsPlayed == (parserPc = "done") ~> (audioPc = "stopped")
=============================================================================
