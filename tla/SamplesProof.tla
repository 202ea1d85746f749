---------------------------- MODULE SamplesProof ----------------------------
(***************************************************************************)
(* What reaches the device is what is due: every slice carries the         *)
(* samples of every timely note at their frames, once on each of its       *)
(* buses, for any number of notes and buses, any times and any length of   *)
(* slice, whatever other notes do.  And no note, timely or late, is heard  *)
(* twice in a slice or beyond its end.  As in SchedulerProof: as long as no *)
(* note is late or the late ones are played by the multi-threaded build.   *)
(*                                                                         *)
(* On top of the invariant of SchedulerProof, which says on which buses a  *)
(* note still waits in the slice: it is due on all of them at one position *)
(* (Position), and the mix has its samples on the buses it has left.       *)
(***************************************************************************)
EXTENDS SchedulerProof

Position(i) == IF inst[i].start < bufStart THEN bufStart ELSE inst[i].start

\* DueSamples on the buses of S only.
DueOn(i, S) ==
  {<<i, q, f, bufStart + f - inst[i].start>> :
     q \in S,
     f \in {g \in 0 .. FrameCount - 1 : /\ inst[i].start <= bufStart + g
                                        /\ bufStart + g < inst[i].end}}
MixOf(i) == {x \in mix : x[1] = i}

\* Nothing of a note has been played before it is drained, at its start.
Unplayed ==
  /\ \A i \in cur : inst[i].cursamp = 0 /\ inst[i].start <= inst[i].end
  /\ \A e \in rtHeap : /\ e[1] = inst[e[2]].start
                       /\ inst[e[2]].cursamp = 0
                       /\ inst[e[2]].start <= inst[e[2]].end

Cleared == audioPc \in Rest \cup {"drain"} => mix = {}

\* A note that a list holds is due at its position; of the samples of the slice the mix
\* has those of the buses it has left, and the note's counters tell the next ones.
Aligned(i) ==
  /\ Position(i) < bufEnd /\ Position(i) <= inst[i].end
  /\ \A q \in Queues : \A e \in rtQueue[q] :
       e[2] = i => e[1] = IF Due(e, q) THEN Position(i) ELSE bufEnd
  /\ \A e \in batch : e[2] = i =>
       /\ e[1] = Position(i)
       /\ inst[i].chunk = Min2(inst[i].end, bufEnd) - Position(i)
       /\ inst[i].offset = Position(i) - bufStart
  /\ Rested(inst[i], Waits(i)) =>
       /\ inst[i].cursamp = Position(i) - inst[i].start
       /\ MixOf(i) = {}
  /\ ~Rested(inst[i], Waits(i)) =>
       /\ inst[i].out = Position(i) - inst[i].start
       /\ inst[i].cursamp = Min2(inst[i].end, bufEnd) - inst[i].start
       /\ MixOf(i) = DueOn(i, inst[i].slot \ Waits(i))

\* A note that none holds any more has ended.
Ended(i) ==
  /\ inst[i].end <= bufEnd
  /\ MixOf(i) = DueOn(i, inst[i].slot)

Heard(i) == fate[i] = "timely" => /\ Held(i) => Aligned(i)
                                  /\ ~Held(i) => Ended(i)

AllHeard == \A i \in Insts : Heard(i)

SInv == Unplayed /\ Cleared /\ AllHeard

-----------------------------------------------------------------------------
(* What is due.                                                            *)

LEMMA DueOnBoth ==
  ASSUME NEW i, NEW S, NEW T
  PROVE  DueOn(i, S \cup T) = DueOn(i, S) \cup DueOn(i, T)
BY DEF DueOn

LEMMA SliceFacts ==
  ASSUME TypeOK
  PROVE  /\ FrameCount \in Nat /\ FrameCount > 0 /\ bufStart \in Nat /\ bufEnd \in Nat
         /\ bufEnd = bufStart + FrameCount
         /\ \A i \in Insts : /\ inst[i] \in InstType /\ inst[i].start \in Nat
                             /\ inst[i].end \in Nat /\ Position(i) \in Nat
                             /\ inst[i].start <= Position(i) /\ bufStart <= Position(i)
                             /\ inst[i].cursamp \in Nat /\ inst[i].out \in Nat
<1>1. /\ FrameCount \in Nat /\ FrameCount > 0 /\ bufStart \in Nat /\ bufEnd \in Nat
      /\ bufEnd = bufStart + FrameCount
  BY FrameAssumption DEF TypeOK, bufEnd
<1>2. ASSUME NEW i \in Insts
      PROVE  /\ inst[i] \in InstType /\ inst[i].start \in Nat /\ inst[i].end \in Nat
             /\ inst[i].cursamp \in Nat /\ inst[i].out \in Nat
  BY DEF TypeOK, InstType
<1>3. ASSUME NEW i \in Insts
      PROVE  /\ Position(i) \in Nat
             /\ inst[i].start <= Position(i) /\ bufStart <= Position(i)
  BY <1>1, <1>2 DEF Position
<1> QED
  BY <1>1, <1>2, <1>3

\* A chunk that begins at the note's position adds what is due on the bus.
LEMMA AddedIsDue ==
  ASSUME TypeOK, NEW i \in Insts, NEW x \in InstType,
         Position(i) < bufEnd, Position(i) <= inst[i].end,
         x.chunk = Min2(inst[i].end, bufEnd) - Position(i),
         x.offset = Position(i) - bufStart, x.out = Position(i) - inst[i].start
  PROVE  Added(i, x) = DueOn(i, {busq})
<1> DEFINE F == {g \in 0 .. FrameCount - 1 : /\ inst[i].start <= bufStart + g
                                             /\ bufStart + g < inst[i].end}
           pos == Position(i)
           start == inst[i].start
           end == inst[i].end
<1>1. /\ FrameCount \in Nat /\ bufStart \in Nat /\ bufEnd = bufStart + FrameCount
      /\ start \in Nat /\ end \in Nat /\ pos \in Nat /\ start <= pos /\ bufStart <= pos
      /\ bufEnd \in Nat
  BY SliceFacts
<1>2. /\ Min2(end, bufEnd) \in Nat /\ Min2(end, bufEnd) <= end /\ Min2(end, bufEnd) <= bufEnd
      /\ (Min2(end, bufEnd) = end \/ Min2(end, bufEnd) = bufEnd)
  BY <1>1 DEF Min2
<1>3. pos = start \/ pos = bufStart
  BY DEF Position
<1> DEFINE m == Min2(end, bufEnd)
<1> HIDE DEF m
<1>4. /\ m \in Nat /\ m <= end /\ m <= bufEnd /\ (m = end \/ m = bufEnd)
      /\ x.chunk = m - pos /\ x.offset = pos - bufStart /\ x.out = pos - start
      /\ pos < bufEnd /\ pos <= end
  BY <1>2 DEF m
<1> HIDE DEF pos, start, end
<1>5. ASSUME NEW f \in 0 .. x.chunk - 1
      PROVE  <<i, busq, x.offset + f, x.out + f>> \in DueOn(i, {busq})
  <2>1. f \in Int /\ 0 <= f /\ f < m - pos
    BY <1>1, <1>4
  <2> DEFINE g == pos - bufStart + f
  <2>2. /\ g \in 0 .. FrameCount - 1 /\ start <= bufStart + g /\ bufStart + g < end
        /\ x.offset + f = g /\ x.out + f = bufStart + g - start
    BY <1>1, <1>4, <2>1
  <2> HIDE DEF g
  <2>3. g \in F
    BY <2>2 DEF start, end
  <2>4. <<i, busq, g, bufStart + g - inst[i].start>> \in DueOn(i, {busq})
    BY <2>3 DEF DueOn
  <2> QED
    BY <2>2, <2>4 DEF start
<1>6. ASSUME NEW g \in F
      PROVE  <<i, busq, g, bufStart + g - inst[i].start>> \in Added(i, x)
  <2>1. g \in 0 .. FrameCount - 1 /\ start <= bufStart + g /\ bufStart + g < end
    BY DEF start, end
  <2> DEFINE f == bufStart + g - pos
  <2>2. pos <= bufStart + g
    BY <1>1, <1>3, <2>1 DEF pos, start
  <2>3. f \in 0 .. x.chunk - 1 /\ x.offset + f = g /\ x.out + f = bufStart + g - start
    BY <1>1, <1>4, <2>1, <2>2
  <2> HIDE DEF f
  <2>4. <<i, busq, x.offset + f, x.out + f>> \in Added(i, x)
    BY <2>3 DEF Added
  <2> QED
    BY <2>3, <2>4 DEF start
<1>7. Added(i, x) \subseteq DueOn(i, {busq})
  BY <1>5 DEF Added
<1>8. DueOn(i, {busq}) \subseteq Added(i, x)
  BY <1>6 DEF DueOn
<1> QED
  BY <1>7, <1>8

-----------------------------------------------------------------------------
(* What a step must leave alone.                                           *)

LEMMA HeardFrame ==
  ASSUME NEW i \in Insts, fate'[i] = "timely" => Heard(i) /\ fate[i] = "timely",
         inst'[i] = inst[i], bufStart' = bufStart, MixOf(i)' = MixOf(i),
         Queued(i)' = Queued(i), InBatch(i) => busq' = busq,
         \A q \in Queues : {e \in rtQueue'[q] : e[2] = i} = {e \in rtQueue[q] : e[2] = i},
         {e \in batch' : e[2] = i} = {e \in batch : e[2] = i},
         \A q \in Queues : \A e \in rtQueue[q] : e[2] = i => (Due(e, q)' <=> Due(e, q))
  PROVE  Heard(i)'
<1>1. SUFFICES ASSUME Heard(i), fate[i] = "timely" PROVE Heard(i)'
  BY DEF Heard
<1>2. bufEnd' = bufEnd /\ Position(i)' = Position(i)
  BY DEF bufEnd, Position
<1>3. (InBatch(i)' <=> InBatch(i)) /\ \A e : e \in batch' /\ e[2] = i <=> e \in batch /\ e[2] = i
  <2>1. \A e : e \in {f \in batch' : f[2] = i} <=> e \in {f \in batch : f[2] = i}
    OBVIOUS
  <2> QED
    BY <2>1 DEF InBatch
<1>4. \A q \in Queues : \A e :
        e \in rtQueue'[q] /\ e[2] = i <=> e \in rtQueue[q] /\ e[2] = i
  <2>1. ASSUME NEW q \in Queues, NEW e
        PROVE  e \in rtQueue'[q] /\ e[2] = i <=> e \in rtQueue[q] /\ e[2] = i
    <3>1. e \in {f \in rtQueue'[q] : f[2] = i} <=> e \in {f \in rtQueue[q] : f[2] = i}
      OBVIOUS
    <3> QED
      BY <3>1
  <2> QED
    BY <2>1
<1>5. Ahead(i)' = Ahead(i)
  BY QueueFrame
<1>6. Waits(i)' = Waits(i)
  BY <1>3, <1>5 DEF Waits
<1>7. Held(i)' <=> Held(i)
  BY <1>3 DEF Held
<1>8. Rested(inst[i], Waits(i))' <=> Rested(inst[i], Waits(i))
  BY <1>6 DEF Rested
<1>9. \A S : DueOn(i, S)' = DueOn(i, S)
  BY DEF DueOn
<1>10. Held(i) => Aligned(i)'
  <2>1. SUFFICES ASSUME Aligned(i) PROVE Aligned(i)'
    BY <1>1 DEF Heard
  <2>2. ~Rested(inst[i], Waits(i))' => MixOf(i)' = DueOn(i, inst[i].slot \ Waits(i))'
    BY <1>6, <1>8, <1>9, <2>1 DEF Aligned
  <2>3. \A q \in Queues : \A e \in rtQueue'[q] :
          e[2] = i => e[1] = IF Due(e, q)' THEN Position(i)' ELSE bufEnd'
    BY <1>2, <1>4, <2>1 DEF Aligned
  <2>4. \A e \in batch' : e[2] = i =>
          /\ e[1] = Position(i)'
          /\ inst'[i].chunk = Min2(inst'[i].end, bufEnd') - Position(i)'
          /\ inst'[i].offset = Position(i)' - bufStart'
    BY <1>2, <1>3, <2>1 DEF Aligned
  <2> QED
    BY <1>2, <1>8, <2>1, <2>2, <2>3, <2>4 DEF Aligned, Min2
<1>11. ~Held(i) => Ended(i)'
  BY <1>1, <1>2, <1>9 DEF Heard, Ended
<1> QED
  BY <1>7, <1>10, <1>11 DEF Heard

\* The steps that move no note that plays.
LEMMA QuietHeard ==
  ASSUME AllHeard, UNCHANGED <<bufStart, rtQueue, batch, mix>>, batch # {} => busq' = busq,
         \A i \in Insts : fate'[i] = "timely" => fate[i] = "timely" /\ inst'[i] = inst[i],
         \A i \in Insts : fate[i] = "timely" => \A q \in Queues : \A e \in rtQueue[q] :
           e[2] = i => (Due(e, q)' <=> Due(e, q))
  PROVE  AllHeard'
<1>1. ASSUME NEW i \in Insts PROVE Heard(i)'
  <2>1. CASE fate'[i] # "timely"
    BY <2>1 DEF Heard
  <2>2. CASE fate'[i] = "timely"
    <3>1. Heard(i) /\ fate[i] = "timely" /\ inst'[i] = inst[i]
      BY <2>2 DEF AllHeard
    <3>2. Queued(i)' = Queued(i) /\ MixOf(i)' = MixOf(i)
      BY DEF Queued, MixOf
    <3>3. InBatch(i) => busq' = busq
      BY DEF InBatch
    <3> QED
      BY <3>1, <3>2, <3>3, HeardFrame
  <2> QED
    BY <2>1, <2>2
<1> QED
  BY <1>1 DEF AllHeard

LEMMA UnplayedFrame ==
  ASSUME Unplayed, cur' = cur, rtHeap' \subseteq rtHeap,
         \A i \in cur : inst'[i] = inst[i],
         \A e \in rtHeap' : inst'[e[2]] = inst[e[2]]
  PROVE  Unplayed'
BY DEF Unplayed

-----------------------------------------------------------------------------
(* The parser.                                                             *)

LEMMA ParserSounds ==
  ASSUME IInv, SInv, ParserStep
  PROVE  SInv'
<1> USE DEF IInv, SInv
<1>1. UNCHANGED <<bufStart, rtQueue, batch, mix, audioPc, playIdx, panic>> /\ Rest' = Rest
  BY DEF ParserStep, SetupFails, ConfigureFails, Insert, Create, ScoreEnds, Panic, PanicOver,
         sliceVars, playVars, Rest
<1>2. busq' = busq /\ \A q \in Queues : \A e : Due(e, q)' <=> Due(e, q)
  BY <1>1, DueFrame DEF busq
<1>3. Cleared'
  BY <1>1 DEF Cleared
<1>4. ASSUME NEW i \in Insts, SetupFails(i) \/ ConfigureFails(i) PROVE SInv'
  <2>1. /\ fate[i] = "none" /\ UNCHANGED <<cur, rtHeap>> /\ parserPc = "ready"
        /\ fate' = [fate EXCEPT ![i] = "failed"]
        /\ \A j \in Insts \ {i} : inst'[j] = inst[j]
    BY <1>4 DEF SetupFails, ConfigureFails, parserVars, TypeOK
  <2>2. cur = {}
    BY <2>1 DEF Parsing
  <2>3. ASSUME NEW e \in rtHeap PROVE e[2] \in Insts \ {i}
    <3>1. e[2] \in Insts /\ InHeap(e[2])
      BY <2>3 DEF InHeap, TypeOK
    <3>2. fate[e[2]] = "scheduled"
      BY <3>1 DEF Places, Place
    <3> QED
      BY <2>1, <3>1, <3>2
  <2>4. Unplayed'
    BY <2>1, <2>2, <2>3, UnplayedFrame
  <2>5. AllHeard'
    <3>1. \A j \in Insts : fate'[j] = "timely" => fate[j] = "timely" /\ inst'[j] = inst[j]
      BY <2>1 DEF TypeOK
    <3> QED
      BY <1>1, <1>2, <3>1, QuietHeard
  <2> QED
    BY <1>3, <2>4, <2>5
<1>5. ASSUME NEW i \in Insts, NEW s \in Slots, NEW t \in StartTimes, NEW d \in Durations,
             Create(i, s, t, d)
      PROVE  SInv'
  <2> DEFINE b == t + IF INTERACTIVE THEN ElapsedFrames ELSE 0
             r == [Ref(NoInst, 1) EXCEPT !.alive = TRUE, !.slot = s,
                                         !.start = b, !.end = b + d]
  <2>1. /\ fate[i] = "none" /\ UNCHANGED <<fate, rtHeap>> /\ cur' = {i}
        /\ inst' = [inst EXCEPT ![i] = r]
    BY <1>5 DEF Create
  <2>2. b \in Nat /\ d \in Nat
    BY TimeAssumption, FrameAssumption DEF TypeOK, ElapsedFrames
  <2> HIDE DEF b
  <2>3. r.cursamp = 0 /\ r.start = b /\ r.end = b + d
    BY DEF Ref, NoInst
  <2> HIDE DEF r
  <2>4. inst'[i] = r /\ \A j \in Insts \ {i} : inst'[j] = inst[j]
    BY <2>1 DEF TypeOK
  <2>5. ASSUME NEW e \in rtHeap PROVE e[2] \in Insts \ {i}
    <3>1. e[2] \in Insts /\ InHeap(e[2])
      BY <2>5 DEF InHeap, TypeOK
    <3>2. fate[e[2]] = "scheduled"
      BY <3>1 DEF Places, Place
    <3> QED
      BY <2>1, <3>1, <3>2
  <2>6. Unplayed'
    BY <2>1, <2>2, <2>3, <2>4, <2>5 DEF Unplayed
  <2>7. AllHeard'
    <3>1. \A j \in Insts : fate'[j] = "timely" => fate[j] = "timely" /\ inst'[j] = inst[j]
      BY <2>1, <2>4
    <3> QED
      BY <1>1, <1>2, <3>1, QuietHeard
  <2> QED
    BY <1>3, <2>6, <2>7
<1>6. ASSUME NEW i \in Insts, Insert(i) PROVE SInv'
  <2>1. /\ i \in cur /\ UNCHANGED inst /\ cur' = {} /\ fate' = [fate EXCEPT ![i] = "scheduled"]
        /\ rtHeap' = rtHeap \cup {<<inst[i].start, i>>}
    BY <1>6 DEF Insert
  <2>2. Unplayed'
    BY <2>1 DEF Unplayed
  <2>3. AllHeard'
    <3>1. \A j \in Insts : fate'[j] = "timely" => fate[j] = "timely" /\ inst'[j] = inst[j]
      BY <2>1 DEF TypeOK
    <3> QED
      BY <1>1, <1>2, <3>1, QuietHeard
  <2> QED
    BY <1>3, <2>2, <2>3
<1>7. CASE ScoreEnds \/ Panic \/ PanicOver
  <2>1. UNCHANGED <<cur, rtHeap, inst, fate>>
    BY <1>7 DEF ScoreEnds, Panic, PanicOver
  <2>2. Unplayed' /\ AllHeard'
    BY <1>1, <1>2, <2>1, UnplayedFrame, QuietHeard
  <2> QED
    BY <1>3, <2>2
<1> QED
  BY <1>4, <1>5, <1>6, <1>7 DEF ParserStep

-----------------------------------------------------------------------------
(* The audio thread: before and after the walk.                            *)

LEMMA AudioQuiet ==
  ASSUME IInv, SInv,
         BeginSlice \/ DrainDone \/ NextQueue \/ PlayDone \/ SendFails
           \/ ReadStatus \/ EndPanic \/ Return
  PROVE  SInv'
<1> USE DEF IInv, SInv
<1>1. /\ UNCHANGED <<cur, rtHeap, inst, fate, bufStart, rtQueue, batch, mix>>
      /\ audioPc' \in Rest \cup {"drain"} => audioPc \in Rest \cup {"drain"}
  BY DEF BeginSlice, DrainDone, NextQueue, PlayDone, SendFails, ReadStatus, EndPanic, Return,
         parserVars, sliceVars, playVars, Rest
<1>2. batch # {} => busq' = busq
  BY DEF BeginSlice, DrainDone, NextQueue, PlayDone, SendFails, ReadStatus, EndPanic, Return,
         playVars, busq, Batching
<1>3. ASSUME NEW i \in Insts, fate[i] = "timely", NEW q \in Queues, NEW e \in rtQueue[q],
             e[2] = i
      PROVE  Due(e, q)' <=> Due(e, q)
  <2>1. CASE DrainDone \/ NextQueue \/ PlayDone
    BY <2>1, WalkDue
  <2>2. CASE BeginSlice \/ ReadStatus \/ EndPanic \/ Return
    <3>1. audioPc \notin {"play", "send"} /\ audioPc' \notin {"play", "send"}
      BY <2>2 DEF BeginSlice, ReadStatus, EndPanic, Return
    <3> QED
      BY <1>1, <3>1 DEF Due, Passed, bufEnd
  <2>3. CASE SendFails
    <3>1. audioPc = "send"
      BY <2>3 DEF SendFails
    <3>2. ~Due(e, q)
      BY <3>1, WalkOver
    <3>3. Held(i)
      BY <1>3 DEF Held, Queued
    <3>4. e[1] = bufEnd /\ bufEnd \in Nat
      BY <1>3, <3>2, <3>3, SliceFacts DEF AllHeard, Heard, Aligned
    <3> QED
      BY <1>1, <3>2, <3>4 DEF Due, bufEnd
  <2> QED
    BY <2>1, <2>2, <2>3
<1>4. Unplayed' /\ AllHeard'
  BY <1>1, <1>2, <1>3, UnplayedFrame, QuietHeard
<1>5. Cleared'
  BY <1>1 DEF Cleared, Rest
<1> QED
  BY <1>4, <1>5

LEMMA DrainDropSounds ==
  ASSUME IInv, SInv, NEW e, DrainPanic(e) \/ DrainUnconfigured(e)
  PROVE  SInv'
<1> USE DEF IInv, SInv
<1> DEFINE i == e[2]
<1>1. /\ audioPc = "drain" /\ e \in Ripe(rtHeap) /\ rtHeap' = rtHeap \ {e}
      /\ inst' = [inst EXCEPT ![i] = Unref(inst[i], 1)]
      /\ \/ fate' = [fate EXCEPT ![i] = "panicked"]
         \/ fate' = [fate EXCEPT ![i] = "failed"]
      /\ UNCHANGED <<cur, parserPc, audioPc, bufStart, panic, rtQueue, playIdx, batch, mix>>
  BY DEF DrainPanic, DrainUnconfigured, parserVars, sliceVars, playVars
<1>2. busq' = busq /\ \A q \in Queues : \A f : Due(f, q)' <=> Due(f, q)
  BY <1>1, DueFrame DEF busq
<1>3. i \in Insts \ cur /\ \A f \in rtHeap \ {e} : f[2] # i
  BY <1>1, Ripened
<1>4. \A j \in Insts \ {i} : inst'[j] = inst[j] /\ fate'[j] = fate[j]
  BY <1>1 DEF TypeOK
<1>5. Unplayed'
  BY <1>1, <1>3, <1>4, UnplayedFrame DEF TypeOK
<1>6. AllHeard'
  <2>1. fate'[i] # "timely"
    BY <1>1, <1>3 DEF TypeOK
  <2> QED
    BY <1>1, <1>2, <1>4, <2>1, QuietHeard
<1>7. Cleared'
  BY <1>1 DEF Cleared, Rest
<1> QED
  BY <1>5, <1>6, <1>7

LEMMA DrainSounds ==
  ASSUME IInv, IInv', SInv, NEW e, Drain(e)
  PROVE  SInv'
<1> USE DEF IInv, SInv
<1> DEFINE i == e[2]
           slot == inst[i].slot
           n == Cardinality(slot)
           r == Ref(inst[i], n)
<1>1. /\ audioPc = "drain" /\ e \in Ripe(rtHeap) /\ rtHeap' = rtHeap \ {e}
      /\ inst' = [inst EXCEPT ![i] = r]
      /\ rtQueue' = [q \in Queues |-> IF q \in slot THEN rtQueue[q] \cup {e} ELSE rtQueue[q]]
      /\ \A j \in Insts \ {i} : fate'[j] = fate[j]
      /\ fate' = [fate EXCEPT ![i] = IF e[1] < bufStart THEN "late" ELSE "timely"]
      /\ UNCHANGED <<cur, parserPc, audioPc, panic, bufStart, playIdx, batch, mix>>
  BY DEF Drain, parserVars, sliceVars, TypeOK
<1>2. UNCHANGED <<bufEnd, busq, Rest>>
  BY <1>1 DEF bufEnd, busq, Rest
<1>3. \A q \in Queues : \A f : Due(f, q)' <=> Due(f, q)
  BY <1>1, DueFrame
<1>4. /\ e \in rtHeap /\ e[1] \in Nat /\ i \in Insts
      /\ e[1] < bufEnd /\ ~Held(i) /\ i \notin cur /\ batch = {}
      /\ inst[i] \in InstType /\ slot \in Slots
      /\ \A f \in rtHeap \ {e} : f[2] # i
      /\ \A q \in Queues : \A f \in rtQueue[q] : f[2] # i
  BY <1>1, Ripened
<1>5. slot # {} /\ slot \subseteq Queues /\ n \in Nat
  BY <1>4, SlotFacts
<1> HIDE DEF n
<1>6. /\ r.slot = slot /\ r.start = inst[i].start /\ r.end = inst[i].end
      /\ r.cursamp = inst[i].cursamp
  BY <1>4, <1>5, RefFields
<1> HIDE DEF r
<1>7. inst'[i] = r /\ \A j \in Insts \ {i} : inst'[j] = inst[j]
  BY <1>1, <1>4 DEF TypeOK
<1>8. Unplayed'
  BY <1>1, <1>4, <1>7, UnplayedFrame DEF TypeOK
<1>9. mix = {} /\ Cleared'
  BY <1>1, <1>2 DEF Cleared
<1>10. Heard(i)'
  <2>1. \A q \in Queues : \A f : f \in rtQueue'[q] /\ f[2] = i <=> q \in slot /\ f = e
    BY <1>1, <1>4
  <2>2. Held(i)'
    <3>1. PICK q \in slot : TRUE
      BY <1>5
    <3>2. q \in Queues /\ e \in rtQueue'[q]
      BY <1>5, <2>1
    <3> QED
      BY <3>2 DEF Held, Queued
  <2>3. Rested(inst[i], Waits(i))' \/ fate'[i] # "timely"
    <3>1. Place(i)'
      BY <1>4 DEF Places
    <3> QED
      BY <1>1, <2>2, <3>1 DEF Place, InSlice
  <2>4. /\ inst[i].start = e[1] /\ inst[i].cursamp = 0 /\ inst[i].start <= inst[i].end
    BY <1>4 DEF Unplayed
  <2>5. fate'[i] = "timely" => Position(i)' = e[1]
    <3>1. bufStart \in Nat /\ (fate'[i] = "timely" => ~(e[1] < bufStart))
      BY <1>1, <1>4 DEF TypeOK
    <3> QED
      BY <1>1, <1>4, <1>6, <1>7, <2>4, <3>1 DEF Position
  <2>6. MixOf(i)' = {}
    BY <1>1, <1>9 DEF MixOf
  <2>7. ASSUME fate'[i] = "timely" PROVE Aligned(i)'
    <3>1. Position(i)' < bufEnd' /\ Position(i)' <= inst'[i].end
      BY <1>2, <1>4, <1>6, <1>7, <2>4, <2>5, <2>7
    <3>2. inst'[i].cursamp = Position(i)' - inst'[i].start
      BY <1>4, <1>6, <1>7, <2>4, <2>5, <2>7
    <3>3. \A q \in Queues : \A f \in rtQueue'[q] : f[2] = i => Due(f, q)' /\ f[1] = Position(i)'
      <4>1. \A q \in Queues : Due(e, q)'
        BY <1>1, <1>3, <1>4 DEF Due, Passed
      <4> QED
        BY <2>1, <2>5, <2>7, <4>1
    <3> QED
      BY <1>1, <1>4, <2>3, <2>6, <2>7, <3>1, <3>2, <3>3 DEF Aligned
  <2> QED
    BY <2>2, <2>7 DEF Heard
<1>11. ASSUME NEW j \in Insts, j # i PROVE Heard(j)'
  <2>1. \A q \in Queues : {f \in rtQueue'[q] : f[2] = j} = {f \in rtQueue[q] : f[2] = j}
    BY <1>1, <1>11
  <2>2. Queued(j)' = Queued(j)
    BY <1>1, <1>3, <2>1, QueueFrame
  <2>3. Heard(j) /\ MixOf(j)' = MixOf(j)
    BY <1>1 DEF AllHeard, MixOf
  <2> QED
    BY <1>1, <1>2, <1>3, <1>7, <1>11, <2>1, <2>2, <2>3, HeardFrame
<1> QED
  BY <1>8, <1>9, <1>10, <1>11 DEF AllHeard

LEMMA SendSounds ==
  ASSUME IInv, IInv', SInv, Send
  PROVE  SInv'
<1> USE DEF IInv, SInv
<1>1. /\ audioPc = "send" /\ audioPc' = "status" /\ bufStart' = bufEnd /\ mix' = {}
      /\ UNCHANGED <<cur, rtHeap, inst, fate, rtQueue, batch>>
  BY DEF Send, parserVars, bufEnd
<1>2. Unplayed' /\ Cleared'
  BY <1>1, UnplayedFrame DEF Cleared
<1>3. /\ batch = {} /\ \A i \in Insts : Waits(i) = {}
      /\ \A q \in Queues : \A e \in rtQueue[q] : ~Due(e, q)
  BY <1>1, WalkOver
<1>4. /\ FrameCount \in Nat /\ FrameCount > 0 /\ bufEnd \in Nat
      /\ bufEnd' \in Nat /\ bufEnd < bufEnd'
  <2>1. bufEnd' = bufEnd + FrameCount
    BY <1>1 DEF bufEnd
  <2> QED
    BY <2>1, SliceFacts
<1>5. ASSUME NEW i \in Insts, fate[i] = "timely" PROVE Heard(i)'
  <2>1. (InBatch(i)' <=> InBatch(i)) /\ ~InBatch(i) /\ Queued(i)' = Queued(i)
    BY <1>1, <1>3 DEF InBatch, Queued
  <2>2. Held(i)' <=> Held(i)
    BY <2>1 DEF Held
  <2>3. MixOf(i)' = {}
    BY <1>1 DEF MixOf
  <2>4. inst[i].start \in Nat /\ inst[i].end \in Nat
    BY SliceFacts
  <2>5. CASE ~Held(i)
    <3>1. inst[i].end <= bufEnd
      BY <1>5, <2>5 DEF AllHeard, Heard, Ended
    <3>2. inst[i].end <= bufEnd'
      BY <1>4, <2>4, <3>1
    <3>3. DueOn(i, inst[i].slot)' = {}
      <4>1. \A g \in 0 .. FrameCount - 1 : ~(bufEnd + g < inst[i].end)
        BY <1>4, <2>4, <3>1
      <4> QED
        BY <1>1, <4>1 DEF DueOn
    <3> QED
      BY <1>1, <2>2, <2>3, <2>5, <3>2, <3>3 DEF Heard, Ended
  <2>6. CASE Held(i)
    <3>1. Aligned(i) /\ Place(i) /\ Place(i)'
      BY <1>5, <2>6 DEF AllHeard, Heard, Places
    <3>2. /\ inst[i].slot \in Slots /\ Phase(inst[i], Queued(i), Waits(i))
      BY <1>1, <1>5, <2>6, <3>1 DEF Place, InSlice
    <3>3. Waits(i) = {}
      BY <1>3
    <3>4. ~Rested(inst[i], Waits(i))
      BY <3>2, <3>3, SlotFacts DEF Rested
    <3>5. inst[i].end > bufEnd
      <4>1. Queued(i) # {}
        BY <2>1, <2>6 DEF Held
      <4>2. Walked(inst[i], Queued(i), {})
        BY <3>2, <3>3, <3>4 DEF Phase
      <4> QED
        BY <1>4, <2>4, <4>1, <4>2 DEF Walked
    <3>6. Rested(inst[i], Waits(i))'
      BY <1>1, <1>5, <2>2, <2>6, <3>1 DEF Place, InSlice, Rest
    <3>7. inst[i].cursamp = bufEnd - inst[i].start
      BY <1>4, <2>4, <3>1, <3>4, <3>5 DEF Aligned, Min2
    <3>8. Position(i)' = bufEnd
      <4>1. Position(i) < bufEnd /\ inst[i].start <= Position(i) /\ Position(i) \in Nat
        BY <3>1, SliceFacts DEF Aligned
      <4>2. ~(inst[i].start > bufEnd)
        BY <1>4, <2>4, <4>1
      <4> QED
        BY <1>1, <1>4, <2>4, <4>2 DEF Position
    <3>9. \A q \in Queues : \A e \in rtQueue'[q] : e[2] = i => e[1] = bufEnd /\ Due(e, q)'
      <4>1. \A q \in Queues : \A e \in rtQueue[q] : e[2] = i => e[1] = bufEnd
        BY <1>3, <3>1 DEF Aligned
      <4> QED
        BY <1>1, <1>4, <4>1 DEF Due, Passed
    <3>10. Aligned(i)'
      BY <1>1, <1>3, <1>4, <2>3, <2>4, <3>5, <3>6, <3>7, <3>8, <3>9 DEF Aligned
    <3> QED
      BY <2>2, <2>6, <3>10 DEF Heard
  <2> QED
    BY <2>5, <2>6
<1>6. AllHeard'
  BY <1>1, <1>5 DEF AllHeard, Heard
<1> QED
  BY <1>2, <1>6

-----------------------------------------------------------------------------
(* The walk.                                                               *)

LEMMA TakenAway ==
  ASSUME IInv, NEW e, audioPc = "play", playIdx <= Len(PlayOrder),
         e \in rtQueue[busq], e[1] < bufEnd,
         rtQueue' = [rtQueue EXCEPT ![busq] = @ \ {e}]
  PROVE  /\ \A q \in Queues : \A f \in rtQueue'[q] : f \in rtQueue[q]
         /\ \A j \in Insts \ {e[2]} : \A q \in Queues :
              {f \in rtQueue'[q] : f[2] = j} = {f \in rtQueue[q] : f[2] = j}
<1>1. /\ rtQueue'[busq] = rtQueue[busq] \ {e}
      /\ \A q \in Queues \ {busq} : rtQueue'[q] = rtQueue[q]
  BY AtTurn DEF IInv, TypeOK
<1> QED
  BY <1>1

\* Nothing that plays is in the heap.
LEMMA HeldIsNotUnplayed ==
  ASSUME IInv, NEW i \in Insts, Held(i)
  PROVE  i \notin cur /\ \A e \in rtHeap : e[2] # i
BY DEF IInv, Places, Place, InHeap

LEMMA PlayPanicSounds ==
  ASSUME IInv, SInv, NEW e, PlayPanic(e)
  PROVE  SInv'
<1> USE DEF IInv, SInv
<1> DEFINE i == e[2]
<1>1. /\ audioPc = "play" /\ playIdx <= Len(PlayOrder) /\ e \in Ripe(rtQueue[busq])
      /\ rtQueue' = [rtQueue EXCEPT ![busq] = @ \ {e}]
      /\ inst' = [inst EXCEPT ![i] = Popped(e)] /\ fate' = [fate EXCEPT ![i] = "panicked"]
      /\ UNCHANGED <<cur, parserPc, rtHeap, audioPc, panic, bufStart, playIdx, batch, mix>>
  BY DEF PlayPanic, parserVars, sliceVars
<1>2. busq' = busq /\ \A q \in Queues : \A f : Due(f, q)' <=> Due(f, q)
  BY <1>1, DueFrame DEF busq
<1>3. e \in rtQueue[busq] /\ e[1] < bufEnd
  BY <1>1 DEF Ripe, Least
<1>4. i \in Insts /\ Held(i)
  BY <1>1, <1>3, AtTurn
<1>5. \A j \in Insts \ {i} : inst'[j] = inst[j] /\ fate'[j] = fate[j]
  BY <1>1 DEF TypeOK
<1>6. Unplayed'
  BY <1>1, <1>4, <1>5, HeldIsNotUnplayed, UnplayedFrame DEF TypeOK
<1>7. Cleared'
  BY <1>1 DEF Cleared, Rest
<1>8. ASSUME NEW j \in Insts PROVE Heard(j)'
  <2>1. CASE j = i
    BY <1>1, <1>4, <2>1 DEF Heard, TypeOK
  <2>2. CASE j # i
    <3>1. \A q \in Queues : {f \in rtQueue'[q] : f[2] = j} = {f \in rtQueue[q] : f[2] = j}
      BY <1>1, <1>3, <2>2, TakenAway
    <3>2. Queued(j)' = Queued(j)
      BY <1>1, <1>2, <3>1, QueueFrame
    <3>3. Heard(j) /\ MixOf(j)' = MixOf(j)
      BY <1>1 DEF AllHeard, MixOf
    <3> QED
      BY <1>1, <1>2, <1>5, <2>2, <3>1, <3>2, <3>3, HeardFrame
  <2> QED
    BY <2>1, <2>2
<1> QED
  BY <1>6, <1>7, <1>8 DEF AllHeard

\* What is popped in time is given the chunk from its position to its end or the slice's.
LEMMA PoppedInTime ==
  ASSUME IInv, NEW e, e[2] \in Insts, NEW q \in Queues, e \in rtQueue[q], e[1] < bufEnd,
         bufStart <= e[1], e[1] = Position(e[2]), inst[e[2]].refs > 0
  PROVE  LET r == inst[e[2]]
             p == Popped(e)
         IN /\ p \in InstType /\ p.slot = r.slot /\ p.start = r.start /\ p.end = r.end
            /\ (p.needs <=> r.needs) /\ p.written = r.written
            /\ p.cursamp = r.cursamp /\ p.out = r.out
            /\ p.chunk = Min2(r.end, bufEnd) - Position(e[2])
            /\ p.offset = Position(e[2]) - bufStart
<1> DEFINE r == inst[e[2]]
           p == Popped(e)
<1>1. e \in Nat \X Insts /\ e[1] \in Nat /\ r \in InstType /\ r.end \in Nat /\ bufStart \in Nat
  BY DEF IInv, TypeOK, InstType
<1>2. /\ p \in InstType /\ p.slot = r.slot /\ p.start = r.start /\ p.end = r.end
      /\ (p.needs <=> r.needs) /\ p.written = r.written
      /\ p.cursamp = r.cursamp /\ p.out = r.out
      /\ p.chunk = ChunkSamps(e[1], r.end) /\ p.offset = Offset(e[1])
  BY <1>1, PoppedFields
<1>3. /\ ChunkSamps(e[1], r.end) = Min2(r.end, bufEnd) - e[1]
      /\ Offset(e[1]) = e[1] - bufStart
  BY <1>1, Chunk
<1> QED
  BY <1>2, <1>3

LEMMA GatherSounds ==
  ASSUME IInv, IInv', SInv, NEW e, Gather(e)
  PROVE  SInv'
<1> USE DEF IInv, SInv
<1> DEFINE i == e[2]
           p == Popped(e)
<1>1. /\ MULTI_THREAD /\ audioPc = "play" /\ playIdx <= Len(PlayOrder)
      /\ e \in Least(rtQueue[busq])
      /\ rtQueue' = [rtQueue EXCEPT ![busq] = @ \ {e}]
      /\ inst' = [inst EXCEPT ![i] = p] /\ batch' = batch \cup {e}
      /\ UNCHANGED <<cur, parserPc, rtHeap, fate, audioPc, panic, bufStart, playIdx, mix>>
  BY DEF Gather, parserVars, sliceVars
<1>2. UNCHANGED <<bufEnd, busq, Rest>> /\ \A q \in Queues : \A f : Due(f, q)' <=> Due(f, q)
  BY <1>1, DueFrame DEF busq, bufEnd, Rest
<1>3. e \in rtQueue[busq] /\ e[1] < bufEnd /\ busq \in Queues
  <2>1. playIdx \in DOMAIN PlayOrder /\ busq \in Queues
    BY <1>1, Playing
  <2>2. Early(busq)
    BY <1>1, <2>1 DEF Times, busq
  <2> QED
    BY <1>1, <2>1, <2>2 DEF Least, Early
<1>4. /\ i \in Insts /\ Held(i) /\ ~InBatch(i) /\ e[1] \in Nat /\ Due(e, busq)
      /\ busq \in Waits(i) /\ inst[i].refs = 2 + Cardinality(Queued(i) \ {busq})
      /\ Cardinality(Queued(i) \ {busq}) \in Nat
  BY <1>1, <1>3, AtTurn
<1>5. inst[i].refs > 0
  BY <1>4
<1>6. inst'[i] = p /\ \A j \in Insts \ {i} : inst'[j] = inst[j]
  BY <1>1, <1>4 DEF TypeOK
<1> HIDE DEF p
<1>7. Unplayed'
  BY <1>1, <1>4, <1>6, HeldIsNotUnplayed, UnplayedFrame DEF TypeOK
<1>8. Cleared'
  BY <1>1 DEF Cleared, Rest
<1>9. /\ \A q \in Queues : \A f \in rtQueue'[q] : f \in rtQueue[q]
      /\ \A j \in Insts \ {i} : \A q \in Queues :
           {f \in rtQueue'[q] : f[2] = j} = {f \in rtQueue[q] : f[2] = j}
  BY <1>1, <1>3, TakenAway
<1>10. ASSUME fate[i] = "timely" PROVE Heard(i)'
  <2>1. Aligned(i)
    BY <1>4, <1>10 DEF AllHeard, Heard
  <2>2. e[1] = Position(i) /\ bufStart <= e[1]
    BY <1>3, <1>4, <2>1, SliceFacts DEF Aligned
  <2>3. /\ p.slot = inst[i].slot /\ p.start = inst[i].start /\ p.end = inst[i].end
        /\ (p.needs <=> inst[i].needs)
        /\ p.cursamp = inst[i].cursamp /\ p.out = inst[i].out
        /\ p.chunk = Min2(inst[i].end, bufEnd) - Position(i)
        /\ p.offset = Position(i) - bufStart
    BY <1>3, <1>4, <1>5, <2>2, PoppedInTime DEF p
  <2>4. Held(i)'
    BY <1>1 DEF Held, InBatch
  <2>5. Waits(i)' = Waits(i)
    <3>1. Ahead(i)' \subseteq Ahead(i)
      BY <1>2, <1>9 DEF Ahead
    <3>2. Ahead(i) \ {busq} \subseteq Ahead(i)'
      <4>1. \A q \in Queues \ {busq} : rtQueue'[q] = rtQueue[q]
        BY <1>1 DEF TypeOK
      <4> QED
        BY <1>2, <4>1 DEF Ahead
    <3>3. InBatch(i)' /\ Waits(i)' = Ahead(i)' \cup {busq}
      BY <1>1, <1>2, <1>3 DEF InBatch, Waits
    <3>4. Waits(i) = Ahead(i)
      BY <1>4 DEF Waits
    <3> QED
      BY <1>4, <3>1, <3>2, <3>3, <3>4
  <2>6. Position(i)' = Position(i) /\ MixOf(i)' = MixOf(i)
    BY <1>1, <1>6, <2>3 DEF Position, MixOf
  <2>7. Rested(inst[i], Waits(i))' <=> Rested(inst[i], Waits(i))
    BY <1>6, <2>3, <2>5 DEF Rested
  <2>8. \A S : DueOn(i, S)' = DueOn(i, S)
    BY <1>1, <1>6, <2>3 DEF DueOn
  <2>9. \A f \in batch' : f[2] = i => f = e
    BY <1>1, <1>4 DEF InBatch
  <2>10. Aligned(i)'
    <3>1. ~Rested(inst[i], Waits(i))' => MixOf(i)' = DueOn(i, inst[i].slot \ Waits(i))'
      BY <1>6, <2>1, <2>3, <2>5, <2>6, <2>7, <2>8 DEF Aligned
    <3>2. \A q \in Queues : \A f \in rtQueue'[q] :
            f[2] = i => f[1] = IF Due(f, q)' THEN Position(i)' ELSE bufEnd'
      BY <1>2, <1>9, <2>1, <2>6 DEF Aligned
    <3>3. \A f \in batch' : f[2] = i =>
            /\ f[1] = Position(i)'
            /\ inst'[i].chunk = Min2(inst'[i].end, bufEnd') - Position(i)'
            /\ inst'[i].offset = Position(i)' - bufStart'
      BY <1>1, <1>2, <1>6, <2>2, <2>3, <2>6, <2>9
    <3> QED
      BY <1>2, <1>6, <2>1, <2>3, <2>6, <2>7, <3>1, <3>2, <3>3 DEF Aligned, Min2
  <2> QED
    BY <2>4, <2>10 DEF Heard
<1>11. ASSUME NEW j \in Insts, j # i PROVE Heard(j)'
  <2>1. {f \in batch' : f[2] = j} = {f \in batch : f[2] = j}
    BY <1>1, <1>11
  <2>2. Queued(j)' = Queued(j)
    BY <1>1, <1>2, <1>9, <1>11, <2>1, QueueFrame
  <2>3. Heard(j) /\ MixOf(j)' = MixOf(j)
    BY <1>1 DEF AllHeard, MixOf
  <2> QED
    BY <1>1, <1>2, <1>6, <1>9, <1>11, <2>1, <2>2, <2>3, HeardFrame
<1>12. Heard(i)'
  <2>1. fate'[i] = fate[i]
    BY <1>1
  <2> QED
    BY <1>10, <2>1 DEF Heard
<1>13. AllHeard'
  BY <1>11, <1>12 DEF AllHeard
<1> QED
  BY <1>7, <1>8, <1>13

\* What exec adds to the bus is what is due there, whichever bus it is of the note's.
LEMMA ChunkIsDue ==
  ASSUME IInv, NEW i \in Insts, Aligned(i), busq \in Waits(i), Waits(i) \subseteq inst[i].slot,
         Phase(inst[i], Queued(i), Waits(i)),
         NEW p \in InstType, p.needs <=> inst[i].needs,
         p.cursamp = inst[i].cursamp, p.out = inst[i].out,
         p.chunk = Min2(inst[i].end, bufEnd) - Position(i), p.offset = Position(i) - bufStart,
         NEW x \in InstType, x.chunk = p.chunk, x.offset = p.offset,
         p.needs => /\ x.out = p.cursamp
                    /\ x.cursamp = p.cursamp + (IF p.chunk > 0 THEN p.chunk ELSE 0),
         ~p.needs => x.out = p.out /\ x.cursamp = p.cursamp
  PROVE  /\ x.out = Position(i) - inst[i].start
         /\ x.cursamp = Min2(inst[i].end, bufEnd) - inst[i].start
         /\ MixOf(i) \cup Added(i, x) = DueOn(i, inst[i].slot \ (Waits(i) \ {busq}))
<1> DEFINE S == inst[i].slot
           W == Waits(i)
           m == Min2(inst[i].end, bufEnd)
           pos == Position(i)
           start == inst[i].start
<1>1. /\ pos \in Nat /\ start \in Nat /\ m \in Nat /\ pos <= m
  <2>1. /\ pos \in Nat /\ start \in Nat /\ inst[i].end \in Nat /\ bufEnd \in Nat
    BY SliceFacts DEF IInv
  <2>2. pos < bufEnd /\ pos <= inst[i].end
    BY DEF Aligned
  <2> QED
    BY <2>1, <2>2 DEF Min2
<1>2. p.chunk = m - pos /\ p.chunk >= 0 /\ p.chunk \in Nat
  BY <1>1
<1>3. CASE Rested(inst[i], W)
  <2>1. p.needs /\ W = S /\ p.cursamp = pos - start /\ MixOf(i) = {}
    BY <1>3 DEF Rested, Aligned
  <2> HIDE DEF m, pos, start, S, W
  <2>2. x.out = pos - start /\ x.cursamp = m - start
    BY <1>1, <1>2, <2>1
  <2>3. Added(i, x) = DueOn(i, {busq})
    BY <2>2, AddedIsDue DEF IInv, Aligned, pos, start
  <2>4. S \ (W \ {busq}) = {busq}
    BY <2>1 DEF W
  <2> QED
    BY <2>1, <2>2, <2>3, <2>4 DEF m, pos, start, S, W
<1>4. CASE ~Rested(inst[i], W)
  <2>1. ~p.needs
    BY <1>4 DEF Phase, Walked
  <2>2. /\ x.out = pos - start /\ x.cursamp = m - start /\ MixOf(i) = DueOn(i, S \ W)
    BY <1>4, <2>1 DEF Aligned
  <2>3. Added(i, x) = DueOn(i, {busq})
    BY <2>2, AddedIsDue DEF IInv, Aligned
  <2>4. S \ (W \ {busq}) = (S \ W) \cup {busq}
    OBVIOUS
  <2> HIDE DEF S, W
  <2>5. MixOf(i) \cup Added(i, x) = DueOn(i, (S \ W) \cup {busq})
    BY <2>2, <2>3, DueOnBoth
  <2> QED
    BY <2>2, <2>4, <2>5 DEF S, W
<1> QED
  BY <1>3, <1>4

\* A note that has been executed on the bus busq.
LEMMA HeardAfter ==
  ASSUME IInv, NEW i \in Insts, Aligned(i), bufStart' = bufStart, busq \in Waits(i),
         Waits(i) \subseteq inst[i].slot,
         inst'[i].slot = inst[i].slot, inst'[i].start = inst[i].start,
         inst'[i].end = inst[i].end,
         inst'[i].out = Position(i) - inst[i].start,
         inst'[i].cursamp = Min2(inst[i].end, bufEnd) - inst[i].start,
         MixOf(i)' = DueOn(i, inst[i].slot \ (Waits(i) \ {busq})),
         Waits(i)' = Waits(i) \ {busq}, ~InBatch(i)',
         \A q \in Queues : \A e \in rtQueue'[q] : e[2] = i =>
           e[1] = bufEnd \/ (e \in rtQueue[q] /\ (Due(e, q)' <=> Due(e, q))),
         inst[i].end > bufEnd => Held(i)'
  PROVE  Heard(i)'
<1>1. Position(i)' = Position(i) /\ bufEnd' = bufEnd
  BY DEF Position, bufEnd
<1>2. \A S : DueOn(i, S)' = DueOn(i, S)
  BY DEF DueOn
<1>3. ~Rested(inst[i], Waits(i))'
  BY DEF Rested
<1>4. MixOf(i)' = DueOn(i, inst[i].slot \ Waits(i))'
  BY <1>2
<1>5. Aligned(i)'
  <2>1. \A q \in Queues : \A e \in rtQueue'[q] :
          e[2] = i => e[1] = IF Due(e, q)' THEN Position(i)' ELSE bufEnd'
    <3>1. \A q \in Queues : \A e : e[1] = bufEnd => ~Due(e, q)'
      BY <1>1, SliceFacts DEF IInv, Due
    <3> QED
      BY <1>1, <3>1 DEF Aligned
  <2>2. \A e \in batch' : e[2] # i
    BY DEF InBatch
  <2> QED
    BY <1>1, <1>3, <1>4, <2>1, <2>2 DEF Aligned, Min2
<1>6. ASSUME ~Held(i)' PROVE Ended(i)'
  <2>1. Waits(i)' = {}
    BY <1>6 DEF Held, Queued, Waits, Ahead
  <2>2. inst[i].end <= bufEnd
    BY <1>6, SliceFacts DEF IInv
  <2>3. MixOf(i)' = DueOn(i, inst[i].slot)'
    BY <1>2, <2>1
  <2> QED
    BY <1>1, <2>2, <2>3 DEF Ended
<1> QED
  BY <1>5, <1>6 DEF Heard

LEMMA AddedElsewhere ==
  ASSUME NEW i, NEW j, i # j, NEW x
  PROVE  {y \in Added(i, x) : y[1] = j} = {} /\ \A y \in Added(i, x) : y[1] = i
BY DEF Added

LEMMA SettledFields ==
  ASSUME NEW x \in InstType
  PROVE  /\ Settled(x).slot = x.slot /\ Settled(x).start = x.start /\ Settled(x).end = x.end
         /\ Settled(x).out = x.out /\ Settled(x).cursamp = x.cursamp
<1>1. CASE Requeued(x)
  BY <1>1 DEF Settled, Ref, InstType
<1>2. CASE ~Requeued(x) /\ x.needs
  BY <1>2 DEF Settled, Unref, InstType
<1>3. CASE ~Requeued(x) /\ ~x.needs
  BY <1>3 DEF Settled
<1> QED
  BY <1>1, <1>2, <1>3

LEMMA PlayNextSounds ==
  ASSUME IInv, IInv', SInv, Punctual, NEW e, NEW cut \in BOOLEAN, PlayNext(e, cut)
  PROVE  SInv'
<1> USE DEF IInv, SInv
<1> DEFINE i == e[2]
           p == Popped(e)
           x == Exec(p, cut)
           y == Settled(x)
           rest == rtQueue[busq] \ {e}
           new == IF Requeued(x) THEN rest \cup {<<e[1] + x.chunk, i>>} ELSE rest
<1>1. /\ audioPc = "play" /\ playIdx <= Len(PlayOrder)
      /\ e \in Ripe(rtQueue[busq]) /\ ~panic
      /\ rtQueue' = [rtQueue EXCEPT ![busq] = new] /\ inst' = [inst EXCEPT ![i] = y]
      /\ mix' = mix \cup Added(i, x)
      /\ fate' = [fate EXCEPT ![i] = IF cut THEN "cut" ELSE @]
      /\ UNCHANGED <<cur, parserPc, rtHeap, audioPc, panic, bufStart, playIdx, batch>>
  BY DEF PlayNext, parserVars, sliceVars
<1> HIDE DEF new, y, x, p
<1>2. UNCHANGED <<bufEnd, busq, Rest>> /\ \A q \in Queues : \A f : Due(f, q)' <=> Due(f, q)
  BY <1>1, DueFrame DEF bufEnd, busq, Rest
<1>3. e \in rtQueue[busq] /\ e[1] < bufEnd
  BY <1>1 DEF Ripe, Least
<1>4. /\ busq \in Queues /\ i \in Insts /\ bufStart <= e[1] /\ e[1] \in Nat
      /\ busq \in Waits(i) /\ Due(e, busq) /\ Held(i) /\ ~InBatch(i)
      /\ \A f \in rtQueue[busq] \ {e} : f[2] # i
      /\ inst[i].slot \in Slots /\ Queued(i) \cup Waits(i) \subseteq inst[i].slot
      /\ inst[i].refs = 2 + Cardinality(Queued(i) \ {busq})
      /\ Cardinality(Queued(i) \ {busq}) \in Nat
      /\ Phase(inst[i], Queued(i), Waits(i))
  BY <1>1, <1>3, AtTurn
<1>5. inst'[i] = y /\ \A j \in Insts \ {i} : inst'[j] = inst[j] /\ fate'[j] = fate[j]
  BY <1>1, <1>4 DEF TypeOK
<1>6. /\ rtQueue'[busq] = new /\ \A q \in Queues \ {busq} : rtQueue'[q] = rtQueue[q]
      /\ \A f \in new : f \in rest \/ f = <<e[1] + x.chunk, i>>
      /\ Requeued(x) => <<e[1] + x.chunk, i>> \in new
      /\ rest \subseteq new
  BY <1>1, <1>4 DEF TypeOK, new
<1>7. Unplayed' /\ Cleared'
  BY <1>1, <1>2, <1>4, <1>5, HeldIsNotUnplayed, UnplayedFrame DEF TypeOK, Cleared, Rest
<1>8. ASSUME fate'[i] = "timely" PROVE Heard(i)'
  <2>1. ~cut /\ fate[i] = "timely"
    BY <1>1, <1>4, <1>8 DEF TypeOK
  <2>2. Aligned(i) /\ e[1] = Position(i)
    BY <1>3, <1>4, <2>1 DEF AllHeard, Heard, Aligned
  <2>3. /\ p \in InstType /\ p.slot = inst[i].slot /\ p.start = inst[i].start
        /\ p.end = inst[i].end /\ (p.needs <=> inst[i].needs)
        /\ p.cursamp = inst[i].cursamp /\ p.out = inst[i].out
        /\ p.chunk = Min2(inst[i].end, bufEnd) - Position(i)
        /\ p.offset = Position(i) - bufStart
    BY <1>3, <1>4, <2>2, PoppedInTime DEF p
  <2>4. /\ x \in InstType /\ x.slot = p.slot /\ x.start = p.start /\ x.end = p.end
        /\ x.chunk = p.chunk /\ x.offset = p.offset
        /\ p.needs => /\ x.out = p.cursamp
                      /\ x.cursamp = p.cursamp + (IF p.chunk > 0 THEN p.chunk ELSE 0)
        /\ ~p.needs => x.out = p.out /\ x.cursamp = p.cursamp
    BY <1>4, <2>1, <2>3, ExecFields DEF x
  <2>5. /\ x.out = Position(i) - inst[i].start
        /\ x.cursamp = Min2(inst[i].end, bufEnd) - inst[i].start
        /\ MixOf(i) \cup Added(i, x) = DueOn(i, inst[i].slot \ (Waits(i) \ {busq}))
    BY <1>4, <2>2, <2>3, <2>4, ChunkIsDue
  <2>6. MixOf(i)' = MixOf(i) \cup Added(i, x)
    BY <1>1 DEF MixOf, Added
  <2>7. /\ y.slot = x.slot /\ y.start = x.start /\ y.end = x.end
        /\ y.out = x.out /\ y.cursamp = x.cursamp
    BY <2>4, SettledFields DEF y
  <2>8. \A q \in Queues : \A f \in rtQueue'[q] : f[2] = i =>
          IF q = busq THEN f[1] = bufEnd /\ ~Due(f, q)' ELSE f \in rtQueue[q]
    <3>1. /\ inst[i].end \in Nat /\ bufEnd \in Nat /\ Position(i) \in Nat
      BY <1>4, SliceFacts
    <3>2. Requeued(x) => e[1] + x.chunk = bufEnd
      BY <2>2, <2>3, <2>4, <3>1 DEF Requeued, Min2
    <3>3. ASSUME NEW f \in new, f[2] = i PROVE f[1] = bufEnd
      <4>1. Requeued(x) /\ f = <<e[1] + x.chunk, i>>
        BY <1>4, <3>3 DEF new
      <4> QED
        BY <3>2, <4>1
    <3>4. ASSUME NEW q \in Queues, NEW f, f[1] = bufEnd PROVE ~Due(f, q)'
      BY <1>2, <3>1, <3>4 DEF Due
    <3> QED
      BY <1>6, <3>3, <3>4
  <2>9. Waits(i)' = Waits(i) \ {busq}
    <3>1. (InBatch(i)' <=> InBatch(i)) /\ Waits(i) = Ahead(i) /\ Waits(i)' = Ahead(i)'
      BY <1>1, <1>4 DEF InBatch, Waits
    <3>2. Ahead(i)' \subseteq Ahead(i) \ {busq}
      BY <1>2, <2>8 DEF Ahead
    <3>3. Ahead(i) \ {busq} \subseteq Ahead(i)'
      BY <1>2, <1>6 DEF Ahead
    <3> QED
      BY <3>1, <3>2, <3>3
  <2>10. inst[i].end > bufEnd => Held(i)'
    BY <1>4, <1>6, <2>3, <2>4 DEF Requeued, Held, Queued
  <2>11. ~InBatch(i)'
    BY <1>1, <1>4 DEF InBatch
  <2>12. /\ inst'[i].slot = inst[i].slot /\ inst'[i].start = inst[i].start
         /\ inst'[i].end = inst[i].end
         /\ inst'[i].out = Position(i) - inst[i].start
         /\ inst'[i].cursamp = Min2(inst[i].end, bufEnd) - inst[i].start
    BY <1>5, <2>3, <2>4, <2>5, <2>7
  <2>13. MixOf(i)' = DueOn(i, inst[i].slot \ (Waits(i) \ {busq}))
    BY <2>5, <2>6
  <2>14. bufStart' = bufStart /\ i \in Insts /\ busq \in Waits(i) /\ Waits(i) \subseteq inst[i].slot
    BY <1>1, <1>4
  <2>15. \A q \in Queues : \A f \in rtQueue'[q] : f[2] = i =>
           f[1] = bufEnd \/ (f \in rtQueue[q] /\ (Due(f, q)' <=> Due(f, q)))
    BY <1>2, <2>8
  <2> HIDE DEF i
  <2> QED
    BY <2>2, <2>9, <2>10, <2>11, <2>12, <2>13, <2>14, <2>15, HeardAfter
<1>9. ASSUME NEW j \in Insts, j # i PROVE Heard(j)'
  <2>1. \A q \in Queues : {f \in rtQueue'[q] : f[2] = j} = {f \in rtQueue[q] : f[2] = j}
    BY <1>6, <1>9
  <2>2. Queued(j)' = Queued(j)
    BY <1>1, <1>2, <2>1, QueueFrame
  <2>3. Heard(j) /\ MixOf(j)' = MixOf(j)
    BY <1>1, <1>9, AddedElsewhere DEF AllHeard, MixOf
  <2> QED
    BY <1>1, <1>2, <1>5, <1>9, <2>1, <2>2, <2>3, HeardFrame
<1>10. AllHeard'
  BY <1>8, <1>9 DEF AllHeard, Heard
<1> QED
  BY <1>7, <1>10

LEMMA PlayBatchSounds ==
  ASSUME IInv, IInv', SInv, NEW cuts, PlayBatch(cuts)
  PROVE  SInv'
<1> USE DEF IInv, SInv
<1> DEFINE B == {e[2] : e \in batch}
           x(i) == Exec(inst[i], i \in cuts)
           y(i) == Settled(x(i))
           new == {<<e[1] + x(e[2]).chunk, e[2]>> : e \in {f \in batch : Requeued(x(f[2]))}}
<1>1. /\ audioPc = "play" /\ playIdx <= Len(PlayOrder) /\ rtQueue[busq] = {}
      /\ batch # {} /\ playIdx' = playIdx + 1
      /\ cuts \subseteq B /\ batch' = {}
      /\ UNCHANGED <<parserPc, cur, rtHeap, audioPc, panic, bufStart>>
      /\ fate' = [i \in Insts |-> IF i \in cuts THEN "cut" ELSE fate[i]]
  BY BatchIsWholeQueue DEF PlayBatch, parserVars, sliceVars
<1>2. /\ rtQueue' = [rtQueue EXCEPT ![busq] = @ \cup new]
      /\ inst' = [i \in Insts |-> IF i \in B THEN y(i) ELSE inst[i]]
      /\ mix' = mix \cup UNION {Added(i, x(i)) : i \in B}
  <2> DEFINE r == [i \in B |-> x(i)]
             again == {e \in batch : Requeued(r[e[2]])}
             added == UNION {Added(i, r[i]) : i \in DOMAIN r}
  <2>1. /\ rtQueue' = [rtQueue EXCEPT ![busq] =
                         @ \cup {<<e[1] + r[e[2]].chunk, e[2]>> : e \in again}]
        /\ inst' = [i \in Insts |-> IF i \in DOMAIN r THEN Settled(r[i]) ELSE inst[i]]
        /\ mix' = mix \cup added
    BY DEF PlayBatch
  <2>2. DOMAIN r = B /\ \A i \in B : r[i] = x(i)
    OBVIOUS
  <2>3. \A e \in batch : e[2] \in B /\ r[e[2]] = x(e[2])
    OBVIOUS
  <2> HIDE DEF r, x, B
  <2>4. again = {f \in batch : Requeued(x(f[2]))}
    BY <2>3
  <2>5. {<<e[1] + r[e[2]].chunk, e[2]>> : e \in again} = new
    BY <2>3, <2>4
  <2>6. added = UNION {Added(i, x(i)) : i \in B}
    BY <2>2
  <2>7. inst' = [i \in Insts |-> IF i \in B THEN y(i) ELSE inst[i]]
    BY <2>1, <2>2
  <2> HIDE DEF again, added, new
  <2> QED
    BY <2>1, <2>5, <2>6, <2>7
<1> HIDE DEF x, y, new
<1>3. UNCHANGED <<bufEnd, Rest>> /\ busq \in Queues
      /\ \A q \in Queues : /\ q # busq => \A f : Due(f, q)' <=> Due(f, q)
                           /\ q = busq => \A f : ~Due(f, q)'
  <2>1. UNCHANGED <<bufEnd, Rest>> /\ ~panic
    BY <1>1 DEF bufEnd, Rest, Batching
  <2>2. playIdx \in DOMAIN PlayOrder /\ busq \in Queues
    BY <1>1, Playing
  <2> QED
    BY <1>1, <2>1, <2>2, Passing
<1>4. B \subseteq Insts
  BY DEF TypeOK
<1>5. /\ \A i \in B : inst'[i] = y(i)
      /\ \A i \in Insts \ B : inst'[i] = inst[i] /\ fate'[i] = fate[i]
  BY <1>1, <1>2, <1>4
<1>6. /\ rtQueue'[busq] = new /\ \A q \in Queues \ {busq} : rtQueue'[q] = rtQueue[q]
  BY <1>1, <1>2, <1>3 DEF TypeOK
<1>7. \A f \in new : f[2] \in B
  BY DEF new
<1>8. \A i \in B : InBatch(i) /\ Held(i)
  BY DEF InBatch, Held
<1>9. Unplayed' /\ Cleared'
  <2>1. (\A f \in rtHeap : f[2] \in Insts \ B) /\ cur \subseteq Insts \ B
    BY <1>4, <1>8, HeldIsNotUnplayed DEF TypeOK
  <2> HIDE DEF B
  <2>2. Unplayed'
    BY <1>1, <1>3, <1>5, <2>1, UnplayedFrame
  <2> QED
    BY <1>1, <1>3, <2>2 DEF Cleared, Rest
<1>10. ASSUME NEW i \in B, fate'[i] = "timely" PROVE Heard(i)'
  <2>1. i \in Insts /\ i \notin cuts /\ fate[i] = "timely" /\ ~InBatch(i)'
    BY <1>1, <1>4, <1>10 DEF InBatch
  <2>2. /\ Aligned(i) /\ Place(i) /\ busq \in Waits(i) /\ busq \notin Queued(i)
    BY <1>1, <1>3, <1>8, <2>1 DEF AllHeard, Heard, Places, Waits, Queued
  <2>3. /\ Waits(i) \subseteq inst[i].slot /\ Phase(inst[i], Queued(i), Waits(i))
        /\ inst[i] \in InstType
    BY <1>1, <1>8, <2>1, <2>2 DEF Place, InSlice, TypeOK
  <2>4. PICK e \in batch : e[2] = i
    OBVIOUS
  <2>5. /\ e[1] = Position(i) /\ inst[i].chunk = Min2(inst[i].end, bufEnd) - Position(i)
        /\ inst[i].offset = Position(i) - bufStart
    BY <2>2, <2>4 DEF Aligned
  <2> DEFINE p == inst[i]
             xx == x(i)
             yy == y(i)
  <2>6. xx = Exec(p, FALSE) /\ yy = Settled(xx)
    <3>1. (i \in cuts) = FALSE
      BY <2>1
    <3> QED
      BY <3>1 DEF x, y
  <2> HIDE DEF xx, yy
  <2>7. /\ xx \in InstType /\ xx.slot = p.slot /\ xx.start = p.start /\ xx.end = p.end
        /\ xx.chunk = p.chunk /\ xx.offset = p.offset
        /\ p.needs => /\ xx.out = p.cursamp
                      /\ xx.cursamp = p.cursamp + (IF p.chunk > 0 THEN p.chunk ELSE 0)
        /\ ~p.needs => xx.out = p.out /\ xx.cursamp = p.cursamp
    BY <1>3, <2>3, <2>6, ExecFields
  <2>8. /\ xx.out = Position(i) - inst[i].start
        /\ xx.cursamp = Min2(inst[i].end, bufEnd) - inst[i].start
        /\ MixOf(i) \cup Added(i, xx) = DueOn(i, inst[i].slot \ (Waits(i) \ {busq}))
    BY <2>1, <2>2, <2>3, <2>5, <2>7, ChunkIsDue
  <2>9. /\ yy.slot = xx.slot /\ yy.start = xx.start /\ yy.end = xx.end
        /\ yy.out = xx.out /\ yy.cursamp = xx.cursamp
    BY <2>6, <2>7, SettledFields
  <2>10. /\ inst'[i].slot = inst[i].slot /\ inst'[i].start = inst[i].start
         /\ inst'[i].end = inst[i].end
         /\ inst'[i].out = Position(i) - inst[i].start
         /\ inst'[i].cursamp = Min2(inst[i].end, bufEnd) - inst[i].start
    BY <1>5, <2>7, <2>8, <2>9 DEF yy
  <2>11. MixOf(i)' = MixOf(i) \cup Added(i, xx)
    <3>1. \A j \in B \ {i} : {z \in Added(j, x(j)) : z[1] = i} = {}
      BY AddedElsewhere
    <3>2. \A z \in Added(i, xx) : z[1] = i
      BY DEF Added
    <3> HIDE DEF B
    <3> QED
      BY <1>2, <1>10, <3>1, <3>2 DEF MixOf, xx
  <2>12. MixOf(i)' = DueOn(i, inst[i].slot \ (Waits(i) \ {busq}))
    BY <2>8, <2>11
  <2>13. \A f \in new : f[2] = i => f[1] = bufEnd
    <3>1. ASSUME NEW f \in new, f[2] = i PROVE f[1] = bufEnd
      <4>1. PICK g \in batch : Requeued(x(g[2])) /\ f = <<g[1] + x(g[2]).chunk, g[2]>>
        BY DEF new
      <4>2. g[2] = i /\ g[1] = Position(i) /\ Requeued(xx) /\ f[1] = g[1] + xx.chunk
        BY <2>2, <3>1, <4>1 DEF Aligned, xx
      <4>3. inst[i].end > bufEnd /\ xx.chunk = Min2(inst[i].end, bufEnd) - Position(i)
        BY <2>5, <2>7, <4>2 DEF Requeued
      <4>4. inst[i].end \in Nat /\ bufEnd \in Nat /\ Position(i) \in Nat
        BY <2>1, SliceFacts
      <4> QED
        BY <4>2, <4>3, <4>4 DEF Min2
    <3> QED
      BY <3>1
  <2>14. \A q \in Queues : \A f \in rtQueue'[q] : f[2] = i =>
           f[1] = bufEnd \/ (f \in rtQueue[q] /\ (Due(f, q)' <=> Due(f, q)))
    BY <1>3, <1>6, <2>13
  <2>15. Waits(i)' = Waits(i) \ {busq}
    <3>1. Waits(i)' = Ahead(i)' /\ Waits(i) = Ahead(i) \cup {busq}
      BY <1>3, <1>8, <2>1 DEF Waits
    <3>2. Ahead(i)' \subseteq Ahead(i) \ {busq}
      BY <1>3, <1>6 DEF Ahead
    <3>3. Ahead(i) \ {busq} \subseteq Ahead(i)'
      BY <1>3, <1>6 DEF Ahead
    <3> QED
      BY <3>1, <3>2, <3>3
  <2>16. inst[i].end > bufEnd => Held(i)'
    <3>1. SUFFICES ASSUME inst[i].end > bufEnd PROVE Held(i)'
      OBVIOUS
    <3>2. Requeued(x(e[2]))
      BY <2>4, <2>7, <3>1 DEF Requeued, xx
    <3>3. <<e[1] + x(e[2]).chunk, i>> \in new
      BY <2>4, <3>2 DEF new
    <3> QED
      BY <1>3, <1>6, <3>3 DEF Held, Queued
  <2>17. bufStart' = bufStart
    BY <1>1
  <2> HIDE DEF B
  <2> QED
    BY <2>1, <2>2, <2>3, <2>10, <2>12, <2>14, <2>15, <2>16, <2>17, HeardAfter
<1>11. ASSUME NEW i \in Insts \ B PROVE Heard(i)'
  <2>1. /\ \A q \in Queues : {f \in rtQueue'[q] : f[2] = i} = {f \in rtQueue[q] : f[2] = i}
        /\ ~InBatch(i) /\ {f \in batch' : f[2] = i} = {f \in batch : f[2] = i}
    BY <1>1, <1>6, <1>7, <1>11 DEF InBatch
  <2>2. \A q \in Queues : \A f \in rtQueue[q] : Due(f, q)' <=> Due(f, q)
    BY <1>1, <1>3
  <2>3. Queued(i)' = Queued(i)
    BY <1>1, <1>11, <2>1, <2>2, QueueFrame
  <2>4. MixOf(i)' = MixOf(i)
    <3>1. \A j \in B : {z \in Added(j, x(j)) : z[1] = i} = {}
      BY <1>11, AddedElsewhere
    <3> HIDE DEF B
    <3> QED
      BY <1>2, <3>1 DEF MixOf
  <2>5. Heard(i)
    BY <1>11 DEF AllHeard
  <2> HIDE DEF B
  <2> QED
    BY <1>1, <1>5, <1>11, <2>1, <2>2, <2>3, <2>4, <2>5, HeardFrame
<1>12. AllHeard'
  <2> HIDE DEF B
  <2> QED
    BY <1>10, <1>11 DEF AllHeard, Heard
<1> QED
  BY <1>9, <1>12

-----------------------------------------------------------------------------
(* The specification.                                                      *)

LEMMA InitSounds ==
  ASSUME Init
  PROVE  SInv
<1>1. cur = {} /\ rtHeap = {} /\ mix = {} /\ \A i \in Insts : fate[i] = "none"
  BY DEF Init
<1> QED
  BY <1>1 DEF SInv, Unplayed, Cleared, AllHeard, Heard

LEMMA StepSounds ==
  ASSUME IInv, SInv, Careful, [Next]_vars
  PROVE  SInv'
<1> IInv'
  BY StepInv
<1>1. CASE ParserStep
  BY <1>1, ParserSounds
<1>2. CASE AudioTurn /\ AudioStep
  <2>1. ASSUME NEW e, NEW cut \in BOOLEAN, PlayNext(e, cut) PROVE SInv'
    <3>1. Punctual
      BY <2>1 DEF PlayNext, Careful
    <3> QED
      BY <2>1, <3>1, PlayNextSounds
  <2>2. CASE BeginSlice \/ DrainDone \/ NextQueue \/ PlayDone \/ SendFails
               \/ ReadStatus \/ EndPanic \/ Return
    BY <2>2, AudioQuiet
  <2>3. CASE Send
    BY <2>3, SendSounds
  <2>4. CASE \E e \in rtHeap : DrainPanic(e) \/ DrainUnconfigured(e) \/ Drain(e)
    BY <2>4, DrainDropSounds, DrainSounds
  <2>5. CASE \E q \in Queues : \E e \in rtQueue[q] :
               PlayPanic(e) \/ Gather(e) \/ \E cut \in BOOLEAN : PlayNext(e, cut)
    BY <2>1, <2>5, PlayPanicSounds, GatherSounds
  <2>6. CASE \E cuts \in SUBSET Insts : PlayBatch(cuts)
    BY <2>6, PlayBatchSounds
  <2> QED
    BY <1>2, <2>2, <2>3, <2>4, <2>5, <2>6 DEF AudioStep
<1>3. CASE Shutdown \/ UNCHANGED vars
  <2>1. UNCHANGED <<cur, rtHeap, inst, fate, audioPc, panic, bufStart, rtQueue, playIdx, batch,
                    mix>>
    BY <1>3 DEF Shutdown, vars, parserVars, statusVars, sliceVars, playVars
  <2>2. busq' = busq /\ Rest' = Rest /\ \A q \in Queues : \A e : Due(e, q)' <=> Due(e, q)
    BY <2>1, DueFrame DEF busq, Rest
  <2>3. Unplayed' /\ AllHeard'
    BY <2>1, <2>2, UnplayedFrame, QuietHeard DEF SInv
  <2>4. Cleared'
    BY <2>1, <2>2 DEF SInv, Cleared
  <2> QED
    BY <2>3, <2>4 DEF SInv
<1> QED
  BY <1>1, <1>2, <1>3 DEF Next, Finished

LEMMA Sounding == Spec => [](Careful => IInv /\ SInv)
<1>1. Init => (Careful => IInv /\ SInv)
  BY InitInv, InitSounds
<1>2. (Careful => IInv /\ SInv) /\ [Next]_vars => (Careful => IInv /\ SInv)'
  <2>1. [Next]_vars => build' = build
    BY DEF Next, ParserStep, AudioStep, Shutdown, Finished, vars
  <2> QED
    BY <2>1, StepInv, StepSounds DEF Careful, Punctual, MULTI_THREAD
<1> QED
  BY <1>1, <1>2, PTL DEF Spec

\* When a slice is handed to the device, the mix has of every note that was drained in time
\* exactly the samples due in the slice, each at its frame and on all the buses of the
\* note: inTraverse, chunkStart and exec lose no part of a note and shift none, across
\* slices and whatever plays beside it, late notes too if the tasks of a bus run in
\* parallel; in the single-threaded build, if no note is late.
THEOREM SamplesAreOnTime == Spec => [](Careful => SamplesOnTime)
<1>1. ASSUME IInv, SInv PROVE SamplesOnTime
  <2>1. SUFFICES ASSUME audioPc = "send", NEW i \in Insts, fate[i] = "timely"
                 PROVE  MixOf(i) = DueSamples(i)
    BY DEF SamplesOnTime, MixOf
  <2>2. DueSamples(i) = DueOn(i, inst[i].slot)
    BY DEF DueSamples, DueOn
  <2>3. Heard(i)
    BY <1>1 DEF SInv, AllHeard
  <2>4. CASE ~Held(i)
    BY <2>1, <2>2, <2>3, <2>4 DEF Heard, Ended
  <2>5. CASE Held(i)
    <3>1. Aligned(i) /\ inst[i].slot \in Slots
      BY <1>1, <2>1, <2>3, <2>5 DEF Heard, IInv, Places, Place
    <3>2. Waits(i) = {}
      BY <1>1, <2>1, WalkOver DEF IInv
    <3>3. ~Rested(inst[i], Waits(i))
      BY <3>1, <3>2, SlotFacts DEF Rested
    <3>4. MixOf(i) = DueOn(i, inst[i].slot \ Waits(i))
      BY <3>1, <3>3 DEF Aligned
    <3> QED
      BY <2>2, <3>2, <3>4
  <2> QED
    BY <2>4, <2>5
<1>2. (Careful => IInv /\ SInv) => (Careful => SamplesOnTime)
  BY <1>1
<1> QED
  BY <1>2, Sounding, PTL

-----------------------------------------------------------------------------
(* Late notes: none is heard twice in a slice or beyond its end.           *)

\* The mix has nothing before the walk and after the slice, or in a panic.
Emptied == panic \/ audioPc \notin {"play", "send", "stopped"} => mix = {}

\* Nothing is run, or was heard, beyond a note's end.
Bounded ==
  /\ \A e \in batch :
       bufStart + inst[e[2]].offset + inst[e[2]].chunk <= inst[e[2]].end
  /\ \A x \in mix : fate[x[1]] # "cut" => bufStart + x[3] < inst[x[1]].end

\* What was heard is not heard again: its queue is behind, or has no entry of the note
\* that is due in the slice.
HeardOnce ==
  /\ ~twice
  /\ \A x, y \in mix : x[1] = y[1] /\ x[2] = y[2] /\ x[3] = y[3] => x = y
  /\ audioPc = "play" => \A x \in mix :
       IF MULTI_THREAD
       THEN \E n \in DOMAIN PlayOrder : n < playIdx /\ x[2] = PlayOrder[n]
       ELSE \A e \in rtQueue[x[2]] : e[2] = x[1] => e[1] >= bufEnd

OInv ==
  /\ Emptied
  /\ \A x \in mix : fate[x[1]] # "none"
  /\ Bounded
  /\ HeardOnce

\* A chunk ends with the slice or with the note, wherever it starts.
LEMMA ChunkBounds ==
  ASSUME NEW s \in Nat, NEW end \in Nat, bufStart \in Nat
  PROVE  /\ ChunkSamps(s, end) \in Int /\ Offset(s) \in Nat
         /\ bufStart + Offset(s) + ChunkSamps(s, end) <= end
<1>1. FrameCount \in Nat /\ FrameCount > 0 /\ bufEnd = bufStart + FrameCount
  BY FrameAssumption DEF bufEnd
<1> DEFINE o == Offset(s)
           last == IF s < bufStart THEN end + (s - bufStart) ELSE end
           n == Min2(last, bufEnd) - s
<1>2. /\ o \in Nat
      /\ s < bufStart => o = 0
      /\ ~(s < bufStart) => o = s - bufStart
  BY DEF Offset
<1>3. n \in Int /\ n <= last - s /\ n <= bufEnd - s /\ last \in Int
  BY <1>1 DEF Min2
<1>4. /\ s < bufStart => last = end + (s - bufStart)
      /\ ~(s < bufStart) => last = end
  OBVIOUS
<1> DEFINE c == ChunkSamps(s, end)
<1>5. c = CASE n > FrameCount     -> FrameCount
            [] n + o > FrameCount -> FrameCount - o
            [] OTHER              -> n
  BY DEF ChunkSamps
<1> HIDE DEF o, last, n, c
<1>6. CASE n > FrameCount
  <2>1. s < bufStart /\ o = 0
    BY <1>1, <1>2, <1>3, <1>6
  <2>2. FrameCount - o = FrameCount /\ end > bufStart + FrameCount
    BY <1>1, <1>3, <1>4, <1>6, <2>1
  <2>3. c = FrameCount
    BY <1>5, <1>6, <2>2
  <2>4. c \in Int /\ bufStart + o + c <= end
    BY <1>1, <2>1, <2>2, <2>3
  <2> QED
    BY <1>2, <2>4 DEF o, c
<1>7. CASE ~(n > FrameCount) /\ n + o > FrameCount
  <2>1. c = FrameCount - o
    BY <1>5, <1>7
  <2>2. bufStart + FrameCount <= end
    BY <1>1, <1>2, <1>3, <1>4, <1>7
  <2>3. c \in Int /\ bufStart + o + c <= end
    BY <1>1, <1>2, <2>1, <2>2
  <2> QED
    BY <1>2, <2>3 DEF o, c
<1>8. CASE ~(n > FrameCount) /\ ~(n + o > FrameCount)
  <2>1. c = n
    BY <1>5, <1>8
  <2>2. c \in Int /\ bufStart + o + c <= end
    BY <1>1, <1>2, <1>3, <1>4, <2>1
  <2> QED
    BY <1>2, <2>2 DEF o, c
<1> QED
  BY <1>6, <1>7, <1>8

LEMMA PoppedBounds ==
  ASSUME NEW e \in Nat \X Insts, inst[e[2]] \in InstType, inst[e[2]].refs > 0,
         bufStart \in Nat, e[1] < bufEnd
  PROVE  bufStart + Popped(e).offset + Popped(e).chunk <= inst[e[2]].end
<1>1. e[1] \in Nat /\ inst[e[2]].end \in Nat
  BY DEF InstType
<1>2. Popped(e).chunk = ChunkSamps(e[1], inst[e[2]].end) /\ Popped(e).offset = Offset(e[1])
  BY PoppedFields
<1> QED
  BY <1>1, <1>2, ChunkBounds

\* The samples that exec adds are within the chunk, one at a frame.
LEMMA AddedFrames ==
  ASSUME NEW i, NEW x \in InstType
  PROVE  /\ \A s \in Added(i, x) : /\ s[1] = i /\ s[2] = busq
                                   /\ s[3] \in Int /\ s[3] < x.offset + x.chunk
         /\ \A s, t \in Added(i, x) : s[3] = t[3] => s = t
<1>1. x.offset \in Int /\ x.chunk \in Int /\ x.out \in Int
  BY DEF InstType
<1>2. ASSUME NEW s \in Added(i, x)
      PROVE  \E f \in 0 .. x.chunk - 1 : s = <<i, busq, x.offset + f, x.out + f>>
  BY DEF Added
<1>3. ASSUME NEW s \in Added(i, x)
      PROVE  /\ s[1] = i /\ s[2] = busq
             /\ s[3] \in Int /\ s[3] < x.offset + x.chunk
  <2>1. PICK f \in 0 .. x.chunk - 1 : s = <<i, busq, x.offset + f, x.out + f>>
    BY <1>2
  <2>2. s[1] = i /\ s[2] = busq /\ s[3] = x.offset + f
    BY <2>1
  <2> QED
    BY <1>1, <2>2
<1>4. ASSUME NEW s \in Added(i, x), NEW t \in Added(i, x), s[3] = t[3]
      PROVE  s = t
  <2>1. PICK f \in 0 .. x.chunk - 1 : s = <<i, busq, x.offset + f, x.out + f>>
    BY <1>2
  <2>2. PICK g \in 0 .. x.chunk - 1 : t = <<i, busq, x.offset + g, x.out + g>>
    BY <1>2
  <2>3. x.offset + f = x.offset + g
    BY <1>4, <2>1, <2>2
  <2>4. f = g
    BY <1>1, <2>3
  <2> QED
    BY <2>1, <2>2, <2>4
<1> QED
  BY <1>3, <1>4

\* The steps that play nothing.
LEMMA OnceFrame ==
  ASSUME IInv, OInv, UNCHANGED <<build, bufStart, mix, twice>>,
         \A e \in batch' : bufStart + inst'[e[2]].offset + inst'[e[2]].chunk <= inst'[e[2]].end,
         \A x \in mix : /\ fate'[x[1]] = fate[x[1]] /\ inst'[x[1]].end = inst[x[1]].end
                        /\ rtQueue'[x[2]] \subseteq rtQueue[x[2]]
                        /\ audioPc' = "play" => audioPc = "play" /\ playIdx' >= playIdx,
         playIdx' \in Nat, Emptied'
  PROVE  OInv'
<1> USE DEF OInv
<1>1. (MULTI_THREAD' <=> MULTI_THREAD) /\ bufEnd' = bufEnd
  BY DEF MULTI_THREAD, bufEnd
<1>2. Bounded' /\ \A x \in mix' : fate'[x[1]] # "none"
  BY DEF Bounded
<1>3. HeardOnce'
  <2>1. ASSUME NEW x \in mix, audioPc' = "play", MULTI_THREAD
        PROVE  \E n \in DOMAIN PlayOrder : n < playIdx' /\ x[2] = PlayOrder[n]
    <3>1. PICK n \in DOMAIN PlayOrder : n < playIdx /\ x[2] = PlayOrder[n]
      BY <2>1 DEF HeardOnce
    <3>2. n \in Nat /\ playIdx \in Nat /\ playIdx' >= playIdx
      BY <2>1, PlayOrderAssumption DEF IInv, TypeOK
    <3> QED
      BY <3>1, <3>2
  <2>2. ASSUME NEW x \in mix, audioPc' = "play", ~MULTI_THREAD
        PROVE  \A e \in rtQueue'[x[2]] : e[2] = x[1] => e[1] >= bufEnd
    BY <2>2 DEF HeardOnce
  <2> QED
    BY <1>1, <2>1, <2>2 DEF HeardOnce
<1> QED
  BY <1>2, <1>3

LEMMA ParserOnce ==
  ASSUME IInv, OInv, ParserStep
  PROVE  OInv'
<1> USE DEF OInv
<1>1. UNCHANGED <<build, audioPc, panic, bufStart, rtQueue, playIdx, batch, mix, twice>>
  BY DEF ParserStep, SetupFails, ConfigureFails, Insert, Create, ScoreEnds, Panic, PanicOver,
         sliceVars, playVars
<1>2. ASSUME NEW j \in Insts, fate[j] # "none"
      PROVE  inst'[j] = inst[j] /\ fate'[j] = fate[j]
  <2>1. CASE ScoreEnds \/ Panic \/ PanicOver
    BY <2>1 DEF ScoreEnds, Panic, PanicOver
  <2>2. ASSUME NEW i \in Insts, fate[i] = "none",
               UNCHANGED inst \/ \E r : inst' = [inst EXCEPT ![i] = r],
               UNCHANGED fate \/ \E v : fate' = [fate EXCEPT ![i] = v]
        PROVE  inst'[j] = inst[j] /\ fate'[j] = fate[j]
    BY <1>2, <2>2 DEF IInv, TypeOK
  <2>3. ASSUME NEW i \in Insts, SetupFails(i) \/ ConfigureFails(i)
        PROVE  inst'[j] = inst[j] /\ fate'[j] = fate[j]
    BY <2>2, <2>3 DEF SetupFails, ConfigureFails
  <2>4. ASSUME NEW i \in Insts, NEW s \in Slots, NEW t \in StartTimes, NEW d \in Durations,
               Create(i, s, t, d)
        PROVE  inst'[j] = inst[j] /\ fate'[j] = fate[j]
    BY <2>2, <2>4 DEF Create
  <2>5. ASSUME NEW i \in Insts, Insert(i)
        PROVE  inst'[j] = inst[j] /\ fate'[j] = fate[j]
    <3>1. fate[i] = "none"
      BY <2>5 DEF Insert, IInv, Places, Place
    <3> QED
      BY <2>2, <2>5, <3>1 DEF Insert
  <2> QED
    BY <2>1, <2>3, <2>4, <2>5 DEF ParserStep
<1>3. \A x \in mix : x[1] \in Insts
  BY DEF IInv, TypeOK
<1>4. \A e \in batch : inst'[e[2]] = inst[e[2]]
  <2>1. ASSUME NEW e \in batch PROVE e[2] \in Insts /\ fate[e[2]] # "none"
    <3>1. e[2] \in Insts /\ InBatch(e[2]) /\ Held(e[2])
      BY DEF IInv, TypeOK, InBatch, Held
    <3> QED
      BY <3>1 DEF IInv, Places, Place
  <2> QED
    BY <1>2, <2>1
<1>5. Emptied' /\ playIdx' \in Nat /\ playIdx' >= playIdx
  BY <1>1 DEF Emptied, IInv, TypeOK
<1>6. \A e \in batch' : bufStart + inst'[e[2]].offset + inst'[e[2]].chunk <= inst'[e[2]].end
  BY <1>1, <1>4 DEF Bounded
<1> QED
  BY <1>1, <1>2, <1>3, <1>5, <1>6, OnceFrame

LEMMA AudioQuietOnce ==
  ASSUME IInv, OInv, UNCHANGED build,
         BeginSlice \/ DrainDone \/ NextQueue \/ PlayDone \/ SendFails
           \/ ReadStatus \/ EndPanic \/ Return
  PROVE  OInv'
<1> USE DEF OInv
<1>1. UNCHANGED <<inst, fate, bufStart, rtQueue, batch, mix, twice>>
  BY DEF BeginSlice, DrainDone, NextQueue, PlayDone, SendFails, ReadStatus, EndPanic, Return,
         parserVars, sliceVars, playVars
<1>2. playIdx \in Nat /\ playIdx' \in Nat /\ (playIdx' >= playIdx \/ mix = {})
  <2>1. playIdx \in Nat /\ playIdx' \in {1, playIdx, playIdx + 1}
        /\ (playIdx' \in {playIdx, playIdx + 1} \/ mix = {})
    BY DEF BeginSlice, DrainDone, NextQueue, PlayDone, SendFails, ReadStatus, EndPanic, Return,
           playVars, Emptied, IInv, TypeOK
  <2> QED
    BY <2>1
<1>3. audioPc' = "play" => audioPc = "play" \/ mix = {}
  BY DEF BeginSlice, DrainDone, NextQueue, PlayDone, SendFails, ReadStatus, EndPanic, Return,
         Emptied
<1>4. Emptied'
  <2>1. CASE BeginSlice \/ DrainDone \/ ReadStatus \/ EndPanic \/ Return
    BY <1>1, <2>1 DEF BeginSlice, DrainDone, ReadStatus, EndPanic, Return, Emptied
  <2>2. CASE NextQueue \/ PlayDone \/ SendFails
    BY <1>1, <2>2 DEF NextQueue, PlayDone, SendFails, sliceVars, Emptied
  <2> QED
    BY <2>1, <2>2
<1>5. \A e \in batch' : bufStart + inst'[e[2]].offset + inst'[e[2]].chunk <= inst'[e[2]].end
  BY <1>1 DEF Bounded
<1> QED
  BY <1>1, <1>2, <1>3, <1>4, <1>5, OnceFrame

\* What the audio thread takes from the heap, or drops in a panic, it takes while nothing has
\* been heard in the slice.
LEMMA TakenOnce ==
  ASSUME IInv, OInv, UNCHANGED build,
         NEW e, DrainPanic(e) \/ DrainUnconfigured(e) \/ Drain(e) \/ PlayPanic(e)
  PROVE  OInv'
<1>1. /\ audioPc = "drain" \/ panic
      /\ UNCHANGED <<audioPc, panic, bufStart, playIdx, batch, mix, twice>>
  BY DEF DrainPanic, DrainUnconfigured, Drain, PlayPanic, sliceVars, playVars
<1>2. mix = {} /\ batch = {}
  BY <1>1 DEF OInv, Emptied, IInv, Batching
<1>3. Emptied' /\ playIdx' \in Nat
  BY <1>1, <1>2 DEF Emptied, IInv, TypeOK
<1> QED
  BY <1>1, <1>2, <1>3, OnceFrame

LEMMA GatherOnce ==
  ASSUME IInv, OInv, UNCHANGED build, NEW e, Gather(e)
  PROVE  OInv'
<1> USE DEF OInv
<1>1. /\ MULTI_THREAD /\ audioPc = "play" /\ playIdx <= Len(PlayOrder) /\ e \in rtQueue[busq]
      /\ rtQueue' = [rtQueue EXCEPT ![busq] = @ \ {e}]
      /\ inst' = [inst EXCEPT ![e[2]] = Popped(e)] /\ batch' = batch \cup {e}
      /\ UNCHANGED <<fate, audioPc, panic, bufStart, playIdx, mix, twice>>
  BY DEF Gather, parserVars, sliceVars, Least
<1>2. playIdx \in DOMAIN PlayOrder /\ busq \in Queues
  BY <1>1, Playing DEF IInv
<1>3. e[1] < bufEnd
  BY <1>1, <1>2 DEF IInv, Times, Early, busq
<1>4. /\ e \in Nat \X Insts /\ e[2] \in Insts /\ ~InBatch(e[2]) /\ inst[e[2]] \in InstType
      /\ inst[e[2]].refs = 2 + Cardinality(Queued(e[2]) \ {busq})
      /\ Cardinality(Queued(e[2]) \ {busq}) \in Nat
  BY <1>1, <1>3, AtTurn
<1>5. inst[e[2]].refs > 0 /\ bufStart \in Nat
  BY <1>4 DEF IInv, TypeOK
<1>6. PICK p : p = Popped(e)
  OBVIOUS
<1>7. p.end = inst[e[2]].end /\ bufStart + p.offset + p.chunk <= p.end
  BY <1>3, <1>4, <1>5, <1>6, PoppedFields, PoppedBounds
<1>8. inst'[e[2]] = p /\ \A j \in Insts \ {e[2]} : inst'[j] = inst[j]
  BY <1>1, <1>4, <1>6 DEF IInv, TypeOK
<1>9. \A f \in batch' : bufStart + inst'[f[2]].offset + inst'[f[2]].chunk <= inst'[f[2]].end
  <2>1. \A f \in batch : f[2] \in Insts \ {e[2]}
    BY <1>4 DEF IInv, TypeOK, InBatch
  <2> QED
    BY <1>1, <1>7, <1>8, <2>1 DEF Bounded
<1>10. \A x \in mix : inst'[x[1]].end = inst[x[1]].end /\ rtQueue'[x[2]] \subseteq rtQueue[x[2]]
  BY <1>1, <1>2, <1>7, <1>8 DEF IInv, TypeOK
<1>11. Emptied' /\ playIdx' \in Nat /\ playIdx' >= playIdx
  BY <1>1 DEF Emptied, IInv, TypeOK
<1> QED
  BY <1>1, <1>9, <1>10, <1>11, OnceFrame

LEMMA SendOnce ==
  ASSUME IInv, OInv, UNCHANGED build, Send
  PROVE  OInv'
<1>1. audioPc = "send" /\ audioPc' = "status" /\ mix' = {} /\ twice' = FALSE /\ UNCHANGED batch
  BY DEF Send
<1>2. batch = {}
  BY <1>1 DEF IInv, Batching
<1> QED
  BY <1>1, <1>2 DEF OInv, Emptied, Bounded, HeardOnce

\* One after the other: what was heard of the note on the bus was due before the entry
\* that is popped, so there is nothing of it, and the next entry begins a slice later.
LEMMA PlayNextOnce ==
  ASSUME IInv, OInv, Punctual, UNCHANGED build, NEW e, NEW cut \in BOOLEAN, PlayNext(e, cut)
  PROVE  OInv'
<1> USE DEF OInv
<1>1. PICK p : p = Popped(e)
  OBVIOUS
<1>2. PICK x : x = Exec(p, cut)
  OBVIOUS
<1>3. PICK y : y = Settled(x)
  OBVIOUS
<1> DEFINE i == e[2]
           rest == rtQueue[busq] \ {e}
           new == IF Requeued(x) THEN rest \cup {<<e[1] + x.chunk, i>>} ELSE rest
<1>4. /\ ~MULTI_THREAD /\ audioPc = "play" /\ playIdx <= Len(PlayOrder)
      /\ e \in rtQueue[busq] /\ e[1] < bufEnd /\ ~panic
      /\ rtQueue' = [rtQueue EXCEPT ![busq] = new] /\ inst' = [inst EXCEPT ![i] = y]
      /\ mix' = mix \cup Added(i, x) /\ twice' = (twice \/ Added(i, x) \cap mix # {})
      /\ fate' = [fate EXCEPT ![i] = IF cut THEN "cut" ELSE @]
      /\ UNCHANGED <<audioPc, panic, bufStart, playIdx, batch>>
  BY <1>1, <1>2, <1>3 DEF PlayNext, sliceVars, Ripe, Least
<1>5. /\ busq \in Queues /\ e \in Nat \X Insts /\ e[1] \in Nat /\ i \in Insts
      /\ bufStart <= e[1] /\ \A f \in rtQueue[busq] \ {e} : f[2] # i
      /\ inst[i] \in InstType /\ inst[i].refs = 2 + Cardinality(Queued(i) \ {busq})
      /\ Cardinality(Queued(i) \ {busq}) \in Nat /\ fate[i] \in {"timely", "late", "cut"}
  BY <1>4, AtTurn
<1>6. /\ inst[i].end \in Nat /\ inst[i].refs > 0
      /\ bufStart \in Nat /\ bufEnd \in Nat /\ bufEnd' = bufEnd
      /\ (MULTI_THREAD' <=> MULTI_THREAD) /\ batch = {}
  <2>1. inst[i].end \in Nat /\ inst[i].refs > 0
    BY <1>5 DEF InstType
  <2> QED
    BY <1>4, <2>1, SliceFacts DEF IInv, Batching, bufEnd, MULTI_THREAD
<1>7. /\ p \in InstType /\ p.end = inst[i].end /\ (p.needs <=> inst[i].needs)
      /\ p.chunk = ChunkSamps(e[1], inst[i].end)
      /\ bufStart + p.offset + p.chunk <= p.end
  BY <1>1, <1>4, <1>5, <1>6, PoppedFields, PoppedBounds
<1>8. /\ x \in InstType /\ x.chunk = p.chunk /\ x.offset = p.offset
      /\ cut /\ p.needs => x.end = 0
      /\ ~(cut /\ p.needs) => x.end = p.end
  BY <1>2, <1>5, <1>7, ExecFields
<1>9. y.end = x.end
  BY <1>3, <1>8, SettledFields
<1>10. ASSUME Requeued(x) PROVE e[1] + x.chunk = bufEnd
  <2>1. inst[i].end > bufEnd
    BY <1>6, <1>7, <1>8, <1>10 DEF Requeued
  <2>2. /\ e[1] \in Nat /\ inst[i].end \in Nat /\ bufStart \in Nat
        /\ e[1] < bufEnd /\ bufStart <= e[1]
    BY <1>4, <1>5, <1>6
  <2>3. e[1] + ChunkSamps(e[1], inst[i].end) = Onward(e[1]) /\ Onward(e[1]) = bufEnd
    BY <2>1, <2>2, Chunk
  <2> QED
    BY <1>7, <1>8, <2>3
<1>11. /\ rtQueue'[busq] = new /\ \A q \in Queues \ {busq} : rtQueue'[q] = rtQueue[q]
       /\ \A f \in new : f \in rest \/ f = <<bufEnd, i>>
  BY <1>4, <1>5, <1>10 DEF IInv, TypeOK
<1>12. /\ inst'[i] = y /\ \A j \in Insts \ {i} : inst'[j] = inst[j]
       /\ fate'[i] = (IF cut THEN "cut" ELSE fate[i])
       /\ \A j \in Insts \ {i} : fate'[j] = fate[j]
  BY <1>4, <1>5 DEF IInv, TypeOK
<1>13. /\ \A s \in Added(i, x) : /\ s[1] = i /\ s[2] = busq
                                 /\ s[3] \in Int /\ s[3] < x.offset + x.chunk
       /\ \A s, t \in Added(i, x) : s[3] = t[3] => s = t
  BY <1>8, AddedFrames
<1>14. \A s \in mix : ~(s[1] = i /\ s[2] = busq) /\ s[1] \in Insts /\ s[2] \in Queues
  <2>1. \A s \in mix : s[1] \in Insts /\ s[2] \in Queues
    BY DEF IInv, TypeOK
  <2>2. \A s \in mix : \A f \in rtQueue[s[2]] : f[2] = s[1] => f[1] >= bufEnd
    BY <1>4 DEF HeardOnce
  <2>3. e \in rtQueue[busq] /\ ~(e[1] >= bufEnd)
    BY <1>4, <1>5, <1>6
  <2>4. ASSUME NEW s \in mix, s[1] = i, s[2] = busq PROVE FALSE
    BY <2>2, <2>3, <2>4
  <2> QED
    BY <2>1, <2>4
<1> HIDE DEF new, rest
<1>15. Emptied' /\ \A s \in mix' : fate'[s[1]] # "none"
  BY <1>4, <1>5, <1>12, <1>13, <1>14 DEF Emptied
<1>16. Bounded'
  <2>1. ASSUME NEW s \in mix', fate'[s[1]] # "cut" PROVE bufStart + s[3] < inst'[s[1]].end
    <3>1. CASE s[1] = i
      <4>1. ~cut /\ inst'[i].end = inst[i].end /\ fate[i] # "cut"
        BY <1>7, <1>8, <1>9, <1>12, <2>1, <3>1
      <4>2. CASE s \in mix
        BY <2>1, <3>1, <4>1, <4>2 DEF Bounded
      <4>3. CASE s \in Added(i, x)
        <5>1. s[3] \in Int /\ s[3] < p.offset + p.chunk
          BY <1>8, <1>13, <4>3
        <5>2. p.offset \in Int /\ p.chunk \in Int /\ p.end \in Int
          BY <1>7 DEF InstType
        <5>3. bufStart + s[3] < p.end
          BY <1>6, <1>7, <5>1, <5>2
        <5> QED
          BY <1>7, <3>1, <4>1, <5>3
      <4> QED
        BY <1>4, <4>2, <4>3
    <3>2. CASE s[1] # i
      <4>1. s \in mix /\ s[1] \in Insts
        BY <1>4, <1>13, <1>14, <3>2
      <4> QED
        BY <1>12, <2>1, <3>2, <4>1 DEF Bounded
    <3> QED
      BY <3>1, <3>2
  <2> QED
    BY <1>4, <1>6, <2>1 DEF Bounded
<1>17. HeardOnce'
  <2>1. ~twice'
    BY <1>4, <1>13, <1>14 DEF HeardOnce
  <2>2. \A s, t \in mix' : s[1] = t[1] /\ s[2] = t[2] /\ s[3] = t[3] => s = t
    BY <1>4, <1>13, <1>14 DEF HeardOnce
  <2>3. ASSUME NEW s \in mix', NEW f \in rtQueue'[s[2]], f[2] = s[1] PROVE f[1] >= bufEnd
    <3>1. s[2] \in Queues
      BY <1>4, <1>5, <1>13, <1>14
    <3>2. CASE s[2] = busq /\ s[1] = i
      BY <1>5, <1>6, <1>11, <2>3, <3>2 DEF rest
    <3>3. CASE ~(s[2] = busq /\ s[1] = i)
      <4>1. s \in mix
        BY <1>4, <1>13, <3>3
      <4>2. f \in rtQueue[s[2]]
        BY <1>11, <2>3, <3>1, <3>3 DEF rest
      <4> QED
        BY <1>4, <2>3, <4>1, <4>2 DEF HeardOnce
    <3> QED
      BY <3>2, <3>3
  <2> QED
    BY <1>4, <1>6, <2>1, <2>2, <2>3 DEF HeardOnce
<1> QED
  BY <1>15, <1>16, <1>17

\* In parallel: each note of the batch adds one chunk to the bus, whose turn is over then;
\* what was heard before was heard on the buses before it.
LEMMA PlayBatchOnce ==
  ASSUME IInv, OInv, UNCHANGED build, NEW cuts, PlayBatch(cuts)
  PROVE  OInv'
<1> USE DEF OInv
<1> DEFINE B == {e[2] : e \in batch}
           x(i) == Exec(inst[i], i \in cuts)
           y(i) == Settled(x(i))
           new == {<<e[1] + x(e[2]).chunk, e[2]>> : e \in {f \in batch : Requeued(x(f[2]))}}
           added == UNION {Added(i, x(i)) : i \in B}
<1>1. /\ audioPc = "play" /\ playIdx <= Len(PlayOrder) /\ rtQueue[busq] = {} /\ batch # {}
      /\ cuts \subseteq B /\ batch' = {} /\ playIdx' = playIdx + 1
      /\ fate' = [i \in Insts |-> IF i \in cuts THEN "cut" ELSE fate[i]]
      /\ UNCHANGED <<audioPc, panic, bufStart>>
  BY BatchIsWholeQueue DEF IInv, PlayBatch, sliceVars
<1>2. /\ rtQueue' = [rtQueue EXCEPT ![busq] = @ \cup new]
      /\ inst' = [i \in Insts |-> IF i \in B THEN y(i) ELSE inst[i]]
      /\ mix' = mix \cup added
      /\ twice' = (twice \/ added \cap mix # {})
  <2> DEFINE r == [i \in B |-> x(i)]
             again == {e \in batch : Requeued(r[e[2]])}
             all == UNION {Added(i, r[i]) : i \in DOMAIN r}
  <2>1. /\ rtQueue' = [rtQueue EXCEPT ![busq] =
                         @ \cup {<<e[1] + r[e[2]].chunk, e[2]>> : e \in again}]
        /\ inst' = [i \in Insts |-> IF i \in DOMAIN r THEN Settled(r[i]) ELSE inst[i]]
        /\ mix' = mix \cup all
        /\ twice' = (twice \/ all \cap mix # {})
    BY DEF PlayBatch
  <2>2. DOMAIN r = B /\ \A i \in B : r[i] = x(i)
    OBVIOUS
  <2>3. \A e \in batch : e[2] \in B /\ r[e[2]] = x(e[2])
    OBVIOUS
  <2> HIDE DEF r, x, B
  <2>4. again = {f \in batch : Requeued(x(f[2]))}
    BY <2>3
  <2>5. {<<e[1] + r[e[2]].chunk, e[2]>> : e \in again} = new
    BY <2>3, <2>4
  <2>6. all = added
    BY <2>2
  <2>7. inst' = [i \in Insts |-> IF i \in B THEN y(i) ELSE inst[i]]
    BY <2>1, <2>2
  <2> HIDE DEF again, all, added, new
  <2> QED
    BY <2>1, <2>5, <2>6, <2>7
<1>3. /\ MULTI_THREAD /\ ~panic /\ (MULTI_THREAD' <=> MULTI_THREAD)
  BY <1>1 DEF IInv, Batching, MULTI_THREAD
<1>4. /\ busq \in Queues /\ playIdx \in DOMAIN PlayOrder /\ playIdx \in Nat
      /\ playIdx' \in Nat \ {0} /\ DOMAIN PlayOrder \subseteq Nat
  BY <1>1, Playing, PlayOrderAssumption DEF IInv, TypeOK
<1> HIDE DEF x, y
<1>5. \A i \in B : i \in Insts /\ inst[i] \in InstType /\ fate[i] # "none"
  <2>1. ASSUME NEW i \in B PROVE i \in Insts /\ fate[i] # "none"
    <3>1. i \in Insts /\ Held(i)
      BY DEF IInv, TypeOK, InBatch, Held
    <3> QED
      BY <3>1 DEF IInv, Places, Place
  <2> QED
    BY <2>1 DEF IInv, TypeOK
<1>6. ASSUME NEW i \in B
      PROVE  /\ x(i) \in InstType /\ y(i).end = x(i).end
             /\ i \notin cuts => x(i).end = inst[i].end
             /\ bufStart + x(i).offset + x(i).chunk <= inst[i].end
  <2>1. PICK c \in BOOLEAN : c <=> i \in cuts
    OBVIOUS
  <2>2. x(i) = Exec(inst[i], c) /\ inst[i] \in InstType
    BY <1>5, <2>1 DEF x
  <2>3. /\ x(i) \in InstType /\ x(i).chunk = inst[i].chunk /\ x(i).offset = inst[i].offset
        /\ ~c => x(i).end = inst[i].end
    BY <1>4, <2>2, ExecFields
  <2>4. y(i).end = x(i).end
    BY <2>3, SettledFields DEF y
  <2>5. bufStart + inst[i].offset + inst[i].chunk <= inst[i].end
    BY DEF Bounded
  <2> QED
    BY <2>1, <2>3, <2>4, <2>5
<1>7. \A s \in added : \E i \in B : s \in Added(i, x(i))
  OBVIOUS
<1>8. B \subseteq Insts
  BY <1>5
<1> HIDE DEF B, new, added
<1>9. ASSUME NEW s \in added
      PROVE  /\ s[1] \in B /\ s \in Added(s[1], x(s[1])) /\ s[2] = busq
             /\ s[3] \in Int /\ s[3] < x(s[1]).offset + x(s[1]).chunk
  <2>1. PICK i \in B : s \in Added(i, x(i))
    BY <1>7
  <2>2. x(i) \in InstType
    BY <1>6
  <2>3. s[1] = i /\ s[2] = busq /\ s[3] \in Int /\ s[3] < x(i).offset + x(i).chunk
    BY <2>1, <2>2, AddedFrames
  <2> QED
    BY <2>1, <2>3
<1>10. ASSUME NEW s \in mix PROVE s[2] # busq /\ s[1] \in Insts
  <2>1. PICK n \in DOMAIN PlayOrder : n < playIdx /\ s[2] = PlayOrder[n]
    BY <1>1, <1>3 DEF HeardOnce
  <2>2. n # playIdx
    BY <1>4, <2>1
  <2> QED
    BY <1>4, <2>1, <2>2, PlayOrderAssumption DEF busq, IInv, TypeOK
<1>11. /\ \A i \in B : inst'[i] = y(i)
       /\ \A i \in Insts \ B : inst'[i] = inst[i]
       /\ \A i \in Insts : fate'[i] = IF i \in cuts THEN "cut" ELSE fate[i]
  BY <1>1, <1>2, <1>8
<1>12. Emptied' /\ \A s \in mix' : fate'[s[1]] # "none"
  BY <1>1, <1>2, <1>3, <1>5, <1>9, <1>10, <1>11 DEF Emptied
<1>13. Bounded'
  <2>1. ASSUME NEW s \in mix', fate'[s[1]] # "cut" PROVE bufStart' + s[3] < inst'[s[1]].end
    <3>1. s[1] \in Insts /\ s[1] \notin cuts /\ fate'[s[1]] = fate[s[1]]
      BY <1>2, <1>8, <1>9, <1>10, <1>11, <2>1
    <3>2. inst'[s[1]].end = inst[s[1]].end
      BY <1>6, <1>11, <3>1
    <3>3. CASE s \in mix
      BY <1>1, <2>1, <3>1, <3>2, <3>3 DEF Bounded
    <3>4. CASE s \in added
      <4> DEFINE u == x(s[1])
      <4>1. /\ s[3] \in Int /\ s[3] < u.offset + u.chunk /\ u \in InstType
            /\ bufStart + u.offset + u.chunk <= inst[s[1]].end
        BY <1>6, <1>9, <3>4
      <4>2. u.offset \in Int /\ u.chunk \in Int /\ bufStart \in Nat /\ inst[s[1]].end \in Nat
        BY <3>1, <4>1 DEF IInv, TypeOK, InstType
      <4> HIDE DEF u
      <4>3. bufStart + s[3] < inst[s[1]].end
        BY <4>1, <4>2
      <4> QED
        BY <1>1, <3>2, <4>3
    <3> QED
      BY <1>2, <3>3, <3>4
  <2> QED
    BY <1>1, <2>1 DEF Bounded
<1>14. HeardOnce'
  <2>1. ~twice'
    BY <1>2, <1>9, <1>10 DEF HeardOnce
  <2>2. ASSUME NEW s \in mix', NEW t \in mix', s[1] = t[1], s[2] = t[2], s[3] = t[3]
        PROVE  s = t
    <3>1. CASE s \in mix /\ t \in mix
      BY <2>2, <3>1 DEF HeardOnce
    <3>2. CASE s \in added /\ t \in added
      <4>1. s \in Added(s[1], x(s[1])) /\ t \in Added(s[1], x(s[1])) /\ x(s[1]) \in InstType
        BY <1>6, <1>9, <2>2, <3>2
      <4> QED
        BY <2>2, <4>1, AddedFrames
    <3> QED
      BY <1>2, <1>9, <1>10, <2>2, <3>1, <3>2
  <2>3. ASSUME NEW s \in mix'
        PROVE  \E n \in DOMAIN PlayOrder : n < playIdx' /\ s[2] = PlayOrder[n]
    <3>1. CASE s \in mix
      <4>1. PICK n \in DOMAIN PlayOrder : n < playIdx /\ s[2] = PlayOrder[n]
        BY <1>1, <1>3, <3>1 DEF HeardOnce
      <4> QED
        BY <1>1, <1>4, <4>1
    <3>2. CASE s \in added
      BY <1>1, <1>4, <1>9, <3>2 DEF busq
    <3> QED
      BY <1>2, <3>1, <3>2
  <2> QED
    BY <1>3, <2>1, <2>2, <2>3 DEF HeardOnce
<1> QED
  BY <1>12, <1>13, <1>14

LEMMA InitOnce ==
  ASSUME Init
  PROVE  OInv
BY DEF Init, OInv, Emptied, Bounded, HeardOnce

LEMMA StepOnce ==
  ASSUME IInv, Careful, OInv, [Next]_vars
  PROVE  OInv'
<1>1. CASE ParserStep
  BY <1>1, ParserOnce
<1>2. CASE AudioTurn /\ AudioStep
  <2>1. UNCHANGED build
    BY <1>2 DEF AudioStep
  <2>2. CASE BeginSlice \/ DrainDone \/ NextQueue \/ PlayDone \/ SendFails
               \/ ReadStatus \/ EndPanic \/ Return
    BY <2>1, <2>2, AudioQuietOnce
  <2>3. CASE Send
    BY <2>1, <2>3, SendOnce
  <2>4. ASSUME NEW e, DrainPanic(e) \/ DrainUnconfigured(e) \/ Drain(e) \/ PlayPanic(e)
                      \/ Gather(e)
        PROVE  OInv'
    BY <2>1, <2>4, TakenOnce, GatherOnce
  <2>5. ASSUME NEW e, NEW cut \in BOOLEAN, PlayNext(e, cut) PROVE OInv'
    <3>1. Punctual
      BY <2>5 DEF PlayNext, Careful
    <3> QED
      BY <2>1, <2>5, <3>1, PlayNextOnce
  <2>6. CASE \E cuts \in SUBSET Insts : PlayBatch(cuts)
    BY <2>1, <2>6, PlayBatchOnce
  <2> QED
    BY <1>2, <2>2, <2>3, <2>4, <2>5, <2>6 DEF AudioStep
<1>3. CASE Shutdown \/ UNCHANGED vars
  <2>1. UNCHANGED <<build, inst, fate, audioPc, panic, bufStart, rtQueue, playIdx, batch, mix,
                    twice>>
    BY <1>3 DEF Shutdown, vars, parserVars, statusVars, sliceVars, playVars
  <2>2. Emptied' /\ playIdx' \in Nat /\ playIdx' >= playIdx
    BY <2>1 DEF OInv, Emptied, IInv, TypeOK
  <2>3. \A e \in batch' : bufStart + inst'[e[2]].offset + inst'[e[2]].chunk <= inst'[e[2]].end
    BY <2>1 DEF OInv, Bounded
  <2> QED
    BY <2>1, <2>2, <2>3, OnceFrame
<1> QED
  BY <1>1, <1>2, <1>3 DEF Next, Finished

\* A note is run once in a slice, for all of its buses, and never beyond its end: no bus
\* gets two of its samples at one frame, or one sample twice, however late it was inserted
\* (chunkStart, Instrument::exec, addout), if the tasks of a bus run in parallel; in the
\* single-threaded build, if no note is late.
THEOREM NotesAreNeverOverrun == Spec => [](Careful => NoteNeverOverrun)
<1> DEFINE J == Careful => IInv /\ OInv
<1>1. Init => J
  BY InitInv, InitOnce
<1>2. J /\ [Next]_vars => J'
  <2>1. [Next]_vars => build' = build
    BY DEF Next, ParserStep, AudioStep, Shutdown, Finished, vars
  <2>2. [Next]_vars => (Careful' <=> Careful)
    BY <2>1 DEF Punctual, Careful, MULTI_THREAD
  <2> QED
    BY <2>2, StepInv, StepOnce
<1>3. J => (Careful => NoteNeverOverrun)
  BY DEF OInv, Bounded, HeardOnce, NoteNeverOverrun
<1> HIDE DEF J
<1> QED
  BY <1>1, <1>2, <1>3, PTL DEF Spec
=============================================================================
