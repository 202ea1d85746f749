--------------------------- MODULE SchedulerProof ---------------------------
(***************************************************************************)
(* An instrument lives exactly as long as a list of the scheduler holds    *)
(* it, and waits between slices on all of its buses or on none: for any    *)
(* number of instruments and buses, any slots, times and slices, in scores *)
(* and in sessions, and whatever fails, as long as no note is late or the  *)
(* late ones are played by the multi-threaded build.                       *)
(*                                                                         *)
(* An instrument has one position, the start of its next chunk (At): its   *)
(* entry on a queue is due in the slice until the walk has passed that     *)
(* queue, and is put at the next chunk then, which for a late note may     *)
(* still begin before the end of the slice (Onward).  So the buses on      *)
(* which an instrument still waits in the slice tell which ones it has     *)
(* written, whether it is to be run at the next, and, if it ends in the    *)
(* slice, which references are left (Place).                               *)
(***************************************************************************)
EXTENDS Scheduler, FiniteSetTheorems, NaturalsInduction, WellFoundedInduction, TLAPS

\* No note is late: the parser is not preempted for a slice within a note, or it has
\* parsed the score before the audio starts.
Punctual == build \in Timely \/ ~INTERACTIVE

\* Or the walk goes past a queue on which something ripe was requeued.  (The
\* single-threaded walk plays a late note there again before its other buses.)
Careful == Punctual \/ MULTI_THREAD

Early(q) == \A e \in rtQueue[q] : e[1] < bufEnd
Late(q)  == \A e \in rtQueue[q] : e[1] >= bufEnd

\* Between the walks of two slices.
Rest == {"idle", "status", "calm", "return"}

\* The walk of the slice has left the queue behind.
Passed(q) ==
  /\ ~panic
  /\ \/ audioPc = "send"
     \/ audioPc = "play" /\ \E n \in DOMAIN PlayOrder : n < playIdx /\ q = PlayOrder[n]

\* The entry is to be played in the slice.
Due(e, q) == e[1] < bufEnd /\ ~Passed(q)

\* Where the chunk ends that begins at s: a late one has the length of a slice.
Onward(s) == IF s < bufStart THEN s + FrameCount ELSE bufEnd

Parsing ==
  /\ cur # {} => parserPc = "insert"
  /\ \A i, j \in cur : i = j
  /\ Punctual /\ parserPc = "insert" /\ INTERACTIVE => \A i \in cur : inst[i].start >= bufEnd
  /\ ~INTERACTIVE /\ parserPc # "done" => audioPc = "idle" /\ bufStart = 0

\* Before the walk everything that is queued is due in the slice; after it nothing is,
\* unless it is late.
Times ==
  /\ \A q \in Queues : \A e \in rtQueue[q] : e[1] <= bufEnd
  /\ \/ audioPc \in {"idle", "drain", "status", "calm", "return"}
     \/ audioPc = "play" /\ panic
     => \A q \in Queues : Early(q)
  /\ audioPc = "drain" => playIdx = 1
  /\ audioPc = "send" /\ (Punctual \/ panic) => \A q \in Queues : Late(q)
  /\ audioPc = "play" =>
       \A n \in DOMAIN PlayOrder :
         /\ n < playIdx /\ (Punctual \/ panic) => Late(PlayOrder[n])
         /\ n > playIdx \/ (n = playIdx /\ MULTI_THREAD) => Early(PlayOrder[n])

\* If no note is late, whatever is scheduled begins in the slice or after it.
OnTime == Punctual =>
  /\ \A e \in rtHeap : e[1] >= IF audioPc \in {"play", "send"} THEN bufEnd ELSE bufStart
  /\ \A q \in Queues : \A e \in rtQueue[q] : bufStart <= e[1]
  /\ \A e \in batch : bufStart <= e[1]
  /\ audioPc \in Rest => \A q \in Queues : \A e \in rtQueue[q] : e[1] = bufStart

OneEach ==
  /\ \A e, f \in rtHeap : e[2] = f[2] => e = f
  /\ \A q \in Queues : \A e, f \in rtQueue[q] : e[2] = f[2] => e = f
  /\ \A e, f \in batch : e[2] = f[2] => e = f

\* What the tasks of a batch have been told.
Batching ==
  /\ batch # {} => /\ audioPc = "play" /\ playIdx \in DOMAIN PlayOrder
                   /\ MULTI_THREAD /\ ~panic
  /\ \A e \in batch :
       /\ \A f \in rtQueue[busq] : f[2] # e[2]
       /\ e[1] < bufEnd
       /\ inst[e[2]].end > bufEnd => e[1] + inst[e[2]].chunk = Onward(e[1])
       /\ inst[e[2]].offset + inst[e[2]].chunk <= FrameCount

\* The buses that are still to come in the slice.
Ahead(i) == {q \in Queues : \E e \in rtQueue[q] : e[2] = i /\ Due(e, q)}
Waits(i) == Ahead(i) \cup {q \in Queues : InBatch(i) /\ q = busq}

Held(i) == Queued(i) # {} \/ InBatch(i)

\* The position of an instrument is s, on every bus.
At(i, s) ==
  /\ \A q \in Queues : \A e \in rtQueue[q] :
       e[2] = i => e[1] = IF Due(e, q) THEN s ELSE Onward(s)
  /\ \A e \in batch : e[2] = i => e[1] = s

\* An instrument that is on the queues Q and waits on the buses W: nothing was written
\* in the slice, or what is behind; one that goes on is queued again.
Rested(r, W) == W = r.slot /\ r.needs

Walked(r, Q, W) ==
  /\ W # r.slot /\ r.written = r.slot \ W /\ (r.needs <=> W = {})
  /\ r.end > bufEnd => Q \cup W = r.slot
  /\ r.end <= bufEnd => Q \subseteq W

Phase(r, Q, W) == Rested(r, W) \/ Walked(r, Q, W)

\* What a slice makes of an instrument that is held.
InSlice(i) ==
  /\ Waits(i) \subseteq inst[i].slot
  /\ \E s \in Nat : At(i, s)
  /\ IF fate[i] = "panicked"
     THEN audioPc = "play" /\ panic /\ Queued(i) \subseteq Ahead(i)
     ELSE /\ Phase(inst[i], Queued(i), Waits(i))
          /\ audioPc \in Rest \cup {"drain"} => Rested(inst[i], Waits(i))

\* Where an instrument is, and what it owns there.
Place(i) ==
  /\ i \in cur \/ InHeap(i) =>
       /\ ~Held(i) /\ inst[i].alive /\ inst[i].refs = 1 /\ inst[i].needs
       /\ inst[i].slot \in Slots
  /\ i \in cur => ~InHeap(i) /\ fate[i] = "none"
  /\ InHeap(i) => fate[i] = "scheduled"
  /\ Held(i) =>
       /\ fate[i] \in {"timely", "late", "cut", "panicked"}
       /\ inst[i].slot \in Slots /\ Queued(i) \subseteq inst[i].slot
       /\ inst[i].alive /\ inst[i].refs = 1 + Cardinality(Queued(i))
       /\ audioPc # "stopped" => InSlice(i)
  /\ i \notin cur /\ ~InHeap(i) /\ ~Held(i) =>
       \/ ~inst[i].alive
       \/ fate[i] = "panicked"
       \/ fate[i] = "failed" /\ INTERACTIVE

Places == \A i \in Insts : Place(i)

IInv == TypeOK /\ Parsing /\ Times /\ OnTime /\ OneEach /\ Batching /\ Places

-----------------------------------------------------------------------------
(* Times and counts.                                                       *)

\* Least start times exist: a set of ripe entries is empty only if nothing in the
\* queue is due (heap::deleteMin and RTQueue::nextChunk look at the least only).
LEMMA RipeEmpty ==
  ASSUME NEW S, S \subseteq Nat \X Insts, bufStart \in Nat, Ripe(S) = {}
  PROVE  \A e \in S : e[1] >= bufEnd
<1> DEFINE T == {e[1] : e \in S}
<1>1. SUFFICES ASSUME NEW d \in S PROVE d[1] >= bufEnd
  OBVIOUS
<1>2. T \subseteq Nat /\ d[1] \in T
  OBVIOUS
<1>3. PICK m \in T : \A n \in T : m <= n
  <2>1. PICK R : /\ IsWellFoundedOn(R, Nat)
                 /\ R = {ss \in Nat \X Nat : ss[1] < ss[2]}
    BY NatLessThanWellFounded DEF OpToRel
  <2>2. T \subseteq Nat /\ T # {}
    BY <1>2
  <2>3. PICK x \in T : \A y \in T : <<y, x>> \notin R
    <3> HIDE DEF T
    <3> QED
      BY <2>1, <2>2, WFMin
  <2>4. ASSUME NEW y \in T PROVE x <= y
    <3>1. x \in Nat /\ y \in Nat
      BY <2>2
    <3>2. ~(y < x)
      BY <2>1, <2>3, <3>1
    <3> QED
      BY <3>1, <3>2
  <2> QED
    BY <2>3, <2>4
<1>4. PICK e \in S : e[1] = m
  OBVIOUS
<1>5. \A f \in S : e[1] <= f[1]
  BY <1>3, <1>4
<1>6. e \in Least(S)
  BY <1>5 DEF Least
<1>7. ~(e[1] < bufEnd)
  BY <1>6 DEF Ripe
<1> QED
  <2>1. m <= d[1] /\ m \in Nat /\ d[1] \in Nat
    BY <1>2, <1>3
  <2>2. bufEnd \in Nat
    BY FrameAssumption DEF bufEnd
  <2> QED
    BY <1>4, <1>7, <2>1, <2>2

LEMMA QueuesFinite == IsFiniteSet(Queues)
<1> DEFINE D == 1 .. Len(PlayOrder)
<1>1. PlayOrder \in [D -> Queues] /\ D = DOMAIN PlayOrder /\ Len(PlayOrder) \in Nat
  BY PlayOrderAssumption
<1>2. IsFiniteSet(D)
  BY <1>1, FS_Interval
<1>3. PlayOrder \in Surjection(D, Queues)
  BY <1>1 DEF Surjection, Queues
<1> QED
  BY <1>2, <1>3, FS_Surjection

\* One queue more, or one less.
LEMMA Counts ==
  ASSUME NEW S, S \subseteq Queues, NEW q \in Queues
  PROVE  /\ Cardinality(S) \in Nat
         /\ q \notin S => Cardinality(S \cup {q}) = Cardinality(S) + 1
         /\ q \in S => Cardinality(S) = Cardinality(S \ {q}) + 1
         /\ S = {} <=> Cardinality(S) = 0
<1>1. IsFiniteSet(S)
  BY QueuesFinite, FS_Subset
<1>2. Cardinality(S) \in Nat /\ Cardinality(S \ {q}) \in Nat
  BY <1>1, FS_CardinalityType, FS_Subset
<1>3. q \in S => Cardinality(S \ {q}) = Cardinality(S) - 1
  BY <1>1, FS_RemoveElement
<1> QED
  BY <1>1, <1>2, <1>3, FS_AddElement, FS_EmptySet

LEMMA SlotFacts ==
  ASSUME NEW s \in Slots PROVE s # {} /\ s \subseteq Queues /\ Cardinality(s) \in Nat \ {0}
<1>1. s # {} /\ s \subseteq Queues
  BY SlotAssumption
<1>2. PICK q \in Queues : TRUE
  BY <1>1
<1> QED
  BY <1>1, <1>2, Counts

\* ChunkSamps: the chunk fits into the slice, and ends where Onward tells if the note
\* goes on.
LEMMA Chunk ==
  ASSUME NEW s \in Nat, NEW end \in Nat, bufStart \in Nat, s < bufEnd
  PROVE  /\ ChunkSamps(s, end) \in Int
         /\ end > bufEnd => s + ChunkSamps(s, end) = Onward(s)
         /\ Offset(s) \in 0 .. FrameCount - 1
         /\ Offset(s) + ChunkSamps(s, end) <= FrameCount
         /\ bufStart <= s => /\ ChunkSamps(s, end) = Min2(end, bufEnd) - s
                             /\ Offset(s) = s - bufStart
         /\ Onward(s) \in Nat /\ Onward(s) <= bufEnd
         /\ bufStart <= s => Onward(s) = bufEnd
<1>1. FrameCount \in Nat /\ FrameCount > 0 /\ bufEnd = bufStart + FrameCount
  BY FrameAssumption DEF bufEnd
<1>2. CASE bufStart <= s
  <2>1. Min2(end, bufEnd) \in Nat /\ Min2(end, bufEnd) <= bufEnd
        /\ (end > bufEnd => Min2(end, bufEnd) = bufEnd)
    BY <1>1 DEF Min2
  <2>2. Offset(s) = s - bufStart /\ Onward(s) = bufEnd
    BY <1>1, <1>2 DEF Offset, Onward
  <2>3. ChunkSamps(s, end) = Min2(end, bufEnd) - s
    BY <1>1, <1>2, <2>1, <2>2 DEF ChunkSamps
  <2> QED
    BY <1>1, <1>2, <2>1, <2>2, <2>3
<1>3. CASE s < bufStart
  <2> DEFINE late == end + (s - bufStart)
             samps == Min2(late, bufEnd) - s
  <2>1. late \in Int /\ samps \in Int /\ (end > bufEnd => samps > FrameCount \/ samps = FrameCount)
    BY <1>1, <1>3 DEF Min2
  <2>2. Offset(s) = 0 /\ Onward(s) = s + FrameCount
    BY <1>3 DEF Offset, Onward
  <2>3. ChunkSamps(s, end) = IF samps > FrameCount THEN FrameCount ELSE samps
    <3>1. ChunkSamps(s, end) = CASE samps > FrameCount -> FrameCount
                                 [] samps + Offset(s) > FrameCount -> FrameCount - Offset(s)
                                 [] OTHER -> samps
      BY <1>3 DEF ChunkSamps
    <3> HIDE DEF samps
    <3> QED
      BY <1>1, <2>1, <2>2, <3>1
  <2> HIDE DEF samps
  <2> QED
    BY <1>1, <1>3, <2>1, <2>2, <2>3
<1> QED
  BY <1>1, <1>2, <1>3

-----------------------------------------------------------------------------
(* What the operations do to an instrument's members.                      *)

LEMMA RefFields ==
  ASSUME NEW r \in InstType, NEW n \in Nat
  PROVE  /\ Ref(r, n) \in InstType /\ Ref(r, n).refs = r.refs + n
         /\ (Ref(r, n).alive <=> r.alive) /\ Ref(r, n).slot = r.slot
         /\ Ref(r, n).start = r.start /\ Ref(r, n).end = r.end
         /\ (Ref(r, n).needs <=> r.needs) /\ Ref(r, n).written = r.written
         /\ Ref(r, n).chunk = r.chunk /\ Ref(r, n).offset = r.offset
         /\ Ref(r, n).cursamp = r.cursamp /\ Ref(r, n).out = r.out
BY DEF Ref, InstType

LEMMA UnrefFields ==
  ASSUME NEW r \in InstType, NEW n \in Nat, n <= r.refs
  PROVE  /\ Unref(r, n) \in InstType /\ Unref(r, n).refs = r.refs - n
         /\ (Unref(r, n).alive <=> r.refs > n) /\ Unref(r, n).slot = r.slot
         /\ Unref(r, n).start = r.start /\ Unref(r, n).end = r.end
         /\ (Unref(r, n).needs <=> r.needs) /\ Unref(r, n).written = r.written
         /\ Unref(r, n).chunk = r.chunk /\ Unref(r, n).offset = r.offset
         /\ Unref(r, n).cursamp = r.cursamp /\ Unref(r, n).out = r.out
<1> DEFINE a == r.refs > n
           m == r.refs - n
<1>1. a \in BOOLEAN /\ m \in Nat
  BY DEF InstType
<1>2. Unref(r, n) = [r EXCEPT !.refs = m, !.alive = a]
  BY DEF Unref, InstType
<1> HIDE DEF a, m
<1>3. /\ Unref(r, n) \in InstType /\ Unref(r, n).refs = m
      /\ (Unref(r, n).alive <=> a) /\ Unref(r, n).slot = r.slot
      /\ Unref(r, n).start = r.start /\ Unref(r, n).end = r.end
      /\ (Unref(r, n).needs <=> r.needs) /\ Unref(r, n).written = r.written
      /\ Unref(r, n).chunk = r.chunk /\ Unref(r, n).offset = r.offset
      /\ Unref(r, n).cursamp = r.cursamp /\ Unref(r, n).out = r.out
  BY <1>1, <1>2 DEF InstType
<1> QED
  BY <1>3 DEF a, m

LEMMA PoppedFields ==
  ASSUME NEW e \in Nat \X Insts, inst[e[2]] \in InstType, inst[e[2]].refs > 0,
         bufStart \in Nat, e[1] < bufEnd
  PROVE  LET r == inst[e[2]]
             p == Popped(e)
         IN /\ p \in InstType /\ p.refs = r.refs - 1 /\ (p.alive <=> r.refs > 1)
            /\ p.slot = r.slot /\ p.start = r.start /\ p.end = r.end
            /\ (p.needs <=> r.needs) /\ p.written = r.written
            /\ p.cursamp = r.cursamp /\ p.out = r.out
            /\ p.chunk = ChunkSamps(e[1], r.end) /\ p.offset = Offset(e[1])
<1> DEFINE r == inst[e[2]]
           u == Unref(r, 1)
<1>1. e[1] \in Nat /\ r.end \in Nat /\ r.refs \in Nat
  BY DEF InstType
<1>2. ChunkSamps(e[1], r.end) \in Int /\ Offset(e[1]) \in 0 .. FrameCount - 1
  BY <1>1, Chunk
<1>3. /\ u \in InstType /\ u.refs = r.refs - 1 /\ (u.alive <=> r.refs > 1)
      /\ u.slot = r.slot /\ u.start = r.start /\ u.end = r.end
      /\ (u.needs <=> r.needs) /\ u.written = r.written
      /\ u.cursamp = r.cursamp /\ u.out = r.out
  BY <1>1, UnrefFields
<1>4. Popped(e) = [u EXCEPT !.chunk = ChunkSamps(e[1], r.end), !.offset = Offset(e[1])]
  BY DEF Popped
<1> HIDE DEF u, r
<1>5. /\ Popped(e) \in InstType /\ Popped(e).refs = u.refs /\ (Popped(e).alive <=> u.alive)
      /\ Popped(e).slot = u.slot /\ Popped(e).start = u.start /\ Popped(e).end = u.end
      /\ (Popped(e).needs <=> u.needs) /\ Popped(e).written = u.written
      /\ Popped(e).cursamp = u.cursamp /\ Popped(e).out = u.out
      /\ Popped(e).chunk = ChunkSamps(e[1], r.end) /\ Popped(e).offset = Offset(e[1])
  BY <1>2, <1>3, <1>4 DEF InstType
<1> QED
  BY <1>3, <1>5 DEF r

LEMMA ExecFields ==
  ASSUME NEW r \in InstType, NEW cut \in BOOLEAN, busq \in Queues
  PROVE  LET x == Exec(r, cut)
         IN /\ x \in InstType /\ x.refs = r.refs /\ (x.alive <=> r.alive)
            /\ x.slot = r.slot /\ x.start = r.start
            /\ x.chunk = r.chunk /\ x.offset = r.offset
            /\ cut /\ r.needs => x.end = 0
            /\ ~(cut /\ r.needs) => x.end = r.end
            /\ r.needs => /\ x.written = {busq} /\ x.out = r.cursamp
                          /\ x.cursamp = r.cursamp + (IF r.chunk > 0 THEN r.chunk ELSE 0)
            /\ ~r.needs => /\ x.written = r.written \cup {busq}
                           /\ x.out = r.out /\ x.cursamp = r.cursamp
            /\ (x.needs <=> x.written = r.slot)
<1> DEFINE u == Run(r, cut)
           w == u.written \cup {busq}
           b == w = r.slot
           n == r.cursamp + (IF r.chunk > 0 THEN r.chunk ELSE 0)
<1>1. n \in Nat
  BY DEF InstType
<1> HIDE DEF n
<1>2. /\ u \in InstType /\ u.refs = r.refs /\ (u.alive <=> r.alive)
      /\ u.slot = r.slot /\ u.start = r.start
      /\ u.chunk = r.chunk /\ u.offset = r.offset /\ ~u.needs
      /\ cut /\ r.needs => u.end = 0
      /\ ~(cut /\ r.needs) => u.end = r.end
      /\ r.needs => u.written = {} /\ u.out = r.cursamp /\ u.cursamp = n
      /\ ~r.needs => u.written = r.written /\ u.out = r.out /\ u.cursamp = r.cursamp
  <2>1. CASE r.needs
    <3> DEFINE x == IF cut THEN 0 ELSE r.end
    <3>1. x \in Nat
      BY DEF InstType
    <3>2. u = [r EXCEPT !.out = r.cursamp, !.cursamp = n, !.written = {},
                        !.needs = FALSE, !.end = x]
      BY <2>1 DEF Run, n
    <3> HIDE DEF x, u
    <3>3. /\ u \in InstType /\ u.refs = r.refs /\ (u.alive <=> r.alive)
          /\ u.slot = r.slot /\ u.start = r.start
          /\ u.chunk = r.chunk /\ u.offset = r.offset
          /\ u.end = x /\ u.written = {} /\ ~u.needs
          /\ u.out = r.cursamp /\ u.cursamp = n
      BY <1>1, <3>1, <3>2 DEF InstType
    <3> QED
      BY <2>1, <3>3 DEF x
  <2>2. CASE ~r.needs
    BY <2>2 DEF Run, InstType
  <2> QED
    BY <2>1, <2>2
<1>3. Exec(r, cut) = [u EXCEPT !.written = w, !.needs = b]
  BY <1>2 DEF Exec, AddOut
<1>4. w \in SUBSET Queues /\ b \in BOOLEAN
  BY <1>2 DEF InstType
<1> HIDE DEF u, w, b
<1>5. /\ Exec(r, cut) \in InstType /\ Exec(r, cut).refs = u.refs
      /\ (Exec(r, cut).alive <=> u.alive)
      /\ Exec(r, cut).slot = u.slot /\ Exec(r, cut).start = u.start
      /\ Exec(r, cut).chunk = u.chunk /\ Exec(r, cut).offset = u.offset
      /\ Exec(r, cut).end = u.end /\ Exec(r, cut).written = w
      /\ (Exec(r, cut).needs <=> b)
      /\ Exec(r, cut).out = u.out /\ Exec(r, cut).cursamp = u.cursamp
  BY <1>2, <1>3, <1>4 DEF InstType
<1>6. (r.needs => w = {busq}) /\ (~r.needs => w = r.written \cup {busq})
      /\ (b <=> w = r.slot)
  BY <1>2 DEF w, b
<1> QED
  BY <1>2, <1>5, <1>6 DEF n

-----------------------------------------------------------------------------
(* What an instrument's place depends on.                                  *)

LEMMA Playing ==
  ASSUME TypeOK, playIdx <= Len(PlayOrder)
  PROVE  playIdx \in DOMAIN PlayOrder /\ busq \in Queues
<1>1. Len(PlayOrder) \in Nat /\ DOMAIN PlayOrder = 1 .. Len(PlayOrder)
  BY PlayOrderAssumption
<1>2. playIdx \in DOMAIN PlayOrder
  BY <1>1 DEF TypeOK
<1> QED
  BY <1>2 DEF busq, Queues

\* A queue is passed only after its turn.
LEMMA AtTurnDue ==
  ASSUME TypeOK, audioPc = "play", playIdx \in DOMAIN PlayOrder
  PROVE  ~Passed(busq) /\ \A e : Due(e, busq) <=> e[1] < bufEnd
<1>1. \A n \in DOMAIN PlayOrder : n < playIdx => PlayOrder[n] # busq
  <2>1. \A n \in DOMAIN PlayOrder : n < playIdx => n # playIdx
    BY PlayOrderAssumption
  <2> QED
    BY <2>1, PlayOrderAssumption DEF busq
<1>2. ~Passed(busq)
  BY <1>1 DEF Passed
<1> QED
  BY <1>2 DEF Due

LEMMA DueFrame ==
  ASSUME bufStart' = bufStart,
         \/ UNCHANGED <<audioPc, panic, playIdx>>
         \/ audioPc \in Rest \cup {"drain"} /\ audioPc' \in Rest \cup {"drain"}
  PROVE  \A q \in Queues : \A e : Due(e, q)' <=> Due(e, q)
<1>1. bufEnd' = bufEnd
  BY DEF bufEnd
<1>2. \A q \in Queues : Passed(q)' <=> Passed(q)
  BY DEF Passed, Rest
<1> QED
  BY <1>1, <1>2 DEF Due

\* When the walk goes on to the next queue, only the one it leaves is affected.
LEMMA Passing ==
  ASSUME TypeOK, audioPc = "play", playIdx \in DOMAIN PlayOrder, playIdx' = playIdx + 1,
         UNCHANGED <<audioPc, panic, bufStart>>
  PROVE  \A q \in Queues : /\ q # busq => \A e : Due(e, q)' <=> Due(e, q)
                           /\ q = busq /\ ~panic => \A e : ~Due(e, q)'
<1>1. bufEnd' = bufEnd
  BY DEF bufEnd
<1>2. \A n \in DOMAIN PlayOrder : n < playIdx + 1 <=> n < playIdx \/ n = playIdx
  BY PlayOrderAssumption DEF TypeOK
<1>3. \A q \in Queues : Passed(q)' <=> Passed(q) \/ (q = busq /\ ~panic)
  BY <1>2 DEF Passed, busq
<1> QED
  BY <1>1, <1>3 DEF Due

\* Neither do the steps of the walk that play nothing make an entry due, nor are they past one
\* that is.
LEMMA WalkDue ==
  ASSUME TypeOK, Times, DrainDone \/ NextQueue \/ PlayDone
  PROVE  \A q \in Queues : \A e \in rtQueue[q] : Due(e, q)' <=> Due(e, q)
<1>1. bufEnd' = bufEnd /\ panic' = panic
  BY DEF DrainDone, NextQueue, PlayDone, sliceVars, bufEnd
<1>2. CASE DrainDone
  <2>1. audioPc = "drain" /\ audioPc' = "play" /\ playIdx' = playIdx /\ playIdx = 1
    BY <1>2 DEF DrainDone, Times, playVars
  <2>2. \A n \in DOMAIN PlayOrder : ~(n < playIdx)
    BY <2>1, PlayOrderAssumption
  <2> QED
    BY <1>1, <2>1, <2>2 DEF Due, Passed
<1>3. CASE NextQueue
  <2>1. /\ audioPc = "play" /\ playIdx <= Len(PlayOrder) /\ playIdx' = playIdx + 1
        /\ Ripe(rtQueue[busq]) = {} /\ UNCHANGED <<audioPc, panic, bufStart>>
    BY <1>3 DEF NextQueue, sliceVars
  <2>2. playIdx \in DOMAIN PlayOrder /\ busq \in Queues
    BY <2>1, Playing
  <2>3. \A e \in rtQueue[busq] : e[1] \in Nat /\ e[1] >= bufEnd
    <3>1. rtQueue[busq] \subseteq Nat \X Insts /\ bufStart \in Nat
      BY <2>2 DEF TypeOK
    <3>2. \A e \in rtQueue[busq] : e[1] >= bufEnd
      BY <2>1, <3>1, RipeEmpty
    <3> QED
      BY <3>1, <3>2
  <2>4. \A e \in rtQueue[busq] : ~(e[1] < bufEnd)
    BY <2>3, FrameAssumption DEF TypeOK, bufEnd
  <2> QED
    BY <1>1, <2>1, <2>2, <2>4, Passing DEF Due
<1>4. CASE PlayDone
  <2>1. /\ audioPc = "play" /\ playIdx > Len(PlayOrder) /\ audioPc' = "send"
        /\ playIdx' = playIdx
    BY <1>4 DEF PlayDone, playVars
  <2>2. \A n \in DOMAIN PlayOrder : n < playIdx
    BY <2>1, PlayOrderAssumption DEF TypeOK
  <2>3. \A q \in Queues : Passed(q)' <=> Passed(q)
    BY <1>1, <2>1, <2>2 DEF Passed, Queues
  <2> QED
    BY <1>1, <2>3 DEF Due
<1> QED
  BY <1>2, <1>3, <1>4

\* After the walk no entry is due, and no instrument waits.
LEMMA WalkOver ==
  ASSUME TypeOK, Times, Batching, audioPc = "send"
  PROVE  /\ \A q \in Queues : \A e \in rtQueue[q] : ~Due(e, q)
         /\ batch = {} /\ \A i \in Insts : Waits(i) = {}
<1>1. ASSUME NEW q \in Queues, NEW e \in rtQueue[q] PROVE ~Due(e, q)
  <2>1. CASE panic
    <3>1. e[1] \in Nat /\ e[1] >= bufEnd
      BY <2>1 DEF TypeOK, Times, Late
    <3>2. ~(e[1] < bufEnd)
      BY <3>1, FrameAssumption DEF TypeOK, bufEnd
    <3> QED
      BY <3>2 DEF Due
  <2>2. CASE ~panic
    BY <2>2 DEF Due, Passed
  <2> QED
    BY <2>1, <2>2
<1>2. batch = {}
  BY DEF Batching
<1>3. \A i \in Insts : Waits(i) = {}
  BY <1>1, <1>2 DEF Waits, Ahead, InBatch
<1> QED
  BY <1>1, <1>2, <1>3

\* Other instruments' entries do not matter.
LEMMA QueueFrame ==
  ASSUME NEW i \in Insts, bufStart' = bufStart,
         \A q \in Queues : {e \in rtQueue'[q] : e[2] = i} = {e \in rtQueue[q] : e[2] = i},
         {e \in batch' : e[2] = i} = {e \in batch : e[2] = i},
         \A q \in Queues : \A e \in rtQueue[q] : e[2] = i => (Due(e, q)' <=> Due(e, q))
  PROVE  /\ Queued(i)' = Queued(i) /\ Ahead(i)' = Ahead(i) /\ (InBatch(i)' <=> InBatch(i))
         /\ \A s \in Nat : At(i, s) => At(i, s)'
<1>1. bufEnd' = bufEnd
  BY DEF bufEnd
<1>2. ASSUME NEW q \in Queues
      PROVE  \A e : e \in rtQueue'[q] /\ e[2] = i <=> e \in rtQueue[q] /\ e[2] = i
  <2>1. {e \in rtQueue'[q] : e[2] = i} = {e \in rtQueue[q] : e[2] = i}
    OBVIOUS
  <2> QED
    BY <2>1
<1>3. \A e : e \in batch' /\ e[2] = i <=> e \in batch /\ e[2] = i
  <2>1. {e \in batch' : e[2] = i} = {e \in batch : e[2] = i}
    OBVIOUS
  <2> QED
    BY <2>1
<1>4. \A s : Onward(s)' = Onward(s)
  BY <1>1 DEF Onward
<1>5. Queued(i)' = Queued(i)
  BY <1>2 DEF Queued
<1>6. Ahead(i)' = Ahead(i)
  BY <1>2 DEF Ahead
<1>7. ASSUME NEW s \in Nat, At(i, s) PROVE At(i, s)'
  <2>1. ASSUME NEW q \in Queues, NEW e \in rtQueue'[q], e[2] = i
        PROVE  e[1] = IF Due(e, q)' THEN s ELSE Onward(s)'
    <3>1. e \in rtQueue[q] /\ (Due(e, q)' <=> Due(e, q))
      BY <1>2, <2>1
    <3> QED
      BY <1>4, <1>7, <2>1, <3>1 DEF At
  <2>2. \A e \in batch' : e[2] = i => e[1] = s
    BY <1>3, <1>7 DEF At
  <2> QED
    BY <2>1, <2>2 DEF At
<1> QED
  BY <1>3, <1>5, <1>6, <1>7 DEF InBatch

LEMMA PlaceFrame ==
  ASSUME NEW i \in Insts, Place(i),
         i \in cur' <=> i \in cur, InHeap(i)' <=> InHeap(i), InBatch(i)' <=> InBatch(i),
         Queued(i)' = Queued(i), Ahead(i)' = Ahead(i), InBatch(i) => busq' = busq,
         \A s \in Nat : At(i, s) => At(i, s)',
         fate'[i] = fate[i], inst'[i] = inst[i], bufStart' = bufStart,
         audioPc' # "stopped" => audioPc # "stopped",
         Held(i) /\ fate[i] = "panicked" /\ audioPc' # "stopped" => audioPc' = "play" /\ panic',
         Held(i) /\ fate[i] # "panicked" /\ audioPc' \in Rest \cup {"drain"} =>
           Rested(inst[i], Waits(i))
  PROVE  Place(i)'
<1>1. Waits(i)' = Waits(i)
  BY DEF Waits
<1>2. bufEnd' = bufEnd /\ Rest' = Rest
  BY DEF bufEnd, Rest
<1>3. Held(i)' <=> Held(i)
  BY DEF Held
<1>4. Rested(inst[i], Waits(i))' <=> Rested(inst[i], Waits(i))
  BY <1>1 DEF Rested
<1>5. Phase(inst[i], Queued(i), Waits(i))' <=> Phase(inst[i], Queued(i), Waits(i))
  BY <1>1, <1>2, <1>4 DEF Phase, Walked
<1>6. Held(i) /\ audioPc' # "stopped" => InSlice(i)'
  <2> SUFFICES ASSUME Held(i), audioPc' # "stopped" PROVE InSlice(i)'
    OBVIOUS
  <2>1. InSlice(i)
    BY DEF Place
  <2>2. PICK s \in Nat : At(i, s)
    BY <2>1 DEF InSlice
  <2>3. At(i, s)'
    BY <2>2
  <2>4. \E t \in Nat : At(i, t)'
    BY <2>3
  <2> QED
    BY <1>1, <1>2, <1>4, <1>5, <2>1, <2>4 DEF InSlice
<1> QED
  BY <1>3, <1>6 DEF Place

\* The steps that move no instrument.
LEMMA QuietInv ==
  ASSUME IInv, TypeOK', Parsing', Times', OnTime',
         UNCHANGED <<build, cur, rtHeap, inst, fate, bufStart, rtQueue, batch>>,
         batch # {} => UNCHANGED <<audioPc, playIdx, panic>>,
         audioPc' # "stopped" =>
           /\ audioPc # "stopped"
           /\ \A i \in Insts : Held(i) /\ fate[i] = "panicked" => audioPc' = "play" /\ panic'
           /\ audioPc' \in Rest \cup {"drain"} => audioPc \in Rest \cup {"drain"}
           /\ \A q \in Queues : \A e \in rtQueue[q] : Due(e, q)' <=> Due(e, q)
  PROVE  IInv'
<1> USE DEF IInv
<1>1. OneEach'
  BY DEF OneEach
<1>2. Batching'
  <2>1. bufEnd' = bufEnd /\ (batch # {} => busq' = busq /\ MULTI_THREAD' = MULTI_THREAD)
    BY DEF bufEnd, busq, MULTI_THREAD
  <2>2. \A s : Onward(s)' = Onward(s)
    BY <2>1 DEF Onward
  <2> QED
    BY <2>1, <2>2 DEF Batching
<1>3. ASSUME NEW i \in Insts PROVE Place(i)'
  <2>1. Place(i)
    BY DEF Places
  <2>2. (InHeap(i)' <=> InHeap(i)) /\ (InBatch(i)' <=> InBatch(i)) /\ Queued(i)' = Queued(i)
    BY DEF InHeap, InBatch, Queued
  <2>3. CASE audioPc' = "stopped"
    BY <2>1, <2>2, <2>3 DEF Place, Held
  <2>4. CASE audioPc' # "stopped"
    <3>1. InBatch(i) => busq' = busq
      BY DEF InBatch, busq
    <3>2. Ahead(i)' = Ahead(i) /\ \A s \in Nat : At(i, s) => At(i, s)'
      BY <2>4, QueueFrame
    <3>3. Held(i) /\ fate[i] # "panicked" /\ audioPc' \in Rest \cup {"drain"} =>
            Rested(inst[i], Waits(i))
      BY <2>1, <2>4 DEF Place, InSlice
    <3> QED
      BY <2>1, <2>2, <2>4, <3>1, <3>2, <3>3, PlaceFrame
  <2> QED
    BY <2>3, <2>4
<1> QED
  BY <1>1, <1>2, <1>3 DEF Places

\* The audio thread's steps leave a note alone that is on its way into the heap.
LEMMA AudioParsing ==
  ASSUME Parsing, AudioTurn, UNCHANGED <<build, parserVars>>,
         audioPc # "idle" \/ INTERACTIVE \/ parserPc = "done"
  PROVE  Parsing'
BY DEF Parsing, AudioTurn, Punctual, parserVars

-----------------------------------------------------------------------------
(* The steps that move no instrument.                                      *)

LEMMA ParserQuiet ==
  ASSUME IInv, UNCHANGED build, ScoreEnds \/ Panic \/ PanicOver \/ Shutdown
  PROVE  IInv'
<1> USE DEF IInv
<1>1. /\ UNCHANGED <<cur, rtHeap, inst, fate, audioPc, sliceVars, playVars>>
      /\ parserPc' \in {"ready", "panic", "done", parserPc}
      /\ cur # {} => parserPc' = parserPc
      /\ parserPc' = "insert" => parserPc = "insert"
      /\ ~INTERACTIVE /\ parserPc' # "done" => parserPc # "done"
      /\ run_status' \in {"RT_GOOD", "RT_PANIC", "RT_SHUTDOWN"}
      /\ interrupted' \in BOOLEAN
  BY DEF ScoreEnds, Panic, PanicOver, Shutdown, Parsing, TypeOK, parserVars, statusVars
<1>2. UNCHANGED <<bufStart, panic, playEm, rtQueue, playIdx, batch, allQSize, mix, twice>>
  BY <1>1 DEF sliceVars, playVars
<1>3. bufEnd' = bufEnd /\ Rest' = Rest
  BY <1>2 DEF bufEnd, Rest
<1>4. TypeOK'
  BY <1>1, <1>2 DEF TypeOK
<1>5. Parsing'
  BY <1>1, <1>2, <1>3 DEF Parsing, Punctual
<1>6. Times' /\ OnTime'
  BY <1>1, <1>2, <1>3 DEF Times, OnTime, Early, Late, MULTI_THREAD, Punctual
<1>7. audioPc # "stopped" =>
        \A i \in Insts : Held(i) /\ fate[i] = "panicked" => audioPc' = "play" /\ panic'
  BY <1>1, <1>2 DEF Places, Place, InSlice
<1>8. \A q \in Queues : \A e \in rtQueue[q] : Due(e, q)' <=> Due(e, q)
  BY <1>1, <1>2, DueFrame
<1> QED
  BY <1>1, <1>2, <1>4, <1>5, <1>6, <1>7, <1>8, QuietInv

LEMMA BeginSliceInv ==
  ASSUME IInv, AudioTurn, UNCHANGED build, BeginSlice
  PROVE  IInv'
<1> USE DEF IInv
<1>1. /\ audioPc = "idle" /\ audioPc' = "drain" /\ playIdx' = 1 /\ panic' \in BOOLEAN
      /\ allQSize' = FALSE /\ (INTERACTIVE \/ parserPc = "done")
      /\ UNCHANGED <<parserPc, cur, run_status, interrupted, rtHeap, inst, fate, bufStart,
                     playEm, rtQueue, batch, mix, twice>>
  BY DEF BeginSlice, parserVars, statusVars
<1>2. bufEnd' = bufEnd /\ Rest' = Rest
  BY <1>1 DEF bufEnd, Rest
<1>3. TypeOK'
  <2>1. 1 \in 1 .. Len(PlayOrder) + 1
    BY PlayOrderAssumption
  <2>2. {panic', allQSize', playEm', twice'} \subseteq BOOLEAN
    BY <1>1 DEF TypeOK
  <2> QED
    BY <1>1, <2>1, <2>2 DEF TypeOK
<1>4. Parsing'
  BY <1>1, AudioParsing DEF parserVars
<1>5. Times' /\ OnTime'
  BY <1>1, <1>2 DEF Times, OnTime, Rest, Early, Late, Punctual
<1>6. \A i \in Insts : Held(i) /\ fate[i] = "panicked" => audioPc' = "play" /\ panic'
  BY <1>1 DEF Places, Place, InSlice
<1>7. batch = {}
  BY <1>1 DEF Batching
<1>8. \A q \in Queues : \A e \in rtQueue[q] : Due(e, q)' <=> Due(e, q)
  BY <1>1, DueFrame DEF Rest
<1> QED
  BY <1>1, <1>3, <1>4, <1>5, <1>6, <1>7, <1>8, QuietInv DEF Rest

LEMMA DrainDoneInv ==
  ASSUME IInv, AudioTurn, UNCHANGED build, DrainDone
  PROVE  IInv'
<1> USE DEF IInv
<1>1. /\ audioPc = "drain" /\ audioPc' = "play" /\ Ripe(rtHeap) = {}
      /\ UNCHANGED <<parserPc, cur, run_status, interrupted, rtHeap, inst, fate, bufStart,
                     panic, playEm, rtQueue, playIdx, batch, allQSize, mix, twice>>
  BY DEF DrainDone, parserVars, statusVars, sliceVars, playVars
<1>2. bufEnd' = bufEnd /\ Rest' = Rest
  BY <1>1 DEF bufEnd, Rest
<1>3. TypeOK'
  BY <1>1 DEF TypeOK
<1>4. Parsing'
  BY <1>1, AudioParsing DEF parserVars
<1>5. \A e \in rtHeap : e[1] >= bufEnd
  BY <1>1, RipeEmpty DEF TypeOK
<1>6. \A q \in Queues : Early(q)
  BY <1>1 DEF Times
<1>7. batch = {}
  BY <1>1 DEF Batching
<1>8. Times'
  <2>1. playIdx = 1
    BY <1>1 DEF Times
  <2>2. \A q \in Queues : Early(q)'
    BY <1>1, <1>2, <1>6 DEF Early
  <2>3. \A n \in DOMAIN PlayOrder : ~(n < playIdx) /\ PlayOrder[n] \in Queues
    BY <2>1, PlayOrderAssumption DEF Queues
  <2> QED
    BY <1>1, <1>2, <2>2, <2>3 DEF Times, Rest
<1>9. OnTime'
  BY <1>1, <1>2, <1>5, <1>7 DEF OnTime, Punctual, Rest
<1>10. \A i \in Insts : Held(i) /\ fate[i] = "panicked" => audioPc' = "play" /\ panic'
  BY <1>1 DEF Places, Place, InSlice
<1>11. \A q \in Queues : \A e \in rtQueue[q] : Due(e, q)' <=> Due(e, q)
  BY WalkDue
<1> QED
  BY <1>1, <1>3, <1>4, <1>7, <1>8, <1>9, <1>10, <1>11, QuietInv DEF Rest

LEMMA NextQueueInv ==
  ASSUME IInv, AudioTurn, UNCHANGED build, NextQueue
  PROVE  IInv'
<1> USE DEF IInv
<1>1. /\ audioPc = "play" /\ playIdx <= Len(PlayOrder) /\ playIdx' = playIdx + 1
      /\ batch = {} /\ Ripe(rtQueue[busq]) = {}
      /\ UNCHANGED <<parserPc, cur, run_status, interrupted, rtHeap, inst, fate, audioPc,
                     bufStart, panic, playEm, rtQueue, batch, allQSize, mix, twice>>
  BY DEF NextQueue, parserVars, statusVars, sliceVars
<1>2. bufEnd' = bufEnd /\ Rest' = Rest /\ MULTI_THREAD' = MULTI_THREAD
  BY <1>1 DEF bufEnd, Rest, MULTI_THREAD
<1>3. playIdx \in DOMAIN PlayOrder /\ busq \in Queues
  BY <1>1, Playing
<1>4. TypeOK'
  BY <1>1, <1>3, PlayOrderAssumption DEF TypeOK
<1>5. Parsing'
  BY <1>1, AudioParsing DEF parserVars
<1>6. Late(busq)
  BY <1>1, <1>3, RipeEmpty DEF TypeOK, Late
<1>7. Times'
  <2>1. \A n \in DOMAIN PlayOrder : n \in Nat /\ (n < playIdx + 1 <=> n < playIdx \/ n = playIdx)
                                   /\ (n >= playIdx + 1 => n > playIdx)
    BY PlayOrderAssumption DEF TypeOK
  <2>2. Punctual' \/ panic' => \A n \in DOMAIN PlayOrder : n < playIdx' => Late(PlayOrder[n])'
    BY <1>1, <1>2, <1>6, <2>1 DEF Times, Late, busq, Punctual
  <2>3. \A n \in DOMAIN PlayOrder : n >= playIdx' => Early(PlayOrder[n])'
    BY <1>1, <1>2, <2>1 DEF Times, Early
  <2>4. \A n \in DOMAIN PlayOrder : n > playIdx' \/ n = playIdx' => n >= playIdx'
    BY <2>1, <1>1 DEF TypeOK
  <2>5. panic => \A q \in Queues : Early(q)'
    BY <1>1, <1>2 DEF Times, Early
  <2> QED
    BY <1>1, <1>2, <2>2, <2>3, <2>4, <2>5 DEF Times, Rest
<1>8. OnTime'
  BY <1>1, <1>2 DEF OnTime, Punctual
<1>9. \A i \in Insts : Held(i) /\ fate[i] = "panicked" => audioPc' = "play" /\ panic'
  BY <1>1 DEF Places, Place, InSlice
<1>10. \A q \in Queues : \A e \in rtQueue[q] : Due(e, q)' <=> Due(e, q)
  BY WalkDue
<1> QED
  BY <1>1, <1>4, <1>5, <1>7, <1>8, <1>9, <1>10, QuietInv DEF Rest

LEMMA PlayDoneInv ==
  ASSUME IInv, AudioTurn, UNCHANGED build, PlayDone
  PROVE  IInv'
<1> USE DEF IInv
<1>1. /\ audioPc = "play" /\ playIdx > Len(PlayOrder) /\ audioPc' = "send"
      /\ UNCHANGED <<parserPc, cur, run_status, interrupted, rtHeap, inst, fate, bufStart,
                     panic, playEm, rtQueue, playIdx, batch, allQSize, mix, twice>>
  BY DEF PlayDone, parserVars, statusVars, sliceVars, playVars
<1>2. bufEnd' = bufEnd /\ Rest' = Rest
  BY <1>1 DEF bufEnd, Rest
<1>3. TypeOK'
  BY <1>1 DEF TypeOK
<1>4. Parsing'
  BY <1>1, AudioParsing DEF parserVars
<1>5. \A n \in DOMAIN PlayOrder : n < playIdx
  BY <1>1, PlayOrderAssumption DEF TypeOK
<1>6. Punctual \/ panic => \A q \in Queues : Late(q)
  BY <1>1, <1>5 DEF Times, Queues
<1>7. Times' /\ OnTime'
  BY <1>1, <1>2, <1>6 DEF Times, OnTime, Rest, Late, Punctual
<1>8. batch = {}
  <2>1. playIdx \notin DOMAIN PlayOrder
    BY <1>1, PlayOrderAssumption DEF TypeOK
  <2> QED
    BY <2>1 DEF Batching
<1>9. ASSUME NEW i \in Insts, Held(i), fate[i] = "panicked" PROVE FALSE
  <2>1. InSlice(i)
    BY <1>1, <1>9 DEF Places, Place
  <2>2. panic /\ Queued(i) \subseteq Ahead(i)
    BY <1>9, <2>1 DEF InSlice
  <2>3. Ahead(i) = {}
    <3>1. \A q \in Queues : \A e \in rtQueue[q] : ~(e[1] < bufEnd)
      BY <1>6, <2>2, FrameAssumption DEF Late, TypeOK, bufEnd
    <3> QED
      BY <3>1 DEF Ahead, Due
  <2> QED
    BY <1>8, <1>9, <2>2, <2>3 DEF Held, InBatch
<1>10. \A q \in Queues : \A e \in rtQueue[q] : Due(e, q)' <=> Due(e, q)
  BY WalkDue
<1> QED
  BY <1>1, <1>3, <1>4, <1>7, <1>8, <1>9, <1>10, QuietInv DEF Rest

LEMMA SendFailsInv ==
  ASSUME IInv, AudioTurn, UNCHANGED build, SendFails
  PROVE  IInv'
<1> USE DEF IInv
<1>1. /\ audioPc = "send" /\ audioPc' = "stopped"
      /\ UNCHANGED <<parserPc, cur, run_status, interrupted, rtHeap, inst, fate, bufStart,
                     panic, playEm, rtQueue, playIdx, batch, allQSize, mix, twice>>
  BY DEF SendFails, parserVars, statusVars, sliceVars, playVars
<1>2. bufEnd' = bufEnd /\ Rest' = Rest
  BY <1>1 DEF bufEnd, Rest
<1>3. TypeOK'
  BY <1>1 DEF TypeOK
<1>4. Parsing'
  BY <1>1, AudioParsing DEF parserVars
<1>5. Punctual => \A e \in rtHeap : e[1] >= bufStart
  BY <1>1, FrameAssumption DEF OnTime, TypeOK, bufEnd
<1>6. Times' /\ OnTime'
  BY <1>1, <1>2, <1>5 DEF Times, OnTime, Rest, Punctual
<1>7. batch = {}
  BY <1>1 DEF Batching
<1> QED
  BY <1>1, <1>3, <1>4, <1>6, <1>7, QuietInv

LEMMA EndOfSliceInv ==
  ASSUME IInv, AudioTurn, UNCHANGED build,
         ReadStatus \/ EndPanic \/ Return
  PROVE  IInv'
<1> USE DEF IInv
<1>1. /\ audioPc \in Rest \ {"idle"} /\ audioPc' \in Rest \cup {"stopped"}
      /\ panic' \in BOOLEAN /\ playEm' \in BOOLEAN
      /\ run_status' \in {"RT_GOOD", run_status}
      /\ UNCHANGED <<parserPc, cur, interrupted, rtHeap, inst, fate, bufStart,
                     rtQueue, playIdx, batch, allQSize, mix, twice>>
  <2>1. CASE ReadStatus
    BY <2>1 DEF ReadStatus, Rest, TypeOK, parserVars, statusVars, playVars
  <2>2. CASE EndPanic
    BY <2>2 DEF EndPanic, Rest, TypeOK, parserVars, sliceVars, playVars
  <2>3. CASE Return
    BY <2>3 DEF Return, Rest, TypeOK, parserVars, statusVars, sliceVars, playVars
  <2> QED
    BY <2>1, <2>2, <2>3
<1>2. bufEnd' = bufEnd /\ Rest' = Rest
  BY <1>1 DEF bufEnd, Rest
<1>3. TypeOK'
  BY <1>1 DEF TypeOK, Rest
<1>4. Parsing'
  BY <1>1, AudioParsing DEF parserVars
<1>5. Times' /\ OnTime'
  BY <1>1, <1>2 DEF Times, OnTime, Rest, Early, Punctual
<1>6. \A i \in Insts : Held(i) /\ fate[i] = "panicked" => audioPc' = "play" /\ panic'
  BY <1>1 DEF Places, Place, InSlice, Rest
<1>7. batch = {}
  BY <1>1 DEF Batching, Rest
<1>8. audioPc' # "stopped" => \A q \in Queues : \A e \in rtQueue[q] : Due(e, q)' <=> Due(e, q)
  BY <1>1, DueFrame DEF Rest
<1> QED
  BY <1>1, <1>3, <1>4, <1>5, <1>6, <1>7, <1>8, QuietInv DEF Rest

-----------------------------------------------------------------------------
(* The parser's notes.                                                     *)

LEMMA Fresh ==
  ASSUME IInv, NEW i \in Insts, fate[i] = "none", parserPc = "ready"
  PROVE  cur = {} /\ ~InHeap(i) /\ ~Held(i)
BY DEF IInv, Parsing, Places, Place

LEMMA NewInstInv ==
  ASSUME IInv, NEW i \in Insts, fate[i] = "none", parserPc = "ready", NEW r \in InstType,
         inst' = [inst EXCEPT ![i] = r], fate' \in [Insts -> Fates],
         \A j \in Insts \ {i} : fate'[j] = fate[j],
         UNCHANGED <<build, statusVars, rtHeap, audioPc, sliceVars, playVars>>,
         parserPc' \in {"ready", "insert", "failed"}, cur' \subseteq {i}, Parsing',
         i \in cur' => /\ fate'[i] = "none" /\ r.alive /\ r.refs = 1 /\ r.needs
                       /\ r.slot \in Slots,
         i \notin cur' => ~r.alive \/ (fate'[i] = "failed" /\ INTERACTIVE)
  PROVE  IInv'
<1> USE DEF IInv
<1>1. cur = {} /\ ~InHeap(i) /\ ~Held(i)
  BY Fresh
<1>2. /\ UNCHANGED <<build, run_status, interrupted, rtHeap, audioPc, bufStart, panic,
                     playEm, rtQueue, playIdx, batch, allQSize, mix, twice>>
      /\ UNCHANGED <<bufEnd, MULTI_THREAD, busq, Rest>>
  BY DEF statusVars, sliceVars, playVars, bufEnd, MULTI_THREAD, busq, Rest
<1>3. inst' \in [Insts -> InstType] /\ inst'[i] = r
      /\ \A j \in Insts \ {i} : inst'[j] = inst[j]
  BY DEF TypeOK
<1>4. TypeOK'
  BY <1>2, <1>3 DEF TypeOK
<1>5. Times' /\ OnTime'
  BY <1>2 DEF Times, OnTime, Early, Late, Punctual
<1>6. OneEach'
  BY <1>2 DEF OneEach
<1>7. Batching'
  <2>1. ASSUME NEW e \in batch PROVE e[2] \in Insts /\ inst'[e[2]] = inst[e[2]]
    <3>1. e[2] \in Insts
      BY DEF TypeOK
    <3>2. e[2] # i
      BY <1>1 DEF Held, InBatch
    <3> QED
      BY <1>3, <3>1, <3>2
  <2>2. \A s : Onward(s)' = Onward(s)
    BY <1>2 DEF Onward
  <2> QED
    BY <1>2, <2>1, <2>2 DEF Batching
<1>8. ASSUME NEW j \in Insts PROVE Place(j)'
  <2>1. (InHeap(j)' <=> InHeap(j)) /\ (InBatch(j)' <=> InBatch(j))
    BY <1>2 DEF InHeap, InBatch
  <2>2. Queued(j)' = Queued(j) /\ Ahead(j)' = Ahead(j) /\ \A s \in Nat : At(j, s) => At(j, s)'
    BY <1>2, DueFrame, QueueFrame
  <2>3. CASE j = i
    BY <1>1, <1>3, <2>1, <2>2, <2>3 DEF Place, Held
  <2>4. CASE j # i
    <3>1. Place(j)
      BY DEF Places
    <3>2. /\ Held(j) /\ fate[j] = "panicked" /\ audioPc' # "stopped" => audioPc' = "play" /\ panic'
          /\ Held(j) /\ fate[j] # "panicked" /\ audioPc' \in Rest \cup {"drain"} =>
               Rested(inst[j], Waits(j))
      BY <1>2, <3>1 DEF Place, InSlice, Rest
    <3>3. j \in cur' <=> j \in cur
      BY <1>1, <2>4
    <3> QED
      BY <1>2, <1>3, <2>1, <2>2, <2>4, <3>1, <3>2, <3>3, PlaceFrame
  <2> QED
    BY <2>3, <2>4
<1> QED
  BY <1>4, <1>5, <1>6, <1>7, <1>8 DEF Places

LEMMA NoInstType ==
  /\ NoInst \in InstType /\ NoInst.refs = 0 /\ ~NoInst.alive
  /\ NoInst.needs /\ NoInst.slot = {} /\ NoInst.start = 0 /\ NoInst.end = 0
BY FrameAssumption DEF NoInst, InstType

LEMMA SetupFailsInv ==
  ASSUME IInv, UNCHANGED build, NEW i \in Insts, SetupFails(i)
  PROVE  IInv'
<1> USE DEF IInv
<1> DEFINE n == Ref(NoInst, 1)
           r == Unref(n, 1)
<1>1. n \in InstType /\ n.refs = 1
  BY NoInstType, RefFields
<1> HIDE DEF n
<1>2. r \in InstType /\ ~r.alive
  <2>1. r \in InstType /\ (r.alive <=> n.refs > 1)
    BY <1>1, UnrefFields
  <2> QED
    BY <1>1, <2>1
<1> HIDE DEF r
<1>3. /\ parserPc = "ready" /\ fate[i] = "none"
      /\ inst' = [inst EXCEPT ![i] = r] /\ fate' = [fate EXCEPT ![i] = "failed"]
      /\ parserPc' = (IF INTERACTIVE THEN "ready" ELSE "failed")
      /\ UNCHANGED <<cur, statusVars, rtHeap, audioPc, sliceVars, playVars>>
  BY DEF SetupFails, r, n
<1>4. cur = {}
  BY <1>3, Fresh
<1>5. fate' \in [Insts -> Fates] /\ fate'[i] = "failed"
      /\ \A j \in Insts \ {i} : fate'[j] = fate[j]
  BY <1>3 DEF TypeOK, Fates
<1>6. Parsing'
  BY <1>3, <1>4 DEF Parsing, sliceVars
<1>7. i \notin cur' /\ cur' \subseteq {i} /\ parserPc' \in {"ready", "insert", "failed"}
  BY <1>3, <1>4
<1> QED
  BY <1>2, <1>3, <1>5, <1>6, <1>7, NewInstInv

LEMMA ConfigureFailsInv ==
  ASSUME IInv, UNCHANGED build, NEW i \in Insts, ConfigureFails(i)
  PROVE  IInv'
<1> USE DEF IInv
<1> DEFINE r == [Ref(NoInst, 1) EXCEPT !.alive = TRUE]
<1>1. Ref(NoInst, 1) \in InstType
  BY NoInstType, RefFields
<1>2. r \in InstType
  BY <1>1 DEF InstType
<1> HIDE DEF r
<1>3. /\ parserPc = "ready" /\ fate[i] = "none" /\ INTERACTIVE
      /\ inst' = [inst EXCEPT ![i] = r] /\ fate' = [fate EXCEPT ![i] = "failed"]
      /\ UNCHANGED <<parserPc, cur, statusVars, rtHeap, audioPc, sliceVars, playVars>>
  BY DEF ConfigureFails, r, parserVars
<1>4. cur = {}
  BY <1>3, Fresh
<1>5. fate' \in [Insts -> Fates] /\ fate'[i] = "failed"
      /\ \A j \in Insts \ {i} : fate'[j] = fate[j]
  BY <1>3 DEF TypeOK, Fates
<1>6. Parsing'
  BY <1>3, <1>4 DEF Parsing, sliceVars
<1>7. i \notin cur' /\ cur' \subseteq {i} /\ parserPc' \in {"ready", "insert", "failed"}
  BY <1>3, <1>4
<1> QED
  BY <1>2, <1>3, <1>5, <1>6, <1>7, NewInstInv

LEMMA CreateInv ==
  ASSUME IInv, UNCHANGED build, NEW i \in Insts, NEW slot \in Slots,
         NEW start \in StartTimes, NEW dur \in Durations, Create(i, slot, start, dur)
  PROVE  IInv'
<1> USE DEF IInv
<1> DEFINE startsamp == start + IF INTERACTIVE THEN ElapsedFrames ELSE 0
           endsamp == startsamp + dur
           r == [Ref(NoInst, 1) EXCEPT !.alive = TRUE, !.slot = slot,
                     !.start = startsamp, !.end = endsamp]
<1>1. Ref(NoInst, 1) \in InstType /\ Ref(NoInst, 1).refs = 1 /\ Ref(NoInst, 1).needs
  BY NoInstType, RefFields
<1>2. /\ startsamp \in Nat /\ endsamp \in Nat /\ (INTERACTIVE => startsamp >= bufEnd)
  <2>1. start \in Nat /\ dur \in Nat
    BY TimeAssumption
  <2>2. bufEnd \in Nat /\ ElapsedFrames = bufEnd
    BY FrameAssumption DEF bufEnd, ElapsedFrames, TypeOK
  <2> QED
    BY <2>1, <2>2
<1>3. /\ parserPc = "ready" /\ fate[i] = "none" /\ parserPc' = "insert" /\ cur' = {i}
      /\ inst' = [inst EXCEPT ![i] = r]
      /\ UNCHANGED <<statusVars, rtHeap, fate, audioPc, sliceVars, playVars>>
  BY DEF Create
<1> HIDE DEF startsamp, endsamp
<1>4. r \in InstType /\ r.alive /\ r.refs = 1 /\ r.needs /\ r.slot = slot
      /\ r.start = startsamp
  BY <1>1, <1>2 DEF InstType
<1> HIDE DEF r
<1>5. fate' \in [Insts -> Fates] /\ fate'[i] = "none"
      /\ \A j \in Insts \ {i} : fate'[j] = fate[j]
  BY <1>3 DEF TypeOK
<1>6. inst'[i] = r
  BY <1>3 DEF TypeOK
<1>7. Parsing'
  BY <1>2, <1>3, <1>4, <1>6 DEF Parsing, sliceVars, bufEnd
<1> QED
  BY <1>3, <1>4, <1>5, <1>7, NewInstInv

LEMMA InsertInv ==
  ASSUME IInv, UNCHANGED build, NEW i \in Insts, Insert(i)
  PROVE  IInv'
<1> USE DEF IInv
<1> DEFINE e == <<inst[i].start, i>>
<1>1. /\ parserPc = "insert" /\ i \in cur /\ rtHeap' = rtHeap \cup {e}
      /\ fate' = [fate EXCEPT ![i] = "scheduled"] /\ cur' = {} /\ parserPc' = "ready"
      /\ UNCHANGED <<run_status, interrupted, inst, audioPc, bufStart, panic, playEm,
                     rtQueue, playIdx, batch, allQSize, mix, twice>>
  BY DEF Insert, statusVars, sliceVars, playVars
<1>2. UNCHANGED <<bufEnd, MULTI_THREAD, busq, Rest>>
  BY <1>1 DEF bufEnd, MULTI_THREAD, busq, Rest
<1>3. e \in Nat \X Insts /\ e[2] = i /\ inst[i].start \in Nat
  BY DEF TypeOK, InstType
<1>4. Punctual => e[1] >= IF audioPc \in {"play", "send"} THEN bufEnd ELSE bufStart
  <2>1. bufStart \in Nat /\ bufEnd \in Nat /\ bufEnd >= bufStart
    BY FrameAssumption DEF TypeOK, bufEnd
  <2> QED
    BY <1>1, <1>3, <2>1 DEF Parsing
<1>5. Place(i) /\ ~InHeap(i) /\ ~Held(i)
  BY <1>1 DEF Places, Place
<1> HIDE DEF e
<1>6. fate' \in [Insts -> Fates] /\ fate'[i] = "scheduled"
      /\ \A j \in Insts \ {i} : fate'[j] = fate[j]
  BY <1>1 DEF TypeOK, Fates
<1>7. TypeOK'
  BY <1>1, <1>3, <1>6 DEF TypeOK
<1>8. Parsing'
  BY <1>1 DEF Parsing
<1>9. Times' /\ OnTime'
  BY <1>1, <1>2, <1>4 DEF Times, OnTime, Early, Late, Punctual
<1>10. OneEach'
  BY <1>1, <1>3, <1>5 DEF OneEach, InHeap
<1>11. Batching'
  BY <1>1, <1>2 DEF Batching, Onward
<1>12. ASSUME NEW j \in Insts PROVE Place(j)'
  <2>1. InBatch(j)' <=> InBatch(j)
    BY <1>1 DEF InBatch
  <2>2. Queued(j)' = Queued(j) /\ Ahead(j)' = Ahead(j) /\ \A s \in Nat : At(j, s) => At(j, s)'
    BY <1>1, DueFrame, QueueFrame
  <2>3. CASE j = i
    <3>1. InHeap(i)'
      BY <1>1, <1>3 DEF InHeap
    <3>2. ~Held(i)' /\ i \notin cur'
      BY <1>1, <1>5, <2>1, <2>2, <2>3 DEF Held
    <3>3. Place(i)
      BY <1>5
    <3> QED
      BY <1>1, <1>6, <2>3, <3>1, <3>2, <3>3 DEF Place
  <2>4. CASE j # i
    <3>1. Place(j)
      BY DEF Places
    <3>2. /\ Held(j) /\ fate[j] = "panicked" /\ audioPc' # "stopped" => audioPc' = "play" /\ panic'
          /\ Held(j) /\ fate[j] # "panicked" /\ audioPc' \in Rest \cup {"drain"} =>
               Rested(inst[j], Waits(j))
      BY <1>1, <3>1 DEF Place, InSlice, Rest
    <3>3. InHeap(j)' <=> InHeap(j)
      BY <1>1, <1>3, <2>4 DEF InHeap
    <3>4. j \in cur' <=> j \in cur
      BY <1>1, <2>4 DEF Parsing
    <3> QED
      BY <1>1, <1>2, <1>6, <2>1, <2>2, <2>4, <3>1, <3>2, <3>3, <3>4, PlaceFrame
  <2> QED
    BY <2>3, <2>4
<1> QED
  BY <1>7, <1>8, <1>9, <1>10, <1>11, <1>12 DEF Places

-----------------------------------------------------------------------------
(* From the heap to the ripe queues.                                       *)

LEMMA Ripened ==
  ASSUME IInv, audioPc = "drain", NEW e \in Ripe(rtHeap)
  PROVE  /\ e \in rtHeap /\ e \in Nat \X Insts /\ e[1] \in Nat /\ e[2] \in Insts
         /\ (Punctual => bufStart <= e[1]) /\ e[1] < bufEnd
         /\ ~Held(e[2]) /\ e[2] \notin cur /\ batch = {}
         /\ inst[e[2]] \in InstType /\ inst[e[2]].alive /\ inst[e[2]].refs = 1
         /\ inst[e[2]].needs /\ inst[e[2]].slot \in Slots
         /\ \A f \in rtHeap \ {e} : f[2] # e[2]
         /\ \A q \in Queues : \A f \in rtQueue[q] : f[2] # e[2]
<1> USE DEF IInv
<1>1. e \in rtHeap /\ e[1] < bufEnd
  BY DEF Ripe, Least
<1>2. e \in Nat \X Insts /\ e[1] \in Nat /\ e[2] \in Insts
  BY <1>1 DEF TypeOK
<1>3. Punctual => bufStart <= e[1]
  BY <1>1 DEF OnTime, TypeOK
<1>4. InHeap(e[2]) /\ Place(e[2])
  BY <1>1, <1>2 DEF InHeap, Places
<1>5. batch = {}
  BY DEF Batching
<1>6. \A f \in rtHeap \ {e} : f[2] # e[2]
  BY <1>1 DEF OneEach
<1>7. ~Held(e[2]) /\ inst[e[2]].alive /\ inst[e[2]].refs = 1 /\ inst[e[2]].needs
      /\ inst[e[2]].slot \in Slots /\ e[2] \notin cur
  BY <1>4 DEF Place
<1>8. \A q \in Queues : \A f \in rtQueue[q] : f[2] # e[2]
  BY <1>7 DEF Held, Queued
<1> QED
  BY <1>1, <1>2, <1>3, <1>5, <1>6, <1>7, <1>8 DEF TypeOK

LEMMA DrainDropInv ==
  ASSUME IInv, AudioTurn, UNCHANGED build,
         NEW e, DrainPanic(e) \/ DrainUnconfigured(e)
  PROVE  IInv'
<1> USE DEF IInv
<1> DEFINE i == e[2]
           r == Unref(inst[i], 1)
<1>1. /\ audioPc = "drain" /\ e \in Ripe(rtHeap) /\ rtHeap' = rtHeap \ {e}
      /\ inst' = [inst EXCEPT ![i] = r]
      /\ \/ fate' = [fate EXCEPT ![i] = "panicked"]
         \/ fate' = [fate EXCEPT ![i] = "failed"]
      /\ UNCHANGED <<parserPc, cur, run_status, interrupted, audioPc, bufStart, panic,
                     playEm, rtQueue, playIdx, batch, allQSize, mix, twice>>
  BY DEF DrainPanic, DrainUnconfigured, parserVars, statusVars, sliceVars, playVars
<1>2. UNCHANGED <<bufEnd, MULTI_THREAD, busq, Rest>>
  BY <1>1 DEF bufEnd, MULTI_THREAD, busq, Rest
<1>3. Parsing'
  BY <1>1, AudioParsing DEF parserVars
<1>4. /\ e \in rtHeap /\ i \in Insts /\ ~Held(i) /\ i \notin cur /\ batch = {}
      /\ inst[i] \in InstType /\ inst[i].refs = 1
      /\ \A f \in rtHeap \ {e} : f[2] # i
  BY <1>1, Ripened
<1>5. r \in InstType /\ ~r.alive
  <2>1. r \in InstType /\ (r.alive <=> inst[i].refs > 1)
    BY <1>4, UnrefFields
  <2> QED
    BY <1>4, <2>1
<1> HIDE DEF r
<1>6. inst' \in [Insts -> InstType] /\ inst'[i] = r
      /\ \A j \in Insts \ {i} : inst'[j] = inst[j]
  BY <1>1, <1>4, <1>5 DEF TypeOK
<1>7. fate' \in [Insts -> Fates] /\ fate'[i] \in {"panicked", "failed"}
      /\ \A j \in Insts \ {i} : fate'[j] = fate[j]
  BY <1>1, <1>4 DEF TypeOK, Fates
<1>8. TypeOK'
  BY <1>1, <1>6, <1>7 DEF TypeOK
<1>9. Times' /\ OnTime'
  BY <1>1, <1>2, <1>4 DEF Times, OnTime, Early, Late, Punctual
<1>10. OneEach'
  BY <1>1 DEF OneEach
<1>11. Batching'
  BY <1>1, <1>4 DEF Batching
<1>12. ASSUME NEW j \in Insts PROVE Place(j)'
  <2>1. InBatch(j)' <=> InBatch(j)
    BY <1>1 DEF InBatch
  <2>2. Queued(j)' = Queued(j) /\ Ahead(j)' = Ahead(j) /\ \A s \in Nat : At(j, s) => At(j, s)'
    BY <1>1, DueFrame, QueueFrame
  <2>3. CASE j = i
    <3>1. ~InHeap(i)' /\ ~Held(i)' /\ i \notin cur'
      BY <1>1, <1>4, <2>1, <2>2, <2>3 DEF InHeap, Held
    <3>2. ~inst'[i].alive
      BY <1>5, <1>6
    <3> QED
      BY <2>3, <3>1, <3>2 DEF Place
  <2>4. CASE j # i
    <3>1. Place(j)
      BY DEF Places
    <3>2. /\ Held(j) /\ fate[j] = "panicked" => audioPc' = "play" /\ panic'
          /\ Held(j) /\ fate[j] # "panicked" /\ audioPc' \in Rest \cup {"drain"} =>
               Rested(inst[j], Waits(j))
      BY <1>1, <3>1 DEF Place, InSlice
    <3>3. InHeap(j)' <=> InHeap(j)
      BY <1>1, <2>4 DEF InHeap
    <3> QED
      BY <1>1, <1>2, <1>6, <1>7, <2>1, <2>2, <2>4, <3>1, <3>2, <3>3, PlaceFrame
  <2> QED
    BY <2>3, <2>4
<1> QED
  BY <1>3, <1>8, <1>9, <1>10, <1>11, <1>12 DEF Places

LEMMA DrainInv ==
  ASSUME IInv, AudioTurn, UNCHANGED build, NEW e, Drain(e)
  PROVE  IInv'
<1> USE DEF IInv
<1> DEFINE i == e[2]
           slot == inst[i].slot
           n == Cardinality(slot)
           r == Ref(inst[i], n)
<1>1. /\ audioPc = "drain" /\ e \in Ripe(rtHeap) /\ rtHeap' = rtHeap \ {e} /\ ~panic
      /\ inst' = [inst EXCEPT ![i] = r]
      /\ rtQueue' = [q \in Queues |-> IF q \in slot THEN rtQueue[q] \cup {e} ELSE rtQueue[q]]
      /\ fate' = [fate EXCEPT ![i] = IF e[1] < bufStart THEN "late" ELSE "timely"]
      /\ UNCHANGED <<parserPc, cur, run_status, interrupted, audioPc, bufStart, panic,
                     playEm, playIdx, batch, allQSize, mix, twice>>
  BY DEF Drain, parserVars, statusVars, sliceVars
<1>2. UNCHANGED <<bufEnd, MULTI_THREAD, busq, Rest>>
  BY <1>1 DEF bufEnd, MULTI_THREAD, busq, Rest
<1>3. Parsing'
  BY <1>1, AudioParsing DEF parserVars
<1>4. /\ e \in rtHeap /\ e \in Nat \X Insts /\ e[1] \in Nat /\ i \in Insts
      /\ (Punctual => bufStart <= e[1]) /\ e[1] < bufEnd
      /\ ~Held(i) /\ i \notin cur /\ batch = {}
      /\ inst[i] \in InstType /\ inst[i].alive /\ inst[i].refs = 1
      /\ inst[i].needs /\ slot \in Slots
      /\ \A f \in rtHeap \ {e} : f[2] # i
      /\ \A q \in Queues : \A f \in rtQueue[q] : f[2] # i
  BY <1>1, Ripened
<1>5. slot # {} /\ slot \subseteq Queues /\ n \in Nat
  BY <1>4, SlotFacts
<1>6. bufStart \in Nat /\ bufEnd \in Nat /\ bufEnd > bufStart
  BY FrameAssumption DEF TypeOK, bufEnd
<1> HIDE DEF n
<1>7. /\ r \in InstType /\ r.refs = 1 + n /\ r.alive /\ r.needs /\ r.slot = slot
  <2>1. /\ r \in InstType /\ r.refs = inst[i].refs + n /\ (r.alive <=> inst[i].alive)
        /\ (r.needs <=> inst[i].needs) /\ r.slot = slot
    BY <1>4, <1>5, RefFields
  <2> HIDE DEF r
  <2> QED
    BY <1>4, <2>1
<1> HIDE DEF r
<1>8. inst' \in [Insts -> InstType] /\ inst'[i] = r
      /\ \A j \in Insts \ {i} : inst'[j] = inst[j]
  BY <1>1, <1>4, <1>7 DEF TypeOK
<1>9. fate' \in [Insts -> Fates] /\ fate'[i] \in {"timely", "late"}
      /\ \A j \in Insts \ {i} : fate'[j] = fate[j]
  BY <1>1, <1>4 DEF TypeOK, Fates
<1> HIDE DEF slot
<1>10. /\ rtQueue' \in [Queues -> SUBSET (Nat \X Insts)]
       /\ \A q \in Queues : \A f : f \in rtQueue'[q] <=> f \in rtQueue[q] \/ (q \in slot /\ f = e)
  BY <1>1, <1>4 DEF TypeOK
<1>11. TypeOK'
  BY <1>1, <1>8, <1>9, <1>10 DEF TypeOK
<1>12. Times' /\ OnTime'
  <2>1. \A q \in Queues : \A f \in rtQueue'[q] : f[1] < bufEnd
    BY <1>1, <1>4, <1>10 DEF Times, Early
  <2>2. \A q \in Queues : \A f \in rtQueue'[q] : f[1] <= bufEnd
    BY <1>1, <1>4, <1>6, <1>10 DEF Times
  <2>3. \A q \in Queues : Early(q)'
    BY <1>2, <2>1 DEF Early
  <2>4. Punctual' => /\ Punctual
                     /\ \A f \in rtHeap' : f[1] >= bufStart
                     /\ \A q \in Queues : \A f \in rtQueue'[q] : bufStart <= f[1]
    BY <1>1, <1>4, <1>10 DEF OnTime, Punctual
  <2>5. Times'
    BY <1>1, <1>2, <2>2, <2>3 DEF Times, Rest
  <2> QED
    BY <1>1, <1>2, <1>4, <2>4, <2>5 DEF OnTime, Rest
<1>13. OneEach'
  <2>1. ASSUME NEW q \in Queues, NEW f \in rtQueue'[q], NEW g \in rtQueue'[q], f[2] = g[2]
        PROVE  f = g
    BY <1>4, <1>10, <2>1 DEF OneEach
  <2> QED
    BY <1>1, <2>1 DEF OneEach
<1>14. Batching'
  BY <1>1, <1>4 DEF Batching
<1>15. ASSUME NEW j \in Insts PROVE Place(j)'
  <2>1. InBatch(j)' <=> InBatch(j)
    BY <1>1 DEF InBatch
  <2>2. CASE j = i
    <3>0. \A q \in Queues : Due(e, q)'
      BY <1>1, <1>2, <1>4 DEF Due, Passed
    <3>1. Queued(i)' = slot
      BY <1>4, <1>5, <1>10 DEF Queued
    <3>2. Ahead(i)' = slot
      BY <1>4, <1>5, <1>10, <3>0 DEF Ahead
    <3>3. ~InHeap(i)' /\ i \notin cur' /\ ~InBatch(i)'
      BY <1>1, <1>4 DEF InHeap, InBatch
    <3>4. Waits(i)' = slot
      BY <3>2, <3>3 DEF Waits
    <3>5. Rested(inst[i], Waits(i))'
      BY <1>7, <1>8, <3>4 DEF Rested
    <3>6. At(i, e[1])'
      BY <1>1, <1>4, <1>10, <3>0 DEF At
    <3>7. InSlice(i)'
      BY <1>4, <1>7, <1>8, <1>9, <3>4, <3>5, <3>6 DEF InSlice, Phase
    <3> QED
      BY <1>4, <1>5, <1>7, <1>8, <1>9, <2>2, <3>1, <3>3, <3>7
      DEF Place, Held, n
  <2>3. CASE j # i
    <3>1. Place(j)
      BY DEF Places
    <3>2. /\ Held(j) /\ fate[j] = "panicked" => audioPc' = "play" /\ panic'
          /\ Held(j) /\ fate[j] # "panicked" /\ audioPc' \in Rest \cup {"drain"} =>
               Rested(inst[j], Waits(j))
      BY <1>1, <3>1 DEF Place, InSlice
    <3>3. InHeap(j)' <=> InHeap(j)
      BY <1>1, <2>3 DEF InHeap
    <3>4. Queued(j)' = Queued(j) /\ Ahead(j)' = Ahead(j) /\ \A s \in Nat : At(j, s) => At(j, s)'
      BY <1>1, <1>10, <2>3, DueFrame, QueueFrame
    <3> QED
      BY <1>1, <1>2, <1>8, <1>9, <2>1, <2>3, <3>1, <3>2, <3>3, <3>4, PlaceFrame
  <2> QED
    BY <2>2, <2>3
<1> QED
  BY <1>3, <1>11, <1>12, <1>13, <1>14, <1>15 DEF Places

-----------------------------------------------------------------------------
(* The walk.                                                               *)

\* An instrument whose turn it is on the queue of the walk.
LEMMA AtTurn ==
  ASSUME IInv, audioPc = "play", playIdx <= Len(PlayOrder),
         NEW e \in rtQueue[busq], e[1] < bufEnd
  PROVE  /\ busq \in Queues /\ playIdx \in DOMAIN PlayOrder
         /\ e \in Nat \X Insts /\ e[1] \in Nat /\ e[2] \in Insts
         /\ (Punctual => bufStart <= e[1]) /\ Due(e, busq) /\ e[2] \notin cur
         /\ busq \in Queued(e[2]) /\ busq \in Ahead(e[2]) /\ busq \in Waits(e[2])
         /\ ~InHeap(e[2]) /\ Held(e[2]) /\ ~InBatch(e[2])
         /\ \A f \in rtQueue[busq] \ {e} : f[2] # e[2]
         /\ inst[e[2]] \in InstType /\ inst[e[2]].slot \in Slots
         /\ Queued(e[2]) \cup Waits(e[2]) \subseteq inst[e[2]].slot
         /\ inst[e[2]].refs = 2 + Cardinality(Queued(e[2]) \ {busq})
         /\ Cardinality(Queued(e[2]) \ {busq}) \in Nat
         /\ ~panic => /\ Phase(inst[e[2]], Queued(e[2]), Waits(e[2]))
                      /\ fate[e[2]] \in {"timely", "late", "cut"}
         /\ \E s \in Nat : At(e[2], s)
         /\ \A s \in Nat : At(e[2], s) => e[1] = s
<1> USE DEF IInv
<1>1. busq \in Queues /\ playIdx \in DOMAIN PlayOrder
  BY Playing
<1>2. e \in Nat \X Insts /\ e[1] \in Nat /\ e[2] \in Insts
  BY <1>1 DEF TypeOK
<1>3. (Punctual => bufStart <= e[1]) /\ Due(e, busq)
  BY <1>1, AtTurnDue DEF OnTime
<1>4. busq \in Queued(e[2]) /\ busq \in Ahead(e[2])
  BY <1>1, <1>3 DEF Queued, Ahead
<1>5. busq \in Waits(e[2]) /\ Held(e[2])
  BY <1>4 DEF Waits, Held
<1>6. Place(e[2])
  BY <1>2 DEF Places
<1>7. ~InHeap(e[2]) /\ e[2] \notin cur
  BY <1>5, <1>6 DEF Place
<1>8. ~InBatch(e[2])
  BY DEF InBatch, Batching
<1>9. \A f \in rtQueue[busq] \ {e} : f[2] # e[2]
  BY <1>1 DEF OneEach
<1>10. inst[e[2]] \in InstType
  BY <1>2 DEF TypeOK
<1>11. Queued(e[2]) \subseteq Queues
  BY DEF Queued
<1>12. /\ Cardinality(Queued(e[2])) = Cardinality(Queued(e[2]) \ {busq}) + 1
       /\ Cardinality(Queued(e[2]) \ {busq}) \in Nat
  BY <1>1, <1>4, <1>11, Counts
<1>13. /\ inst[e[2]].slot \in Slots /\ Queued(e[2]) \cup Waits(e[2]) \subseteq inst[e[2]].slot
       /\ inst[e[2]].refs = 1 + Cardinality(Queued(e[2]))
       /\ ~panic => /\ Phase(inst[e[2]], Queued(e[2]), Waits(e[2]))
                    /\ fate[e[2]] \in {"timely", "late", "cut"}
       /\ \E s \in Nat : At(e[2], s)
  BY <1>5, <1>6 DEF Place, InSlice
<1>14. \A s \in Nat : At(e[2], s) => e[1] = s
  BY <1>1, <1>3 DEF At
<1> QED
  BY <1>1, <1>2, <1>3, <1>4, <1>5, <1>7, <1>8, <1>9, <1>10, <1>12, <1>13, <1>14

\* A queue that entries are taken from.
LEMMA TimesShrink ==
  ASSUME Times, OneEach, UNCHANGED <<build, rtHeap, audioPc, bufStart, panic, playIdx>>,
         \A q \in Queues : rtQueue'[q] \subseteq rtQueue[q]
  PROVE  Times' /\ \A q \in Queues : \A f, g \in rtQueue'[q] : f[2] = g[2] => f = g
<1>1. UNCHANGED <<bufEnd, MULTI_THREAD, Rest>>
  BY DEF bufEnd, MULTI_THREAD, Rest
<1>2. /\ \A n \in DOMAIN PlayOrder : PlayOrder[n] \in Queues
      /\ \A q \in Queues : (Early(q) => Early(q)') /\ (Late(q) => Late(q)')
  BY <1>1, PlayOrderAssumption DEF Queues, Early, Late
<1>3. \A q \in Queues : \A e \in rtQueue'[q] : e[1] <= bufEnd
  BY DEF Times
<1>4. Times'
  BY <1>1, <1>2, <1>3 DEF Times, Punctual
<1> QED
  BY <1>4 DEF OneEach

LEMMA PlayPanicInv ==
  ASSUME IInv, AudioTurn, UNCHANGED build, NEW e, PlayPanic(e)
  PROVE  IInv'
<1> USE DEF IInv
<1> DEFINE i == e[2]
           p == Popped(e)
<1>1. /\ audioPc = "play" /\ playIdx <= Len(PlayOrder) /\ e \in Ripe(rtQueue[busq]) /\ panic
      /\ rtQueue' = [rtQueue EXCEPT ![busq] = @ \ {e}]
      /\ inst' = [inst EXCEPT ![i] = p] /\ fate' = [fate EXCEPT ![i] = "panicked"]
      /\ allQSize' = (allQSize \/ (~MULTI_THREAD /\ rtQueue'[busq] # {}))
      /\ UNCHANGED <<parserPc, cur, run_status, interrupted, rtHeap, audioPc, bufStart,
                     panic, playEm, playIdx, batch, mix, twice>>
  BY DEF PlayPanic, parserVars, statusVars, sliceVars
<1>2. UNCHANGED <<bufEnd, MULTI_THREAD, busq, Rest>>
  BY <1>1 DEF bufEnd, MULTI_THREAD, busq, Rest
<1>3. Parsing'
  BY <1>1, AudioParsing DEF parserVars
<1>4. e \in rtQueue[busq] /\ e[1] < bufEnd
  BY <1>1 DEF Ripe, Least
<1>5. /\ busq \in Queues /\ e \in Nat \X Insts /\ i \in Insts
      /\ busq \in Queued(i) /\ ~InHeap(i) /\ ~InBatch(i) /\ i \notin cur
      /\ \A f \in rtQueue[busq] \ {e} : f[2] # i
      /\ inst[i] \in InstType /\ inst[i].slot \in Slots
      /\ Queued(i) \subseteq inst[i].slot /\ Waits(i) \subseteq inst[i].slot
      /\ inst[i].refs = 2 + Cardinality(Queued(i) \ {busq})
      /\ Cardinality(Queued(i) \ {busq}) \in Nat
      /\ \E s \in Nat : At(i, s)
  BY <1>1, <1>4, AtTurn
<1>6. /\ p \in InstType /\ p.refs = 1 + Cardinality(Queued(i) \ {busq}) /\ p.alive
      /\ p.slot = inst[i].slot
  <2>1. /\ p \in InstType /\ p.refs = inst[i].refs - 1 /\ (p.alive <=> inst[i].refs > 1)
        /\ p.slot = inst[i].slot
    BY <1>4, <1>5, PoppedFields DEF TypeOK
  <2> HIDE DEF p
  <2> QED
    BY <1>5, <2>1
<1> HIDE DEF p
<1>7. inst' \in [Insts -> InstType] /\ inst'[i] = p
      /\ \A j \in Insts \ {i} : inst'[j] = inst[j]
  BY <1>1, <1>5, <1>6 DEF TypeOK
<1>8. fate' \in [Insts -> Fates] /\ fate'[i] = "panicked"
      /\ \A j \in Insts \ {i} : fate'[j] = fate[j]
  BY <1>1, <1>5 DEF TypeOK, Fates
<1>9. /\ rtQueue' \in [Queues -> SUBSET (Nat \X Insts)]
      /\ rtQueue'[busq] = rtQueue[busq] \ {e}
      /\ \A q \in Queues \ {busq} : rtQueue'[q] = rtQueue[q]
  BY <1>1, <1>5 DEF TypeOK
<1>10. TypeOK'
  <2>1. {panic', allQSize', playEm', twice'} \subseteq BOOLEAN
    BY <1>1 DEF TypeOK
  <2> QED
    BY <1>1, <1>7, <1>8, <1>9, <2>1 DEF TypeOK
<1>11. Times' /\ OneEach' /\ OnTime'
  <2>1. Times' /\ OneEach'
    BY <1>1, <1>9, TimesShrink DEF OneEach
  <2>2. \A q \in Queues : rtQueue'[q] \subseteq rtQueue[q]
    BY <1>9
  <2> QED
    BY <1>1, <1>2, <2>1, <2>2 DEF OnTime, Punctual
<1>12. batch = {}
  BY <1>1 DEF Batching
<1>13. Batching'
  BY <1>1, <1>12 DEF Batching
<1>14. ASSUME NEW j \in Insts PROVE Place(j)'
  <2>1. (InBatch(j)' <=> InBatch(j)) /\ (InHeap(j)' <=> InHeap(j))
    BY <1>1 DEF InBatch, InHeap
  <2>2. CASE j = i
    <3>1. Queued(i)' = Queued(i) \ {busq}
      BY <1>5, <1>9 DEF Queued
    <3>2. Ahead(i)' = Queued(i)'
      <4>1. \A q \in Queues : \A f \in rtQueue'[q] : f[1] < bufEnd'
        BY <1>1, <1>11 DEF Times, Early
      <4>2. \A q \in Queues : ~Passed(q)'
        BY <1>1 DEF Passed
      <4> QED
        BY <4>1, <4>2 DEF Ahead, Queued, Due
    <3>3. Waits(i)' = Ahead(i)'
      BY <1>5, <2>1, <2>2 DEF Waits
    <3>4. Queued(i)' \cup Waits(i)' \subseteq inst'[i].slot
      BY <1>5, <1>6, <1>7, <3>1, <3>2, <3>3
    <3>5. inst'[i].alive /\ inst'[i].refs = 1 + Cardinality(Queued(i)')
          /\ inst'[i].slot \in Slots
      BY <1>5, <1>6, <1>7, <3>1
    <3>6. ~InHeap(i)' /\ i \notin cur'
      BY <1>1, <1>5, <2>1, <2>2
    <3>7. \E s \in Nat : At(i, s)'
      <4>1. PICK s \in Nat : At(i, s)
        BY <1>5
      <4>2. \A q \in Queues : \A f \in rtQueue'[q] : f \in rtQueue[q] /\ (Due(f, q)' <=> Due(f, q))
        BY <1>1, <1>9, DueFrame
      <4>3. \A t : Onward(t)' = Onward(t)
        BY <1>1, <1>2 DEF Onward
      <4>4. At(i, s)'
        BY <1>1, <4>1, <4>2, <4>3 DEF At
      <4> QED
        BY <4>4
    <3>8. InSlice(i)'
      BY <1>1, <1>8, <3>2, <3>4, <3>7 DEF InSlice
    <3> QED
      BY <1>1, <1>8, <2>2, <3>4, <3>5, <3>6, <3>8 DEF Place
  <2>3. CASE j # i
    <3>1. Place(j)
      BY DEF Places
    <3>2. /\ Held(j) /\ fate[j] = "panicked" => audioPc' = "play" /\ panic'
          /\ audioPc' \notin Rest \cup {"drain"}
      BY <1>1, <3>1 DEF Place, InSlice, Rest
    <3>3. /\ Queued(j)' = Queued(j) /\ Ahead(j)' = Ahead(j) /\ (InBatch(j)' <=> InBatch(j))
          /\ \A s \in Nat : At(j, s) => At(j, s)'
      <4>1. \A q \in Queues : {f \in rtQueue'[q] : f[2] = j} = {f \in rtQueue[q] : f[2] = j}
        BY <1>5, <1>9, <2>3
      <4>2. {f \in batch' : f[2] = j} = {f \in batch : f[2] = j}
        BY <1>1, <2>3
      <4> QED
        BY <1>1, <4>1, <4>2, DueFrame, QueueFrame
    <3> QED
      BY <1>1, <1>2, <1>7, <1>8, <2>1, <2>3, <3>1, <3>2, <3>3, PlaceFrame
  <2> QED
    BY <2>2, <2>3
<1> QED
  BY <1>3, <1>10, <1>11, <1>13, <1>14 DEF Places

LEMMA GatherInv ==
  ASSUME IInv, AudioTurn, UNCHANGED build, NEW e, Gather(e)
  PROVE  IInv'
<1> USE DEF IInv
<1> DEFINE i == e[2]
           p == Popped(e)
<1>1. /\ MULTI_THREAD /\ audioPc = "play" /\ playIdx <= Len(PlayOrder)
      /\ e \in Least(rtQueue[busq]) /\ ~panic
      /\ rtQueue' = [rtQueue EXCEPT ![busq] = @ \ {e}]
      /\ inst' = [inst EXCEPT ![i] = p] /\ batch' = batch \cup {e}
      /\ UNCHANGED <<parserPc, cur, run_status, interrupted, rtHeap, fate, audioPc, bufStart,
                     panic, playEm, playIdx, allQSize, mix, twice>>
  BY DEF Gather, parserVars, statusVars, sliceVars
<1>2. UNCHANGED <<bufEnd, MULTI_THREAD, busq, Rest>>
  BY <1>1 DEF bufEnd, MULTI_THREAD, busq, Rest
<1>3. Parsing'
  BY <1>1, AudioParsing DEF parserVars
<1>4. e \in rtQueue[busq] /\ e[1] < bufEnd
  <2>1. playIdx \in DOMAIN PlayOrder
    BY <1>1, Playing
  <2>2. Early(busq)
    BY <1>1, <2>1 DEF Times, busq
  <2> QED
    BY <1>1, <2>2 DEF Least, Early
<1>5. /\ busq \in Queues /\ playIdx \in DOMAIN PlayOrder /\ e \in Nat \X Insts
      /\ i \in Insts /\ (Punctual => bufStart <= e[1]) /\ e[1] \in Nat /\ i \notin cur
      /\ busq \in Queued(i) /\ busq \in Waits(i) /\ ~InHeap(i) /\ Held(i) /\ ~InBatch(i)
      /\ \A f \in rtQueue[busq] \ {e} : f[2] # i
      /\ inst[i] \in InstType /\ inst[i].slot \in Slots
      /\ Queued(i) \subseteq inst[i].slot /\ Waits(i) \subseteq inst[i].slot
      /\ inst[i].refs = 2 + Cardinality(Queued(i) \ {busq})
      /\ Cardinality(Queued(i) \ {busq}) \in Nat
      /\ Phase(inst[i], Queued(i), Waits(i)) /\ fate[i] \in {"timely", "late", "cut"}
      /\ \E s \in Nat : At(i, s)
      /\ \A s \in Nat : At(i, s) => e[1] = s
  BY <1>1, <1>4, AtTurn
<1>6. /\ p \in InstType /\ p.refs = 1 + Cardinality(Queued(i) \ {busq}) /\ p.alive
      /\ p.slot = inst[i].slot /\ p.end = inst[i].end /\ (p.needs <=> inst[i].needs)
      /\ p.written = inst[i].written
      /\ p.chunk = ChunkSamps(e[1], inst[i].end) /\ p.offset = Offset(e[1])
  <2>1. /\ p \in InstType /\ p.refs = inst[i].refs - 1 /\ (p.alive <=> inst[i].refs > 1)
        /\ p.slot = inst[i].slot /\ p.end = inst[i].end /\ (p.needs <=> inst[i].needs)
        /\ p.written = inst[i].written
        /\ p.chunk = ChunkSamps(e[1], inst[i].end) /\ p.offset = Offset(e[1])
    BY <1>4, <1>5, PoppedFields DEF TypeOK
  <2> HIDE DEF p
  <2> QED
    BY <1>5, <2>1
<1>7. /\ p.end > bufEnd => e[1] + p.chunk = Onward(e[1])
      /\ p.offset + p.chunk <= FrameCount
  <2>1. inst[i].end \in Nat
    BY <1>5 DEF InstType
  <2>2. /\ inst[i].end > bufEnd => e[1] + ChunkSamps(e[1], inst[i].end) = Onward(e[1])
        /\ Offset(e[1]) + ChunkSamps(e[1], inst[i].end) <= FrameCount
    BY <1>4, <1>5, <2>1, Chunk DEF TypeOK
  <2> HIDE DEF p
  <2> QED
    BY <1>6, <2>2
<1> HIDE DEF p
<1>8. inst' \in [Insts -> InstType] /\ inst'[i] = p
      /\ \A j \in Insts \ {i} : inst'[j] = inst[j]
  BY <1>1, <1>5, <1>6 DEF TypeOK
<1>9. /\ rtQueue' \in [Queues -> SUBSET (Nat \X Insts)]
      /\ rtQueue'[busq] = rtQueue[busq] \ {e}
      /\ \A q \in Queues \ {busq} : rtQueue'[q] = rtQueue[q]
  BY <1>1, <1>5 DEF TypeOK
<1>10. TypeOK'
  BY <1>1, <1>5, <1>8, <1>9 DEF TypeOK
<1>11. /\ Times' /\ OnTime'
       /\ \A q \in Queues : \A f, g \in rtQueue'[q] : f[2] = g[2] => f = g
  <2>1. Times' /\ \A q \in Queues : \A f, g \in rtQueue'[q] : f[2] = g[2] => f = g
    BY <1>1, <1>9, TimesShrink
  <2>2. \A q \in Queues : rtQueue'[q] \subseteq rtQueue[q]
    BY <1>9
  <2>3. Punctual' => Punctual /\ bufStart <= e[1] /\ \A f \in batch' : bufStart <= f[1]
    BY <1>1, <1>5 DEF OnTime, Punctual
  <2> QED
    BY <1>1, <1>2, <2>1, <2>2, <2>3 DEF OnTime
<1>12. OneEach'
  <2>1. \A f, g \in batch' : f[2] = g[2] => f = g
    BY <1>1, <1>5 DEF OneEach, InBatch
  <2> QED
    BY <1>1, <1>11, <2>1 DEF OneEach
<1>13. Batching'
  <2>1. ASSUME NEW f \in batch'
        PROVE  /\ \A g \in rtQueue'[busq] : g[2] # f[2]
               /\ f[1] < bufEnd
               /\ inst'[f[2]].end > bufEnd => f[1] + inst'[f[2]].chunk = Onward(f[1])
               /\ inst'[f[2]].offset + inst'[f[2]].chunk <= FrameCount
    <3>1. CASE f = e
      BY <1>4, <1>5, <1>7, <1>8, <1>9, <3>1
    <3>2. CASE f # e
      <4>1. f \in batch /\ f[2] \in Insts /\ f[2] # i
        BY <1>1, <1>5, <3>2 DEF InBatch, TypeOK
      <4> QED
        BY <1>8, <1>9, <4>1 DEF Batching
    <3> QED
      BY <3>1, <3>2
  <2>2. \A s : Onward(s)' = Onward(s)
    BY <1>1, <1>2 DEF Onward
  <2> QED
    BY <1>1, <1>2, <1>5, <2>1, <2>2 DEF Batching
<1>14. ASSUME NEW j \in Insts PROVE Place(j)'
  <2>1. InHeap(j)' <=> InHeap(j)
    BY <1>1 DEF InHeap
  <2>2. CASE j = i
    <3>1. Queued(i)' = Queued(i) \ {busq}
      BY <1>5, <1>9 DEF Queued
    <3>2. Ahead(i)' = Ahead(i) \ {busq}
      BY <1>1, <1>5, <1>9, DueFrame DEF Ahead
    <3>3. InBatch(i)' /\ Held(i)'
      BY <1>1 DEF InBatch, Held
    <3>4. Waits(i)' = Waits(i)
      BY <1>2, <1>5, <2>2, <3>2, <3>3 DEF Waits
    <3>5. Queued(i)' \cup Waits(i)' \subseteq inst'[i].slot
      BY <1>5, <1>6, <1>8, <3>1, <3>4
    <3>6. inst'[i].alive /\ inst'[i].refs = 1 + Cardinality(Queued(i)')
          /\ inst'[i].slot \in Slots
      BY <1>5, <1>6, <1>8, <3>1
    <3>7. ~InHeap(i)' /\ i \notin cur'
      BY <1>1, <1>5, <2>1, <2>2
    <3>8. Phase(inst[i], Queued(i), Waits(i))'
      <4>1. Queued(i)' \cup Waits(i)' = Queued(i) \cup Waits(i)
            /\ (Queued(i) \subseteq Waits(i) => Queued(i)' \subseteq Waits(i)')
        BY <1>5, <3>1, <3>4
      <4> QED
        BY <1>2, <1>5, <1>6, <1>8, <3>4, <4>1 DEF Phase, Walked, Rested
    <3>9. \E s \in Nat : At(i, s)'
      <4>1. PICK s \in Nat : At(i, s)
        BY <1>5
      <4>2. \A q \in Queues : \A f \in rtQueue'[q] : f \in rtQueue[q] /\ (Due(f, q)' <=> Due(f, q))
        BY <1>1, <1>9, DueFrame
      <4>3. \A t : Onward(t)' = Onward(t)
        BY <1>1, <1>2 DEF Onward
      <4>4. e[1] = s /\ \A f \in batch' : f = e \/ f[2] # i
        BY <1>1, <1>5, <4>1 DEF InBatch
      <4>5. At(i, s)'
        BY <4>1, <4>2, <4>3, <4>4 DEF At
      <4> QED
        BY <4>5
    <3>10. InSlice(i)'
      BY <1>1, <1>5, <3>5, <3>8, <3>9 DEF InSlice, Rest
    <3> QED
      BY <1>1, <1>5, <2>2, <3>3, <3>5, <3>6, <3>7, <3>10 DEF Place
  <2>3. CASE j # i
    <3>1. Place(j)
      BY DEF Places
    <3>2. /\ Held(j) /\ fate[j] = "panicked" => audioPc' = "play" /\ panic'
          /\ audioPc' \notin Rest \cup {"drain"}
      BY <1>1, <3>1 DEF Place, InSlice, Rest
    <3>3. /\ Queued(j)' = Queued(j) /\ Ahead(j)' = Ahead(j) /\ (InBatch(j)' <=> InBatch(j))
          /\ \A s \in Nat : At(j, s) => At(j, s)'
      <4>1. \A q \in Queues : {f \in rtQueue'[q] : f[2] = j} = {f \in rtQueue[q] : f[2] = j}
        BY <1>5, <1>9, <2>3
      <4>2. {f \in batch' : f[2] = j} = {f \in batch : f[2] = j}
        BY <1>1, <2>3
      <4> QED
        BY <1>1, <4>1, <4>2, DueFrame, QueueFrame
    <3> QED
      BY <1>1, <1>2, <1>8, <2>1, <2>3, <3>1, <3>2, <3>3, PlaceFrame
  <2> QED
    BY <2>2, <2>3
<1> QED
  BY <1>3, <1>10, <1>11, <1>12, <1>13, <1>14 DEF Places

\* What exec and the requeueing or release make of an instrument that was popped: R
\* are the other queues it is on, W the buses on which it waited in the slice.
LEMMA Settling ==
  ASSUME busq \in Queues, bufEnd \in Nat, NEW p \in InstType, NEW cut \in BOOLEAN,
         NEW R, NEW W, busq \in W, busq \notin R, R \cup W \subseteq p.slot, p.slot \in Slots,
         cut => p.needs, p.alive, p.refs = 1 + Cardinality(R), Phase(p, R, W),
         NEW x, x = Exec(p, cut), NEW y, y = Settled(x), NEW V, V = W \ {busq},
         NEW Q, Q = IF x.end > bufEnd THEN R \cup {busq} ELSE R
  PROVE  /\ x \in InstType /\ x.chunk = p.chunk /\ x.offset = p.offset
         /\ cut => x.end = 0
         /\ ~cut => x.end = p.end
         /\ p.needs => x.out = p.cursamp /\ x.cursamp = p.cursamp + (IF p.chunk > 0 THEN p.chunk ELSE 0)
         /\ ~p.needs => x.out = p.out /\ x.cursamp = p.cursamp
         /\ (x.end > bufEnd <=> Requeued(x))
         /\ y \in InstType /\ y.slot = p.slot /\ y.start = p.start
         /\ y.end = x.end /\ y.chunk = x.chunk /\ y.offset = x.offset
         /\ y.out = x.out /\ y.cursamp = x.cursamp
         /\ Walked(y, Q, V)
         /\ Q \cup V # {} => y.alive /\ y.refs = 1 + Cardinality(Q)
         /\ Q \cup V = {} => ~y.alive
<1>1. /\ x \in InstType /\ x.refs = p.refs /\ (x.alive <=> p.alive)
      /\ x.slot = p.slot /\ x.start = p.start /\ x.chunk = p.chunk /\ x.offset = p.offset
      /\ cut /\ p.needs => x.end = 0
      /\ ~(cut /\ p.needs) => x.end = p.end
      /\ p.needs => x.written = {busq}
      /\ ~p.needs => x.written = p.written \cup {busq}
      /\ p.needs => x.out = p.cursamp /\ x.cursamp = p.cursamp + (IF p.chunk > 0 THEN p.chunk ELSE 0)
      /\ ~p.needs => x.out = p.out /\ x.cursamp = p.cursamp
      /\ (x.needs <=> x.written = p.slot)
  BY ExecFields
<1>2. p.slot # {} /\ p.slot \subseteq Queues /\ R \subseteq Queues
  BY SlotFacts
<1>3. /\ Cardinality(R) \in Nat /\ Cardinality(R \cup {busq}) = Cardinality(R) + 1
      /\ (R = {} <=> Cardinality(R) = 0)
  BY <1>2, Counts
<1>4. V # p.slot /\ x.written = p.slot \ V
  BY <1>1, <1>2 DEF Phase, Walked, Rested
<1>5. x.needs <=> V = {}
  BY <1>1, <1>2, <1>4
<1>6. /\ cut => x.end = 0
      /\ ~cut => x.end = p.end
      /\ (Requeued(x) <=> x.end > bufEnd)
      /\ x.refs = 1 + Cardinality(R) /\ x.alive /\ x.end \in Nat
  BY <1>1 DEF Requeued, InstType
<1>7. /\ x.end > bufEnd => Q \cup V = p.slot
      /\ x.end <= bufEnd => Q \subseteq V
  <2>1. CASE x.end > bufEnd
    <3>1. ~cut /\ p.end > bufEnd
      BY <1>6, <2>1
    <3> QED
      BY <1>6, <2>1, <3>1 DEF Phase, Walked, Rested
  <2>2. CASE x.end <= bufEnd
    <3>1. Q = R
      BY <1>6, <2>2
    <3>2. R \subseteq W
      BY <1>6, <2>2 DEF Phase, Walked, Rested
    <3> QED
      BY <1>6, <2>2, <3>1, <3>2
  <2> QED
    BY <1>6, <2>1, <2>2
<1>8. /\ y \in InstType /\ y.slot = x.slot /\ y.start = x.start /\ y.end = x.end
      /\ y.chunk = x.chunk /\ y.offset = x.offset /\ y.written = x.written
      /\ (y.needs <=> x.needs) /\ y.out = x.out /\ y.cursamp = x.cursamp
      /\ Q \cup V # {} => y.alive /\ y.refs = 1 + Cardinality(Q)
      /\ Q \cup V = {} => ~y.alive
  <2>1. CASE Requeued(x)
    <3>1. y = Ref(x, 1)
      BY <2>1 DEF Settled
    <3>2. Q = R \cup {busq}
      BY <1>6, <2>1
    <3>3. /\ y \in InstType /\ y.slot = x.slot /\ y.start = x.start /\ y.end = x.end
          /\ y.chunk = x.chunk /\ y.offset = x.offset /\ y.written = x.written
          /\ (y.needs <=> x.needs) /\ y.out = x.out /\ y.cursamp = x.cursamp
          /\ (y.alive <=> x.alive) /\ y.refs = x.refs + 1
      <4>1. x \in InstType /\ 1 \in Nat
        BY <1>1
      <4> DEFINE z == Ref(x, 1)
      <4>2. /\ z \in InstType /\ z.refs = x.refs + 1
            /\ (z.alive <=> x.alive) /\ z.slot = x.slot
            /\ z.start = x.start /\ z.end = x.end
            /\ (z.needs <=> x.needs) /\ z.written = x.written
            /\ z.chunk = x.chunk /\ z.offset = x.offset
            /\ z.cursamp = x.cursamp /\ z.out = x.out
        BY <4>1, RefFields
      <4>3. y = z
        BY <3>1
      <4> HIDE DEF z
      <4> QED
        BY <4>2, <4>3
    <3>4. y.alive /\ y.refs = 1 + Cardinality(Q) /\ Q \cup V # {}
      BY <1>3, <1>6, <3>2, <3>3
    <3> QED
      BY <3>3, <3>4
  <2>2. CASE ~Requeued(x) /\ x.needs
    <3>1. y = Unref(x, 1)
      BY <2>2 DEF Settled
    <3>2. Q = R /\ V = {}
      BY <1>5, <1>6, <2>2
    <3>3. R = {}
      BY <1>6, <1>7, <2>2, <3>2
    <3>4. x.refs = 1
      BY <1>3, <1>6, <3>3
    <3>5. /\ y \in InstType /\ y.slot = x.slot /\ y.start = x.start /\ y.end = x.end
          /\ y.chunk = x.chunk /\ y.offset = x.offset /\ y.written = x.written
          /\ (y.needs <=> x.needs) /\ y.out = x.out /\ y.cursamp = x.cursamp
          /\ (y.alive <=> x.refs > 1)
      BY <1>1, <3>1, <3>4, UnrefFields
    <3>6. ~y.alive /\ Q \cup V = {}
      BY <3>2, <3>3, <3>4, <3>5
    <3> QED
      BY <3>5, <3>6
  <2>3. CASE ~Requeued(x) /\ ~x.needs
    <3>1. y = x
      BY <2>3 DEF Settled
    <3>2. Q = R /\ V # {}
      BY <1>5, <1>6, <2>3
    <3> QED
      BY <1>1, <1>6, <3>1, <3>2
  <2> QED
    BY <2>1, <2>2, <2>3
<1>9. Walked(y, Q, V)
  BY <1>1, <1>4, <1>5, <1>7, <1>8 DEF Walked
<1> QED
  BY <1>1, <1>6, <1>8, <1>9

LEMMA AddedType ==
  ASSUME NEW i \in Insts, NEW r \in InstType, busq \in Queues,
         r.offset + r.chunk <= FrameCount
  PROVE  Added(i, r) \subseteq Insts \X Queues \X (0 .. FrameCount - 1) \X Nat
<1>1. r.offset \in Nat /\ r.chunk \in Int /\ r.out \in Nat /\ FrameCount \in Nat
  BY FrameAssumption DEF InstType
<1>2. ASSUME NEW f \in 0 .. r.chunk - 1
      PROVE  r.offset + f \in 0 .. FrameCount - 1 /\ r.out + f \in Nat
  BY <1>1
<1> QED
  BY <1>2 DEF Added

LEMMA PlayNextInv ==
  ASSUME IInv, AudioTurn, Careful, UNCHANGED build,
         NEW e, NEW cut \in BOOLEAN, PlayNext(e, cut)
  PROVE  IInv'
<1> USE DEF IInv
<1> DEFINE i == e[2]
           p == Popped(e)
           x == Exec(p, cut)
           y == Settled(x)
           R == Queued(i) \ {busq}
           Q == IF x.end > bufEnd THEN R \cup {busq} ELSE R
           V == Waits(i) \ {busq}
           rest == rtQueue[busq] \ {e}
           new == IF Requeued(x) THEN rest \cup {<<e[1] + x.chunk, i>>} ELSE rest
<1>1. /\ ~MULTI_THREAD /\ audioPc = "play" /\ playIdx <= Len(PlayOrder)
      /\ e \in Ripe(rtQueue[busq]) /\ ~panic /\ (cut => inst[i].needs)
      /\ rtQueue' = [rtQueue EXCEPT ![busq] = new] /\ inst' = [inst EXCEPT ![i] = y]
      /\ mix' = mix \cup Added(i, x) /\ twice' \in BOOLEAN /\ allQSize' \in BOOLEAN
      /\ fate' = [fate EXCEPT ![i] = IF cut THEN "cut" ELSE @]
      /\ UNCHANGED <<parserPc, cur, run_status, interrupted, rtHeap, audioPc, bufStart,
                     panic, playEm, playIdx, batch>>
  BY DEF PlayNext, MayCut, TypeOK, parserVars, statusVars, sliceVars
<1> HIDE DEF new
<1>2. UNCHANGED <<bufEnd, MULTI_THREAD, busq, Rest>>
  BY <1>1 DEF bufEnd, MULTI_THREAD, busq, Rest
<1>3. Parsing'
  BY <1>1, AudioParsing DEF parserVars
<1>4. e \in rtQueue[busq] /\ e[1] < bufEnd /\ Punctual
  BY <1>1 DEF Ripe, Least, Careful
<1>5. /\ busq \in Queues /\ playIdx \in DOMAIN PlayOrder /\ e \in Nat \X Insts
      /\ i \in Insts /\ bufStart <= e[1] /\ e[1] \in Nat /\ i \notin cur
      /\ busq \in Queued(i) /\ busq \in Waits(i) /\ ~InHeap(i) /\ Held(i) /\ ~InBatch(i)
      /\ \A f \in rtQueue[busq] \ {e} : f[2] # i
      /\ inst[i] \in InstType /\ inst[i].slot \in Slots
      /\ Queued(i) \cup Waits(i) \subseteq inst[i].slot
      /\ inst[i].refs = 2 + Cardinality(R) /\ Cardinality(R) \in Nat
      /\ Phase(inst[i], Queued(i), Waits(i)) /\ fate[i] \in {"timely", "late", "cut"}
      /\ \E s \in Nat : At(i, s)
      /\ \A s \in Nat : At(i, s) => e[1] = s
  BY <1>1, <1>4, AtTurn
<1>6. batch = {} /\ bufStart \in Nat /\ bufEnd \in Nat /\ bufEnd >= bufStart
  BY <1>1, FrameAssumption DEF Batching, TypeOK, bufEnd
<1>7. /\ p \in InstType /\ p.refs = 1 + Cardinality(R) /\ p.alive
      /\ p.slot = inst[i].slot /\ p.end = inst[i].end /\ (p.needs <=> inst[i].needs)
      /\ p.written = inst[i].written
      /\ p.end > bufEnd => e[1] + p.chunk = bufEnd
      /\ p.offset + p.chunk <= FrameCount
  <2>1. /\ p \in InstType /\ p.refs = inst[i].refs - 1 /\ (p.alive <=> inst[i].refs > 1)
        /\ p.slot = inst[i].slot /\ p.end = inst[i].end /\ (p.needs <=> inst[i].needs)
        /\ p.written = inst[i].written
        /\ p.chunk = ChunkSamps(e[1], inst[i].end) /\ p.offset = Offset(e[1])
    BY <1>4, <1>5, <1>6, PoppedFields
  <2>2. inst[i].end \in Nat
    BY <1>5 DEF InstType
  <2>3. /\ inst[i].end > bufEnd => e[1] + ChunkSamps(e[1], inst[i].end) = bufEnd
        /\ Offset(e[1]) + ChunkSamps(e[1], inst[i].end) <= FrameCount
    BY <1>4, <1>5, <1>6, <2>2, Chunk
  <2> HIDE DEF p, R
  <2> QED
    BY <1>5, <2>1, <2>3
<1> HIDE DEF p
<1>8. /\ x \in InstType /\ x.chunk = p.chunk /\ x.offset = p.offset
      /\ ~cut => x.end = p.end
      /\ cut => x.end = 0
      /\ y \in InstType /\ y.slot = p.slot /\ y.end = x.end /\ Walked(y, Q, V)
      /\ Q \cup V # {} => y.alive /\ y.refs = 1 + Cardinality(Q)
      /\ Q \cup V = {} => ~y.alive
      /\ (x.end > bufEnd <=> Requeued(x))
  <2>1. Phase(p, R, Waits(i))
    BY <1>5, <1>7 DEF Phase, Walked, Rested
  <2>2. R \cup Waits(i) \subseteq p.slot /\ p.slot \in Slots /\ busq \notin R
    BY <1>5, <1>7
  <2>3. cut => p.needs
    BY <1>1, <1>7
  <2>4. x = Exec(p, cut) /\ y = Settled(x) /\ V = Waits(i) \ {busq}
        /\ Q = IF x.end > bufEnd THEN R \cup {busq} ELSE R
    OBVIOUS
  <2> HIDE DEF R, x, y, Q, V
  <2> QED
    <3>1. busq \in Queues /\ bufEnd \in Nat /\ busq \in Waits(i)
      BY <1>5, <1>6
    <3>2. p \in InstType /\ p.alive /\ p.refs = 1 + Cardinality(R)
      BY <1>7
    <3> QED
      BY <2>1, <2>2, <2>3, <2>4, <3>1, <3>2, Settling
<1> HIDE DEF x, y
<1>9. inst' \in [Insts -> InstType] /\ inst'[i] = y
      /\ \A j \in Insts \ {i} : inst'[j] = inst[j]
  BY <1>1, <1>5, <1>8 DEF TypeOK
<1>10. fate' \in [Insts -> Fates] /\ fate'[i] \in {"timely", "late", "cut"}
       /\ \A j \in Insts \ {i} : fate'[j] = fate[j]
  BY <1>1, <1>5 DEF TypeOK, Fates
<1>11. /\ \A f \in new : f \in rest \/ (f = <<bufEnd, i>> /\ x.end > bufEnd)
       /\ rest \subseteq new /\ (x.end > bufEnd => <<bufEnd, i>> \in new)
  <2>1. x.end > bufEnd => e[1] + x.chunk = bufEnd
    BY <1>6, <1>7, <1>8
  <2> QED
    BY <1>8, <2>1 DEF new
<1>12. /\ rtQueue' \in [Queues -> SUBSET (Nat \X Insts)] /\ rtQueue'[busq] = new
       /\ \A q \in Queues \ {busq} : rtQueue'[q] = rtQueue[q]
  <2>1. new \in SUBSET (Nat \X Insts)
    BY <1>5, <1>6, <1>11 DEF TypeOK
  <2> QED
    BY <1>1, <1>5, <2>1 DEF TypeOK
<1>13. TypeOK'
  <2>1. mix' \subseteq Insts \X Queues \X (0 .. FrameCount - 1) \X Nat
    BY <1>1, <1>5, <1>7, <1>8, AddedType DEF TypeOK
  <2>2. {panic', allQSize', playEm', twice'} \subseteq BOOLEAN
    BY <1>1 DEF TypeOK
  <2> HIDE DEF i
  <2> QED
    BY <1>1, <1>9, <1>10, <1>12, <2>1, <2>2 DEF TypeOK
<1>14. Times' /\ OnTime'
  <2>1. \A n \in DOMAIN PlayOrder : /\ PlayOrder[n] \in Queues
                                    /\ n < playIdx \/ n > playIdx => PlayOrder[n] # busq
    BY <1>5, PlayOrderAssumption DEF Queues, busq, TypeOK
  <2>2. \A q \in Queues \ {busq} : (Early(q) => Early(q)') /\ (Late(q) => Late(q)')
    BY <1>2, <1>12 DEF Early, Late
  <2>3. \A q \in Queues : \A f \in rtQueue'[q] : bufStart <= f[1] /\ f[1] <= bufEnd
    BY <1>4, <1>5, <1>6, <1>11, <1>12 DEF Times, OnTime
  <2>4. \A n \in DOMAIN PlayOrder : /\ n < playIdx => Late(PlayOrder[n])'
                                    /\ n > playIdx => Early(PlayOrder[n])'
    BY <1>1, <1>4, <2>1, <2>2 DEF Times
  <2>5. OnTime'
    BY <1>1, <1>2, <1>4, <1>6, <2>3 DEF OnTime, Rest
  <2> QED
    BY <1>1, <1>2, <2>3, <2>4, <2>5 DEF Times, Rest
<1>15. OneEach'
  <2>1. ASSUME NEW q \in Queues, NEW f \in rtQueue'[q], NEW g \in rtQueue'[q], f[2] = g[2]
        PROVE  f = g
    <3>1. CASE q # busq
      BY <1>12, <2>1, <3>1 DEF OneEach
    <3>2. CASE q = busq
      BY <1>5, <1>11, <1>12, <2>1, <3>2 DEF OneEach
    <3> QED
      BY <3>1, <3>2
  <2> QED
    BY <1>1, <2>1 DEF OneEach
<1>16. Batching'
  BY <1>1, <1>6 DEF Batching
<1>17. ASSUME NEW j \in Insts PROVE Place(j)'
  <2>1. (InHeap(j)' <=> InHeap(j)) /\ (InBatch(j)' <=> InBatch(j))
    BY <1>1 DEF InHeap, InBatch
  <2>2. CASE j = i
    <3>1. Queued(i)' = Q
      <4>1. (\E f \in new : f[2] = i) <=> x.end > bufEnd
        BY <1>5, <1>11
      <4> QED
        BY <1>5, <1>12, <4>1 DEF Queued
    <3>2. Ahead(i)' = Ahead(i) \ {busq}
      <4>1. ~ \E f \in new : f[2] = i /\ f[1] < bufEnd
        BY <1>5, <1>6, <1>11
      <4> QED
        BY <1>1, <1>2, <1>5, <1>12, <4>1, DueFrame DEF Ahead, Due
    <3>3. Waits(i)' = V
      BY <1>5, <2>1, <2>2, <3>2 DEF Waits
    <3>4. V \subseteq Queued(i)
      BY <1>5 DEF Waits, Ahead, Queued
    <3> HIDE DEF Q, V
    <3>5. Held(i)' <=> Q \cup V # {}
      <4>1. V # {} => Q # {}
        BY <3>4 DEF Q, V
      <4> QED
        BY <1>5, <2>1, <2>2, <3>1, <4>1 DEF Held
    <3>6. ~InHeap(i)' /\ i \notin cur'
      BY <1>1, <1>5, <2>1, <2>2
    <3>7. Q \cup V \subseteq p.slot
      BY <1>5, <1>7 DEF Q, V
    <3>8. Phase(inst[i], Queued(i), Waits(i))'
      BY <1>2, <1>8, <1>9, <3>1, <3>3 DEF Phase, Walked
    <3>9. \E s \in Nat : At(i, s)'
      <4>1. PICK s \in Nat : At(i, s)
        BY <1>5
      <4>2. e[1] = s
        BY <1>5, <4>1
      <4>3. Onward(s)' = bufEnd /\ Onward(s) = bufEnd
        BY <1>1, <1>2, <1>5, <1>6, <4>2 DEF Onward
      <4>4. ASSUME NEW q \in Queues, NEW f \in rtQueue'[q], f[2] = i
            PROVE  f[1] = IF Due(f, q)' THEN s ELSE Onward(s)'
        <5>1. Due(f, q)' <=> Due(f, q)
          BY <1>1, DueFrame
        <5>2. CASE q = busq
          <6>1. f[1] = bufEnd
            BY <1>5, <1>11, <1>12, <4>4, <5>2
          <6>2. ~Due(f, q)
            BY <1>6, <6>1 DEF Due
          <6> QED
            BY <4>3, <5>1, <6>1, <6>2
        <5>3. CASE q # busq
          BY <1>12, <4>1, <4>3, <4>4, <5>1, <5>3 DEF At
        <5> QED
          BY <5>2, <5>3
      <4>5. At(i, s)'
        BY <1>1, <1>6, <4>4 DEF At
      <4> QED
        BY <4>5
    <3>10. CASE Held(i)'
      <4>1. y.alive /\ y.refs = 1 + Cardinality(Q)
        BY <1>8, <3>5, <3>10
      <4>2. y.slot \in Slots /\ y.slot = p.slot
        BY <1>5, <1>7, <1>8
      <4>3. InSlice(i)'
        BY <1>1, <1>9, <1>10, <3>3, <3>7, <3>8, <3>9, <4>2 DEF InSlice, Rest
      <4> QED
        BY <1>9, <1>10, <2>2, <3>1, <3>6, <3>7, <3>10, <4>1, <4>2, <4>3 DEF Place
    <3>11. CASE ~Held(i)'
      <4>1. ~y.alive
        BY <1>8, <3>5, <3>11
      <4> QED
        BY <1>9, <2>2, <3>6, <3>11, <4>1 DEF Place
    <3> QED
      BY <3>10, <3>11
  <2>3. CASE j # i
    <3>1. Place(j)
      BY DEF Places
    <3>2. /\ Held(j) /\ fate[j] = "panicked" => audioPc' = "play" /\ panic'
          /\ audioPc' \notin Rest \cup {"drain"}
      BY <1>1, <3>1 DEF Place, InSlice, Rest
    <3>3. Queued(j)' = Queued(j) /\ Ahead(j)' = Ahead(j) /\ \A s \in Nat : At(j, s) => At(j, s)'
      <4>1. \A q \in Queues : {f \in rtQueue'[q] : f[2] = j} = {f \in rtQueue[q] : f[2] = j}
        BY <1>5, <1>11, <1>12, <2>3
      <4> QED
        BY <1>1, <4>1, DueFrame, QueueFrame
    <3> QED
      BY <1>1, <1>2, <1>9, <1>10, <2>1, <2>3, <3>1, <3>2, <3>3, PlaceFrame
  <2> QED
    BY <2>2, <2>3
<1> QED
  BY <1>3, <1>13, <1>14, <1>15, <1>16, <1>17 DEF Places

\* Nothing past the slice is ever taken, so the batch is the whole queue.
LEMMA BatchIsWholeQueue ==
  ASSUME Batching, NEW cuts, PlayBatch(cuts)
  PROVE  rtQueue[busq] = {}
  BY DEF Batching, PlayBatch, GatherGoesOn

LEMMA PlayBatchInv ==
  ASSUME IInv, AudioTurn, UNCHANGED build, NEW cuts, PlayBatch(cuts)
  PROVE  IInv'
<1> USE DEF IInv
<1> DEFINE B == {e[2] : e \in batch}
           x(i) == Exec(inst[i], i \in cuts)
           y(i) == Settled(x(i))
           new == {<<e[1] + x(e[2]).chunk, e[2]>> : e \in {f \in batch : Requeued(x(f[2]))}}
           Q(i) == IF x(i).end > bufEnd THEN Queued(i) \cup {busq} ELSE Queued(i)
           V(i) == Waits(i) \ {busq}
<1>1. /\ audioPc = "play" /\ playIdx <= Len(PlayOrder) /\ batch # {} /\ rtQueue[busq] = {}
      /\ cuts \subseteq B /\ (\A i \in cuts : inst[i].needs)
      /\ UNCHANGED <<parserPc, cur, run_status, interrupted, rtHeap, audioPc, bufStart,
                     panic, playEm>>
      /\ batch' = {} /\ playIdx' = playIdx + 1
      /\ fate' = [i \in Insts |-> IF i \in cuts THEN "cut" ELSE fate[i]]
  BY BatchIsWholeQueue DEF PlayBatch, MayCut, parserVars, statusVars, sliceVars
<1>2. /\ rtQueue' = [rtQueue EXCEPT ![busq] = @ \cup new]
      /\ inst' = [i \in Insts |-> IF i \in B THEN y(i) ELSE inst[i]]
      /\ mix' = mix \cup UNION {Added(i, x(i)) : i \in B}
      /\ twice' \in BOOLEAN /\ allQSize' \in BOOLEAN
  <2> DEFINE r == [i \in B |-> x(i)]
             again == {e \in batch : Requeued(r[e[2]])}
             added == UNION {Added(i, r[i]) : i \in DOMAIN r}
  <2>1. /\ rtQueue' = [rtQueue EXCEPT ![busq] =
                         @ \cup {<<e[1] + r[e[2]].chunk, e[2]>> : e \in again}]
        /\ inst' = [i \in Insts |-> IF i \in DOMAIN r THEN Settled(r[i]) ELSE inst[i]]
        /\ mix' = mix \cup added
        /\ twice' = (twice \/ added \cap mix # {})
        /\ allQSize' = (allQSize \/ rtQueue'[busq] # {})
    BY DEF PlayBatch
  <2>2. DOMAIN r = B /\ \A i \in B : r[i] = x(i)
    OBVIOUS
  <2>3. \A e \in batch : e[2] \in B /\ r[e[2]] = x(e[2])
    OBVIOUS
  <2> HIDE DEF r, x, B
  <2>4. again = {f \in batch : Requeued(x(f[2]))}
    BY <2>3
  <2>5. {<<e[1] + r[e[2]].chunk, e[2]>> : e \in again} = new
    BY <2>3, <2>4
  <2>6. added = UNION {Added(i, x(i)) : i \in B}
    BY <2>2
  <2>7. twice' \in BOOLEAN /\ allQSize' \in BOOLEAN
    BY <2>1 DEF TypeOK
  <2>8. inst' = [i \in Insts |-> IF i \in B THEN y(i) ELSE inst[i]]
    BY <2>1, <2>2
  <2> HIDE DEF again, added, new
  <2> QED
    BY <2>1, <2>5, <2>6, <2>7, <2>8
<1> HIDE DEF x, y, new
<1>3. UNCHANGED <<bufEnd, MULTI_THREAD, Rest>>
  BY <1>1 DEF bufEnd, MULTI_THREAD, Rest
<1>4. Parsing'
  BY <1>1, AudioParsing DEF parserVars
<1>5. /\ busq \in Queues /\ playIdx \in DOMAIN PlayOrder
      /\ bufStart \in Nat /\ bufEnd \in Nat /\ bufEnd >= bufStart /\ ~panic
  <2>1. bufStart \in Nat
    BY DEF TypeOK
  <2>2. bufEnd \in Nat /\ bufEnd >= bufStart
    BY <2>1, FrameAssumption DEF bufEnd
  <2>3. ~panic
    BY <1>1 DEF Batching
  <2> QED
    BY <1>1, <2>1, <2>2, <2>3, Playing
<1>6. B \subseteq Insts
  BY DEF TypeOK
<1>7. ASSUME NEW i \in B
      PROVE  /\ InBatch(i) /\ Held(i) /\ ~InHeap(i) /\ busq \in Waits(i) /\ busq \notin Queued(i)
             /\ inst[i] \in InstType /\ inst[i].slot \in Slots
             /\ Queued(i) \cup Waits(i) \subseteq inst[i].slot
             /\ inst[i].alive /\ inst[i].refs = 1 + Cardinality(Queued(i))
             /\ Phase(inst[i], Queued(i), Waits(i)) /\ fate[i] \in {"timely", "late", "cut"}
             /\ i \notin cur /\ \E s \in Nat : At(i, s)
             /\ inst[i].offset + inst[i].chunk <= FrameCount
  <2>1. PICK e \in batch : e[2] = i
    OBVIOUS
  <2>2. InBatch(i) /\ Held(i) /\ busq \in Waits(i) /\ i \in Insts
    BY <1>5, <1>6, <2>1 DEF InBatch, Held, Waits
  <2>3. busq \notin Queued(i)
    BY <1>1 DEF Queued
  <2>4. inst[i].offset + inst[i].chunk <= FrameCount
    BY <2>1 DEF Batching
  <2>5. Place(i)
    BY <2>2 DEF Places
  <2> QED
    BY <1>1, <1>5, <2>2, <2>3, <2>4, <2>5 DEF Place, InSlice, TypeOK
<1>8. ASSUME NEW i \in B
      PROVE  /\ x(i) \in InstType /\ x(i).chunk = inst[i].chunk /\ x(i).offset = inst[i].offset
             /\ x(i).end > bufEnd => inst[i].end > bufEnd
             /\ (x(i).end > bufEnd <=> Requeued(x(i)))
             /\ y(i) \in InstType /\ y(i).slot = inst[i].slot /\ Walked(y(i), Q(i), V(i))
             /\ Q(i) \cup V(i) # {} => y(i).alive /\ y(i).refs = 1 + Cardinality(Q(i))
             /\ Q(i) \cup V(i) = {} => ~y(i).alive
  <2> DEFINE xx == x(i)
             yy == y(i)
             QQ == Q(i)
             VV == V(i)
  <2>1. PICK c \in BOOLEAN : c <=> i \in cuts
    OBVIOUS
  <2>2. c = (i \in cuts)
    BY <2>1
  <2>3. xx = Exec(inst[i], c) /\ yy = Settled(xx) /\ VV = Waits(i) \ {busq}
        /\ QQ = IF xx.end > bufEnd THEN Queued(i) \cup {busq} ELSE Queued(i)
    BY <2>2 DEF x, y
  <2>4. c => inst[i].needs
    BY <1>1, <2>1
  <2> HIDE DEF xx, yy, QQ, VV
  <2>5. /\ xx \in InstType /\ xx.chunk = inst[i].chunk /\ xx.offset = inst[i].offset
        /\ c => xx.end = 0
        /\ ~c => xx.end = inst[i].end
        /\ (xx.end > bufEnd <=> Requeued(xx))
        /\ yy \in InstType /\ yy.slot = inst[i].slot /\ Walked(yy, QQ, VV)
        /\ QQ \cup VV # {} => yy.alive /\ yy.refs = 1 + Cardinality(QQ)
        /\ QQ \cup VV = {} => ~yy.alive
    <3>1. /\ busq \in Queues /\ bufEnd \in Nat /\ busq \in Waits(i)
          /\ busq \notin Queued(i) /\ Queued(i) \cup Waits(i) \subseteq inst[i].slot
          /\ inst[i].slot \in Slots /\ inst[i] \in InstType /\ inst[i].alive
          /\ inst[i].refs = 1 + Cardinality(Queued(i))
          /\ Phase(inst[i], Queued(i), Waits(i))
      BY <1>5, <1>7
    <3> QED
      BY <2>3, <2>4, <3>1, Settling
  <2>6. xx.end > bufEnd => inst[i].end > bufEnd
    BY <1>5, <2>5
  <2> QED
    BY <2>5, <2>6 DEF xx, yy, QQ, VV
<1>9. \A f : f \in new <=> \E e \in batch : x(e[2]).end > bufEnd /\ f = <<Onward(e[1]), e[2]>>
  <2>1. ASSUME NEW e \in batch
        PROVE  /\ x(e[2]).end > bufEnd <=> Requeued(x(e[2]))
               /\ x(e[2]).end > bufEnd => e[1] + x(e[2]).chunk = Onward(e[1])
    <3>1. e[2] \in B
      OBVIOUS
    <3>2. /\ x(e[2]).end > bufEnd => inst[e[2]].end > bufEnd
          /\ x(e[2]).chunk = inst[e[2]].chunk
          /\ x(e[2]).end > bufEnd <=> Requeued(x(e[2]))
      BY <1>8, <3>1
    <3> QED
      BY <3>2 DEF Batching
  <2> QED
    BY <2>1 DEF new
<1>10. ASSUME NEW e \in batch
       PROVE  /\ e[2] \in B /\ e[1] \in Nat /\ Onward(e[1]) \in Nat /\ Onward(e[1]) <= bufEnd
              /\ Punctual => Onward(e[1]) = bufEnd
  <2>1. e[1] \in Nat /\ e[1] < bufEnd /\ (Punctual => bufStart <= e[1])
    BY DEF TypeOK, Batching, OnTime
  <2>2. 0 \in Nat
    OBVIOUS
  <2>3. Onward(e[1]) \in Nat /\ Onward(e[1]) <= bufEnd /\ (bufStart <= e[1] => Onward(e[1]) = bufEnd)
    BY <1>5, <2>1, <2>2, Chunk
  <2> QED
    BY <2>1, <2>3
<1>11. \A f \in new : /\ f[2] \in B /\ f = <<f[1], f[2]>> /\ f[1] \in Nat /\ f[1] <= bufEnd
                      /\ Punctual => f[1] = bufEnd
                      /\ x(f[2]).end > bufEnd
  BY <1>9, <1>10
<1>12. \A q \in Queues : /\ q # busq => \A e : Due(e, q)' <=> Due(e, q)
                         /\ q = busq => \A e : ~Due(e, q)'
  BY <1>1, <1>5, Passing
<1>13. /\ inst' \in [Insts -> InstType]
       /\ \A i \in B : inst'[i] = y(i)
       /\ \A i \in Insts \ B : inst'[i] = inst[i]
  BY <1>2, <1>6, <1>8 DEF TypeOK
<1>14. /\ fate' \in [Insts -> Fates]
       /\ \A i \in B : fate'[i] \in {"timely", "late", "cut"}
       /\ \A i \in Insts \ B : fate'[i] = fate[i]
  BY <1>1, <1>6, <1>7 DEF TypeOK, Fates
<1>15. /\ rtQueue' \in [Queues -> SUBSET (Nat \X Insts)] /\ rtQueue'[busq] = new
       /\ \A q \in Queues \ {busq} : rtQueue'[q] = rtQueue[q]
  <2>1. new \in SUBSET (Nat \X Insts)
    <3>1. \A f \in new : f[1] \in Nat /\ f[2] \in Insts /\ f = <<f[1], f[2]>>
      BY <1>6, <1>11
    <3> QED
      BY <3>1
  <2> QED
    BY <1>1, <1>2, <1>5, <2>1 DEF TypeOK
<1> HIDE DEF B, Q, V
<1>16. TypeOK'
  <2>1. mix' \subseteq Insts \X Queues \X (0 .. FrameCount - 1) \X Nat
    <3>1. \A i \in B : Added(i, x(i)) \subseteq Insts \X Queues \X (0 .. FrameCount - 1) \X Nat
      BY <1>5, <1>6, <1>7, <1>8, AddedType
    <3> QED
      BY <1>2, <3>1 DEF TypeOK
  <2>2. {panic', allQSize', playEm', twice'} \subseteq BOOLEAN
    BY <1>1, <1>2 DEF TypeOK
  <2>3. playIdx' \in 1 .. Len(PlayOrder) + 1
    BY <1>1, <1>5, PlayOrderAssumption DEF TypeOK
  <2> QED
    BY <1>1, <1>13, <1>14, <1>15, <2>1, <2>2, <2>3 DEF TypeOK
<1>17. Times' /\ OnTime'
  <2>1. \A n \in DOMAIN PlayOrder : /\ PlayOrder[n] \in Queues
                                    /\ n # playIdx => PlayOrder[n] # busq
    BY <1>5, PlayOrderAssumption DEF Queues, busq
  <2>2. \A n \in DOMAIN PlayOrder : /\ n < playIdx + 1 => n < playIdx \/ n = playIdx
                                    /\ n >= playIdx + 1 => n > playIdx /\ n # playIdx
                                    /\ n < playIdx => n # playIdx
    BY PlayOrderAssumption DEF TypeOK
  <2>3. \A q \in Queues \ {busq} : (Early(q) => Early(q)') /\ (Late(q) => Late(q)')
    BY <1>3, <1>15 DEF Early, Late
  <2>4. ASSUME NEW n \in DOMAIN PlayOrder, n = playIdx, Punctual PROVE Late(PlayOrder[n])'
    <3>1. PlayOrder[n] = busq
      BY <2>4 DEF busq
    <3>2. \A f \in rtQueue'[PlayOrder[n]] : f[1] >= bufEnd'
      BY <1>3, <1>5, <1>15, <1>11, <2>4, <3>1
    <3> QED
      BY <3>2 DEF Late
  <2>5. Punctual' \/ panic' => \A n \in DOMAIN PlayOrder : n < playIdx + 1 => Late(PlayOrder[n])'
    <3>1. ASSUME NEW n \in DOMAIN PlayOrder, n < playIdx, Punctual PROVE Late(PlayOrder[n])'
      BY <1>1, <2>1, <2>2, <2>3, <3>1 DEF Times
    <3>2. Punctual' \/ panic' => Punctual
      BY <1>1, <1>5 DEF Punctual
    <3> QED
      BY <2>2, <2>4, <3>1, <3>2
  <2>6. \A n \in DOMAIN PlayOrder : n >= playIdx + 1 => Early(PlayOrder[n])'
    BY <1>1, <2>1, <2>2, <2>3 DEF Times
  <2>7. \A n \in DOMAIN PlayOrder : n > playIdx + 1 \/ n = playIdx + 1 => n >= playIdx + 1
    BY PlayOrderAssumption DEF TypeOK
  <2>8. \A q \in Queues : \A f \in rtQueue'[q] : f[1] <= bufEnd
    BY <1>5, <1>15, <1>11 DEF Times
  <2>9. Times'
    BY <1>1, <1>3, <1>5, <2>5, <2>6, <2>7, <2>8 DEF Times, Rest
  <2>10. Punctual' => Punctual /\ \A q \in Queues : \A f \in rtQueue'[q] : bufStart <= f[1]
    BY <1>5, <1>15, <1>11 DEF OnTime, Punctual
  <2> QED
    BY <1>1, <1>3, <2>9, <2>10 DEF OnTime, Rest
<1>18. OneEach'
  <2>1. \A f, g \in new : f[2] = g[2] => f = g
    BY <1>9 DEF OneEach
  <2> QED
    BY <1>1, <1>15, <2>1 DEF OneEach
<1>19. Batching'
  BY <1>1 DEF Batching
<1>20. ASSUME NEW j \in Insts PROVE Place(j)'
  <2>1. (InHeap(j)' <=> InHeap(j)) /\ ~InBatch(j)'
    BY <1>1 DEF InHeap, InBatch
  <2>2. CASE j \in B
    <3>1. Queued(j)' = Q(j)
      <4>1. (\E f \in new : f[2] = j) <=> x(j).end > bufEnd
        <5>1. x(j).end > bufEnd => \E f \in new : f[2] = j
          <6>1. PICK e \in batch : e[2] = j
            BY <2>2 DEF B
          <6>2. x(j).end > bufEnd => <<Onward(e[1]), e[2]>> \in new
            BY <1>9, <6>1
          <6> QED
            BY <6>1, <6>2
        <5> QED
          BY <1>11, <5>1
      <4> QED
        <5>1. \A q \in Queues : q \in Queued(j)' <=> IF q = busq THEN x(j).end > bufEnd
                                                               ELSE q \in Queued(j)
          BY <1>5, <1>15, <4>1 DEF Queued
        <5>2. Queued(j)' \subseteq Queues /\ Queued(j) \subseteq Queues
          BY DEF Queued
        <5> QED
          BY <1>5, <1>7, <2>2, <5>1, <5>2 DEF Q
    <3>2. Ahead(j)' = V(j)
      <4>1. busq \notin Ahead(j)
        BY <1>7, <2>2 DEF Ahead, Queued
      <4>2. \A q \in Queues : q \in Ahead(j)' <=> q \in Ahead(j)
        BY <1>5, <1>12, <1>15, <4>1 DEF Ahead
      <4>3. Ahead(j)' \subseteq Queues /\ Ahead(j) \subseteq Queues
        BY DEF Ahead
      <4> QED
        BY <2>2, <1>7, <4>1, <4>2, <4>3 DEF V, Waits
    <3>3. Waits(j)' = V(j)
      BY <2>1, <3>2 DEF Waits
    <3>4. Held(j)' <=> Q(j) \cup V(j) # {}
      <4>1. Ahead(j)' \subseteq Queued(j)'
        BY DEF Ahead, Queued
      <4> QED
        BY <2>1, <3>1, <3>2, <4>1 DEF Held
    <3>5. ~InHeap(j)' /\ j \notin cur'
      BY <1>1, <1>7, <2>1, <2>2
    <3>6. Q(j) \cup V(j) \subseteq inst[j].slot
      BY <1>7, <2>2 DEF Q, V
    <3>7. Phase(inst[j], Queued(j), Waits(j))'
      BY <1>3, <1>8, <1>13, <2>2, <3>1, <3>3 DEF Phase, Walked
    <3>8. \E s \in Nat : At(j, s)'
      <4>1. PICK s \in Nat : At(j, s)
        BY <1>7, <2>2
      <4>2. \A t : Onward(t)' = Onward(t)
        BY <1>1, <1>3 DEF Onward
      <4>3. ASSUME NEW q \in Queues, NEW f \in rtQueue'[q], f[2] = j
            PROVE  f[1] = IF Due(f, q)' THEN s ELSE Onward(s)'
        <5>1. CASE q = busq
          <6>1. PICK e \in batch : f = <<Onward(e[1]), e[2]>>
            BY <1>9, <1>15, <4>3, <5>1
          <6>2. e[1] = s
            BY <4>1, <4>3, <6>1 DEF At
          <6>3. ~Due(f, q)'
            BY <1>12, <5>1
          <6> QED
            BY <4>2, <6>1, <6>2, <6>3
        <5>2. CASE q # busq
          BY <1>15, <1>12, <4>1, <4>2, <4>3, <5>2 DEF At
        <5> QED
          BY <5>1, <5>2
      <4>4. At(j, s)'
        BY <1>1, <4>3 DEF At
      <4> QED
        BY <4>4
    <3>9. CASE Held(j)'
      <4>1. y(j).alive /\ y(j).refs = 1 + Cardinality(Q(j))
        BY <1>8, <2>2, <3>4, <3>9
      <4>2. y(j).slot \in Slots /\ y(j).slot = inst[j].slot
        BY <1>7, <1>8, <2>2
      <4>3. InSlice(j)'
        BY <1>1, <1>5, <1>13, <1>14, <2>2, <3>3, <3>6, <3>7, <3>8, <4>2 DEF InSlice, Rest
      <4> QED
        BY <1>13, <1>14, <2>2, <3>1, <3>5, <3>6, <3>9, <4>1, <4>2, <4>3 DEF Place
    <3>10. CASE ~Held(j)'
      <4>1. ~y(j).alive
        BY <1>8, <2>2, <3>4, <3>10
      <4> QED
        BY <1>13, <2>2, <3>5, <3>10, <4>1 DEF Place
    <3> QED
      BY <3>9, <3>10
  <2>3. CASE j \notin B
    <3>1. Place(j)
      BY DEF Places
    <3>2. /\ Held(j) /\ fate[j] = "panicked" => audioPc' = "play" /\ panic'
          /\ audioPc' \notin Rest \cup {"drain"}
      BY <1>1, <3>1 DEF Place, InSlice, Rest
    <3>3. Queued(j)' = Queued(j) /\ Ahead(j)' = Ahead(j) /\ \A s \in Nat : At(j, s) => At(j, s)'
      <4>1. \A f \in new : f[2] # j
        BY <1>11, <2>3
      <4>2. \A q \in Queues : {f \in rtQueue'[q] : f[2] = j} = {f \in rtQueue[q] : f[2] = j}
        BY <1>1, <1>5, <1>15, <4>1
      <4>3. {f \in batch' : f[2] = j} = {f \in batch : f[2] = j}
        BY <1>1, <2>3 DEF B
      <4>4. \A q \in Queues : \A f \in rtQueue[q] : Due(f, q)' <=> Due(f, q)
        BY <1>1, <1>12
      <4> QED
        BY <1>1, <4>2, <4>3, <4>4, QueueFrame
    <3>4. ~InBatch(j)
      BY <2>3 DEF InBatch, B
    <3>5. inst'[j] = inst[j] /\ fate'[j] = fate[j]
      BY <1>13, <1>14, <2>3
    <3> QED
      BY <1>1, <1>3, <2>1, <3>1, <3>2, <3>3, <3>4, <3>5, PlaceFrame
  <2> QED
    BY <2>2, <2>3
<1> QED
  BY <1>4, <1>16, <1>17, <1>18, <1>19, <1>20 DEF Places

LEMMA SendInv ==
  ASSUME IInv, AudioTurn, UNCHANGED build, Send
  PROVE  IInv'
<1> USE DEF IInv
<1>1. /\ audioPc = "send" /\ audioPc' = "status" /\ bufStart' = bufEnd
      /\ mix' = {} /\ twice' = FALSE
      /\ UNCHANGED <<parserPc, cur, run_status, interrupted, rtHeap, inst, fate, panic,
                     playEm, rtQueue, playIdx, batch, allQSize>>
  BY DEF Send, parserVars, statusVars, bufEnd
<1>2. /\ bufEnd \in Nat /\ bufEnd' \in Nat /\ bufEnd < bufEnd' /\ Rest' = Rest
  BY <1>1, FrameAssumption DEF bufEnd, Rest, TypeOK
<1>3. TypeOK'
  <2>1. {panic', allQSize', playEm', twice'} \subseteq BOOLEAN
    BY <1>1 DEF TypeOK
  <2> QED
    BY <1>1, <1>2, <2>1 DEF TypeOK
<1>4. Parsing'
  BY <1>1, AudioParsing DEF parserVars
<1>5. batch = {}
  BY <1>1, WalkOver
<1>6. \A q \in Queues : \A e \in rtQueue[q] :
        /\ e[1] \in Nat /\ e[1] <= bufEnd /\ ~Due(e, q) /\ Due(e, q)'
        /\ Punctual => e[1] = bufEnd
  <2>1. ASSUME NEW q \in Queues, NEW e \in rtQueue[q]
        PROVE  /\ e[1] \in Nat /\ e[1] <= bufEnd /\ ~Due(e, q) /\ Due(e, q)'
               /\ Punctual => e[1] = bufEnd
    <3>1. e[1] \in Nat /\ e[1] <= bufEnd
      BY DEF TypeOK, Times
    <3>2. ~Due(e, q) /\ ~Passed(q)'
      BY <1>1, WalkOver DEF Passed
    <3>3. Punctual => e[1] >= bufEnd
      BY <1>1 DEF Times, Late
    <3> QED
      BY <1>2, <3>1, <3>2, <3>3 DEF Due
  <2> QED
    BY <2>1
<1>7. Times' /\ OnTime'
  <2>1. Punctual' => Punctual /\ \A e \in rtHeap' : e[1] >= bufStart'
    BY <1>1 DEF OnTime, Punctual
  <2>2. \A q \in Queues : \A e \in rtQueue'[q] : e[1] <= bufEnd' /\ e[1] < bufEnd'
    BY <1>1, <1>2, <1>6
  <2>3. Times'
    BY <1>1, <1>2, <2>2 DEF Times, Early, Rest
  <2>4. Punctual' => \A q \in Queues : \A e \in rtQueue'[q] : bufStart' <= e[1] /\ e[1] = bufStart'
    BY <1>1, <1>2, <1>6, <2>1
  <2> QED
    BY <1>1, <1>2, <1>5, <2>1, <2>3, <2>4 DEF OnTime, Rest
<1>8. OneEach' /\ Batching'
  BY <1>1, <1>5 DEF OneEach, Batching
<1>9. ASSUME NEW j \in Insts PROVE Place(j)'
  <2>1. (InHeap(j)' <=> InHeap(j)) /\ ~InBatch(j) /\ ~InBatch(j)' /\ (j \in cur' <=> j \in cur)
    BY <1>1, <1>5 DEF InHeap, InBatch
  <2>2. Queued(j)' = Queued(j)
    BY <1>1 DEF Queued
  <2>3. Held(j)' <=> Held(j)
    BY <2>1, <2>2 DEF Held
  <2>4. Place(j)
    BY DEF Places
  <2>5. CASE ~Held(j)
    BY <1>1, <2>1, <2>3, <2>4, <2>5 DEF Place
  <2>6. CASE Held(j)
    <3>1. /\ fate[j] \in {"timely", "late", "cut"} /\ inst[j].slot \in Slots
          /\ Queued(j) \subseteq inst[j].slot /\ ~InHeap(j) /\ j \notin cur
          /\ inst[j].alive /\ inst[j].refs = 1 + Cardinality(Queued(j))
          /\ Phase(inst[j], Queued(j), Waits(j))
          /\ \E s \in Nat : At(j, s)
      BY <1>1, <2>4, <2>6 DEF Place, InSlice
    <3>2. Waits(j) = {}
      BY <1>1, WalkOver
    <3>3. inst[j].slot # {} /\ inst[j].end \in Nat
      BY <3>1, SlotFacts DEF TypeOK, InstType
    <3>4. inst[j].needs /\ Queued(j) = inst[j].slot
      <4>1. Walked(inst[j], Queued(j), {})
        BY <3>1, <3>2, <3>3 DEF Phase, Rested
      <4>2. Queued(j) # {}
        BY <2>1, <2>6 DEF Held
      <4> QED
        BY <1>2, <3>3, <4>1, <4>2 DEF Walked
    <3>5. Waits(j)' = Queued(j)
      <4>1. Ahead(j)' = Queued(j)'
        BY <1>1, <1>6 DEF Ahead, Queued
      <4> QED
        BY <2>1, <2>2, <4>1 DEF Waits
    <3>6. Rested(inst[j], Waits(j))'
      BY <1>1, <3>4, <3>5 DEF Rested
    <3>7. \E s \in Nat : At(j, s)'
      <4>1. PICK s \in Nat : At(j, s)
        BY <3>1
      <4>2. Onward(s) \in Nat
        BY <1>2, FrameAssumption DEF Onward
      <4>3. PICK t \in Nat : t = Onward(s)
        BY <4>2
      <4>4. \A q \in Queues : \A e \in rtQueue[q] : e[2] = j => e[1] = t /\ Due(e, q)'
        BY <1>6, <4>1, <4>3 DEF At
      <4>5. At(j, t)'
        BY <1>1, <1>5, <4>4 DEF At
      <4> QED
        BY <4>5
    <3>8. InSlice(j)'
      BY <1>1, <3>1, <3>4, <3>5, <3>6, <3>7 DEF InSlice, Phase
    <3> QED
      BY <1>1, <2>1, <2>2, <2>3, <2>6, <3>1, <3>4, <3>8 DEF Place
  <2> QED
    BY <2>5, <2>6
<1> QED
  BY <1>3, <1>4, <1>7, <1>8, <1>9 DEF Places

-----------------------------------------------------------------------------
(* The theorems.                                                           *)

LEMMA InitInv == Init => IInv
<1> SUFFICES ASSUME Init PROVE IInv
  OBVIOUS
<1>1. TypeOK
  <2>1. inst \in [Insts -> InstType]
    BY NoInstType DEF Init
  <2>2. 1 \in 1 .. Len(PlayOrder) + 1
    BY PlayOrderAssumption
  <2>3. {panic, allQSize, playEm, twice} \subseteq BOOLEAN
    BY DEF Init
  <2> QED
    BY <2>1, <2>2, <2>3 DEF Init, TypeOK, Fates
<1>2. Parsing
  BY DEF Init, Parsing
<1>3. Times /\ OnTime
  BY DEF Init, Times, OnTime, Early, Rest
<1>4. OneEach /\ Batching
  BY DEF Init, OneEach, Batching
<1>5. ASSUME NEW i \in Insts PROVE Place(i)
  <2>1. ~InHeap(i) /\ ~Held(i) /\ i \notin cur
    BY DEF Init, InHeap, Held, InBatch, Queued
  <2>2. ~inst[i].alive
    BY NoInstType DEF Init
  <2> QED
    BY <2>1, <2>2 DEF Place
<1> QED
  BY <1>1, <1>2, <1>3, <1>4, <1>5 DEF IInv, Places

LEMMA StepInv ==
  ASSUME IInv, Careful, [Next]_vars
  PROVE  IInv'
<1>1. CASE ParserStep
  <2>1. ASSUME NEW i \in Insts, SetupFails(i) \/ ConfigureFails(i) \/ Insert(i)
        PROVE  IInv'
    BY <1>1, <2>1, SetupFailsInv, ConfigureFailsInv, InsertInv DEF ParserStep
  <2>2. ASSUME NEW i \in Insts, NEW s \in Slots, NEW t \in StartTimes, NEW d \in Durations,
               Create(i, s, t, d)
        PROVE  IInv'
    BY <1>1, <2>2, CreateInv DEF ParserStep
  <2>3. CASE ScoreEnds \/ Panic \/ PanicOver
    BY <1>1, <2>3, ParserQuiet DEF ParserStep
  <2> QED
    BY <1>1, <2>1, <2>2, <2>3 DEF ParserStep
<1>2. CASE AudioTurn /\ AudioStep
  <2>1. UNCHANGED build /\ AudioTurn
    BY <1>2 DEF AudioStep
  <2>2. CASE BeginSlice \/ DrainDone \/ NextQueue \/ PlayDone
    BY <2>1, <2>2, BeginSliceInv, DrainDoneInv, NextQueueInv, PlayDoneInv
  <2>3. CASE Send \/ SendFails \/ ReadStatus \/ EndPanic \/ Return
    BY <2>1, <2>3, SendInv, SendFailsInv, EndOfSliceInv
  <2>4. CASE \E e \in rtHeap : DrainPanic(e) \/ DrainUnconfigured(e) \/ Drain(e)
    BY <2>1, <2>4, DrainDropInv, DrainInv
  <2>5. CASE \E q \in Queues : \E e \in rtQueue[q] :
               PlayPanic(e) \/ Gather(e) \/ \E cut \in BOOLEAN : PlayNext(e, cut)
    BY <2>1, <2>5, PlayPanicInv, GatherInv, PlayNextInv
  <2>6. CASE \E cuts \in SUBSET Insts : PlayBatch(cuts)
    BY <2>1, <2>6, PlayBatchInv
  <2> QED
    BY <1>2, <2>2, <2>3, <2>4, <2>5, <2>6 DEF AudioStep
<1>3. CASE Shutdown
  BY <1>3, ParserQuiet DEF Shutdown
<1>4. CASE UNCHANGED vars
  <2>1. UNCHANGED <<build, parserPc, cur, run_status, interrupted, rtHeap, inst, fate, audioPc,
                    bufStart, panic, playEm, rtQueue, playIdx, batch, allQSize, mix, twice>>
    BY <1>4 DEF vars, parserVars, statusVars, sliceVars, playVars
  <2>2. UNCHANGED <<bufEnd, Rest, MULTI_THREAD>>
    BY <2>1 DEF bufEnd, Rest, MULTI_THREAD
  <2>3. TypeOK'
    BY <2>1 DEF IInv, TypeOK
  <2>4. Parsing' /\ Times' /\ OnTime'
    BY <2>1, <2>2 DEF IInv, Parsing, Times, OnTime, Early, Late, Punctual
  <2>5. audioPc # "stopped" =>
          \A i \in Insts : Held(i) /\ fate[i] = "panicked" => audioPc' = "play" /\ panic'
    BY <2>1 DEF IInv, Places, Place, InSlice
  <2>6. \A q \in Queues : \A e \in rtQueue[q] : Due(e, q)' <=> Due(e, q)
    BY <2>1, DueFrame
  <2> QED
    BY <2>1, <2>3, <2>4, <2>5, <2>6, QuietInv
<1> QED
  BY <1>1, <1>2, <1>3, <1>4 DEF Next, Finished

LEMMA Invariance == Spec => [](Careful => IInv)
<1>1. Init => (Careful => IInv)
  BY InitInv
<1>2. (Careful => IInv) /\ [Next]_vars => (Careful => IInv)'
  <2>1. [Next]_vars => build' = build
    BY DEF Next, ParserStep, AudioStep, Shutdown, Finished, vars
  <2> QED
    BY <2>1, StepInv DEF Careful, Punctual, MULTI_THREAD
<1> QED
  BY <1>1, <1>2, PTL DEF Spec

\* When no note is late, or late ones are played by the multi-threaded build, every
\* variable has its type: a chunk ends within its slice, whatever the note's times
\* (Instrument::setchunk, addout's assertion).
THEOREM TypeCorrect == Spec => [](Careful => TypeOK)
<1>1. IInv => TypeOK
  BY DEF IInv
<1>2. (Careful => IInv) => (Careful => TypeOK)
  BY <1>1
<1> QED
  BY <1>2, Invariance, PTL

\* Under the same condition an instrument lives exactly as long as a list of the scheduler
\* holds it: what inTraverse pops is alive, and what it requeues nowhere is released,
\* whichever bus comes last and whatever fails.
THEOREM InstrumentsLiveWhileHeld == Spec => [](Careful => AliveWhileHeld)
<1>1. ASSUME IInv PROVE AliveWhileHeld
  <2>1. ASSUME NEW i \in Insts, InHeap(i) \/ Queued(i) # {} \/ InBatch(i)
        PROVE  inst[i].alive /\ inst[i].refs = 1 + Cardinality(Queued(i))
    <3>1. Place(i)
      BY <1>1 DEF IInv, Places
    <3>2. CASE Held(i)
      BY <3>1, <3>2 DEF Place
    <3>3. CASE ~Held(i)
      <4>1. InHeap(i) /\ Queued(i) = {}
        BY <2>1, <3>3 DEF Held
      <4>2. inst[i].alive /\ inst[i].refs = 1
        BY <3>1, <4>1 DEF Place
      <4> QED
        BY <4>1, <4>2, FS_EmptySet
    <3> QED
      BY <3>2, <3>3
  <2>2. EndedIsReleased
    BY <1>1 DEF IInv, Places, Place, EndedIsReleased, Held
  <2> QED
    BY <2>1, <2>2 DEF AliveWhileHeld, HeldIsAlive
<1>2. (Careful => IInv) => (Careful => AliveWhileHeld)
  BY <1>1
<1> QED
  BY <1>2, Invariance, PTL

\* And it waits between slices on all of its buses or on none, at one position, and is
\* played in the next slice: inTraverse requeues it once for each queue it is taken from,
\* with the chunk of that slice, however late it came.
THEOREM BusesStayInStep == Spec => [](Careful => BusesInLockstep)
<1>1. ASSUME IInv, audioPc = "idle", NEW i \in Insts
      PROVE  /\ Queued(i) \in {{}, inst[i].slot}
             /\ Queued(i) # {} => inst[i].needs
             /\ Cardinality({e \in UNION {rtQueue[q] : q \in Queues} : e[2] = i}) <= 1
             /\ \A q \in Queued(i) : \A e \in rtQueue[q] : e[2] = i => e[1] < bufEnd
  <2> DEFINE S == {e \in UNION {rtQueue[q] : q \in Queues} : e[2] = i}
  <2>1. \A q \in Queues : \A e \in rtQueue[q] : /\ e[1] < bufEnd /\ Due(e, q)
                                               /\ e = <<e[1], e[2]>>
    BY <1>1 DEF IInv, Times, Early, Due, Passed, TypeOK
  <2>2. Waits(i) = Queued(i)
    <3>1. Ahead(i) = Queued(i)
      BY <2>1 DEF Ahead, Queued
    <3> QED
      BY <1>1, <3>1 DEF IInv, Batching, Waits, InBatch
  <2>3. CASE Queued(i) = {}
    <3>1. S = {}
      BY <2>3 DEF Queued
    <3> QED
      BY <2>3, <3>1, FS_EmptySet
  <2>4. CASE Queued(i) # {}
    <3>1. InSlice(i)
      BY <1>1, <2>4 DEF IInv, Places, Place, Held
    <3>2. Rested(inst[i], Waits(i))
      BY <1>1, <3>1 DEF InSlice, Rest
    <3>3. PICK s \in Nat : At(i, s)
      BY <3>1 DEF InSlice
    <3>4. S \in SUBSET {<<s, i>>}
      BY <2>1, <3>3 DEF At
    <3>5. IsFiniteSet({<<s, i>>}) /\ Cardinality({<<s, i>>}) = 1
      BY FS_Singleton
    <3>6. Cardinality(S) <= 1
      <4> HIDE DEF S
      <4>1. Cardinality(S) <= Cardinality({<<s, i>>})
        BY <3>4, <3>5, FS_Subset
      <4> QED
        BY <3>5, <4>1
    <3>7. \A q \in Queued(i) : \A e \in rtQueue[q] : e[1] < bufEnd
      BY <2>1 DEF Queued
    <3> QED
      BY <2>2, <3>2, <3>6, <3>7 DEF Rested
  <2> QED
    BY <2>3, <2>4
<1>2. (Careful => IInv) => (Careful => BusesInLockstep)
  BY <1>1 DEF BusesInLockstep
<1> QED
  BY <1>2, Invariance, PTL
-----------------------------------------------------------------------------
(* The end of the performance.                                             *)

\* inTraverse ends the playback for a reason.
Stopping ==
  /\ run_status = "RT_SHUTDOWN" => interrupted
  /\ ~playEm => /\ audioPc \in {"calm", "return", "stopped"}
                /\ interrupted \/ (~INTERACTIVE /\ QueueIsEmpty)

\* Whatever is left on a queue for the next slice has been counted.
Counted ==
  /\ ~panic /\ audioPc # "calm" /\ \A i \in Insts : fate[i] # "panicked"
  /\ audioPc \in {"drain", "play", "send"} =>
       \A q \in Queues : \A e \in rtQueue[q] : e[1] >= bufEnd => allQSize
  /\ audioPc \in {"status", "return"} => \A q \in Queues : rtQueue[q] # {} => allQSize

EInv == Stopping /\ (~INTERACTIVE => Counted)

\* The steps that play nothing and end nothing.
LEMMA ParserEnds ==
  ASSUME Careful => IInv, EInv, ParserStep
  PROVE  EInv'
<1>1. /\ UNCHANGED <<interrupted, audioPc, panic, playEm, rtQueue, bufStart, allQSize>>
      /\ run_status' \in {run_status, "RT_GOOD", "RT_PANIC"}
      /\ ~(\E i \in Insts : Insert(i)) => UNCHANGED rtHeap
      /\ (\E i \in Insts : Insert(i)) => parserPc = "insert"
      /\ \A i \in Insts : fate'[i] = "panicked" => fate[i] = "panicked"
  <2>1. ASSUME NEW i \in Insts, NEW x \in {"failed", "scheduled"},
               fate' = [fate EXCEPT ![i] = x], NEW j \in Insts, fate'[j] = "panicked"
        PROVE  fate[j] = "panicked"
    BY <2>1
  <2> QED
    BY <2>1 DEF ParserStep, SetupFails, ConfigureFails, Insert, Create, ScoreEnds, Panic,
                PanicOver, parserVars, statusVars, sliceVars, playVars
<1>2. bufEnd' = bufEnd
  BY <1>1 DEF bufEnd
<1>3. ~INTERACTIVE /\ QueueIsEmpty /\ ~playEm => QueueIsEmpty'
  <2>1. ~INTERACTIVE /\ ~playEm => parserPc = "done"
    BY DEF EInv, Stopping, Careful, Punctual, IInv, Parsing
  <2> QED
    BY <1>1, <2>1 DEF QueueIsEmpty
<1>4. Stopping'
  BY <1>1, <1>3 DEF EInv, Stopping
<1>5. Counted => Counted'
  BY <1>1, <1>2 DEF Counted
<1> QED
  BY <1>4, <1>5 DEF EInv

LEMMA AudioStopping ==
  ASSUME Stopping, AudioStep
  PROVE  Stopping'
<1>1. CASE ReadStatus
  BY <1>1 DEF ReadStatus, Stopping, QueueIsEmpty, parserVars, statusVars, playVars
<1>2. CASE EndPanic \/ Return
  BY <1>2 DEF EndPanic, Return, Stopping, QueueIsEmpty, parserVars, statusVars, sliceVars,
              playVars
<1>3. CASE BeginSlice \/ DrainDone \/ NextQueue \/ PlayDone \/ Send \/ SendFails
  <2>1. playEm
    BY <1>3 DEF Stopping, BeginSlice, DrainDone, NextQueue, PlayDone, Send, SendFails
  <2>2. playEm' = playEm /\ UNCHANGED <<run_status, interrupted>>
    BY <1>3 DEF BeginSlice, DrainDone, NextQueue, PlayDone, Send, SendFails, sliceVars,
                statusVars
  <2> QED
    BY <2>1, <2>2 DEF Stopping
<1>4. ASSUME NEW e, \/ DrainPanic(e) \/ DrainUnconfigured(e) \/ Drain(e)
                    \/ PlayPanic(e) \/ Gather(e)
                    \/ \E cut \in BOOLEAN : PlayNext(e, cut)
                    \/ \E cuts \in SUBSET Insts : PlayBatch(cuts)
      PROVE  Stopping'
  <2>1. playEm
    BY <1>4 DEF Stopping, DrainPanic, DrainUnconfigured, Drain, PlayPanic, Gather, PlayNext,
                PlayBatch
  <2>2. playEm' = playEm /\ UNCHANGED <<run_status, interrupted>>
    BY <1>4 DEF DrainPanic, DrainUnconfigured, Drain, PlayPanic, Gather, PlayNext, PlayBatch,
                sliceVars, statusVars
  <2> QED
    BY <2>1, <2>2 DEF Stopping
<1> QED
  BY <1>1, <1>2, <1>3, <1>4 DEF AudioStep

LEMMA AudioCounted ==
  ASSUME IInv, Counted, ~INTERACTIVE, AudioStep
  PROVE  Counted'
<1> USE DEF IInv
<1>1. /\ ~panic /\ \A i \in Insts : fate[i] # "panicked"
      /\ bufStart \in Nat /\ bufEnd \in Nat /\ bufEnd > bufStart
  <2>1. bufStart \in Nat
    BY DEF TypeOK
  <2>2. bufEnd \in Nat /\ bufEnd > bufStart
    BY <2>1, FrameAssumption DEF bufEnd
  <2> QED
    BY <2>1, <2>2 DEF Counted
<1>2. CASE BeginSlice
  <2>1. audioPc = "idle" /\ audioPc' = "drain" /\ ~panic'
        /\ UNCHANGED <<fate, bufStart, rtQueue>>
    BY <1>2 DEF BeginSlice
  <2>2. bufEnd' = bufEnd
    BY <2>1 DEF bufEnd
  <2>3. \A q \in Queues : \A e \in rtQueue[q] : e[1] = bufStart
    BY <2>1 DEF OnTime, Punctual, Rest
  <2>4. \A q \in Queues : \A e \in rtQueue[q] : ~(e[1] >= bufEnd)
    BY <1>1, <2>3
  <2> QED
    BY <1>1, <2>1, <2>2, <2>4 DEF Counted
<1>3. CASE DrainDone \/ NextQueue \/ PlayDone
  <2>1. /\ audioPc \in {"drain", "play"} /\ audioPc' \in {"play", "send"}
        /\ UNCHANGED <<panic, fate, bufStart, rtQueue, allQSize>>
    BY <1>3 DEF DrainDone, NextQueue, PlayDone, sliceVars, playVars
  <2>2. bufEnd' = bufEnd
    BY <2>1 DEF bufEnd
  <2> QED
    BY <1>1, <2>1, <2>2 DEF Counted
<1>4. CASE Send
  <2>1. /\ audioPc = "send" /\ audioPc' = "status"
        /\ UNCHANGED <<panic, fate, rtQueue, allQSize>>
    BY <1>4 DEF Send
  <2>2. \A q \in Queues : \A e \in rtQueue[q] : e[1] >= bufEnd
    BY <2>1 DEF Times, Late, Punctual
  <2>3. \A q \in Queues : rtQueue[q] # {} => allQSize
    BY <2>1, <2>2 DEF Counted
  <2> QED
    BY <1>1, <2>1, <2>3 DEF Counted
<1>5. CASE ReadStatus \/ EndPanic
  <2>1. /\ audioPc = "status" /\ audioPc' = "return" /\ ~panic'
        /\ UNCHANGED <<fate, rtQueue, allQSize>>
    BY <1>1, <1>5 DEF Counted, ReadStatus, EndPanic, sliceVars, playVars
  <2> QED
    BY <1>1, <2>1 DEF Counted
<1>6. CASE SendFails \/ Return
  <2>1. audioPc' \in {"idle", "stopped"} /\ UNCHANGED <<panic, fate>>
    BY <1>6 DEF SendFails, Return, sliceVars
  <2> QED
    BY <1>1, <2>1 DEF Counted
<1>7. ASSUME NEW e, DrainPanic(e) \/ DrainUnconfigured(e) \/ PlayPanic(e)
      PROVE  Counted'
  <2>1. /\ audioPc = "drain" /\ UNCHANGED <<audioPc, panic, bufStart, rtQueue, allQSize>>
        /\ fate' = [fate EXCEPT ![e[2]] = "failed"]
    BY <1>1, <1>7 DEF DrainPanic, DrainUnconfigured, PlayPanic, sliceVars, playVars
  <2>2. bufEnd' = bufEnd /\ \A i \in Insts : fate'[i] # "panicked"
    BY <1>1, <2>1 DEF bufEnd, TypeOK
  <2> QED
    BY <1>1, <2>1, <2>2 DEF Counted
<1>8. ASSUME NEW e, Drain(e)
      PROVE  Counted'
  <2>1. /\ audioPc = "drain" /\ UNCHANGED <<audioPc, panic, bufStart, allQSize>>
        /\ e[1] < bufEnd
        /\ \A q \in Queues : rtQueue'[q] \subseteq rtQueue[q] \cup {e}
        /\ fate' = [fate EXCEPT ![e[2]] = IF e[1] < bufStart THEN "late" ELSE "timely"]
    BY <1>8 DEF Drain, Ripe, sliceVars
  <2>2. bufEnd' = bufEnd /\ \A i \in Insts : fate'[i] # "panicked"
    BY <1>1, <2>1 DEF bufEnd, TypeOK
  <2>3. e \in rtHeap /\ e[1] \in Nat
    BY <1>8 DEF Drain, Ripe, Least, TypeOK
  <2>4. ~(e[1] >= bufEnd)
    BY <1>1, <2>1, <2>3
  <2> QED
    BY <1>1, <2>1, <2>2, <2>4 DEF Counted
<1>9. ASSUME NEW e, Gather(e)
      PROVE  Counted'
  <2>1. /\ audioPc = "play" /\ UNCHANGED <<audioPc, panic, bufStart, allQSize, fate>>
        /\ \A q \in Queues : rtQueue'[q] \subseteq rtQueue[q]
    BY <1>9 DEF Gather, sliceVars, TypeOK
  <2>2. bufEnd' = bufEnd
    BY <2>1 DEF bufEnd
  <2> QED
    BY <1>1, <2>1, <2>2 DEF Counted
<1>10. ASSUME NEW b \in Queues, audioPc = "play", UNCHANGED <<audioPc, panic, bufStart>>,
              NEW S, rtQueue' = [rtQueue EXCEPT ![b] = S],
              allQSize' = (allQSize \/ rtQueue'[b] # {}),
              \A i \in Insts : fate'[i] \in {fate[i], "cut"}
       PROVE  Counted'
  <2>1. bufEnd' = bufEnd /\ \A i \in Insts : fate'[i] # "panicked"
    BY <1>1, <1>10 DEF bufEnd
  <2>2. \A q \in Queues : q # b => rtQueue'[q] = rtQueue[q]
    BY <1>10 DEF TypeOK
  <2>3. ASSUME NEW q \in Queues, NEW e \in rtQueue'[q], e[1] >= bufEnd
        PROVE  allQSize'
    <3>1. CASE q = b
      BY <1>10, <2>3, <3>1
    <3>2. CASE q # b
      BY <1>10, <2>2, <2>3, <3>2 DEF Counted
    <3> QED
      BY <3>1, <3>2
  <2> QED
    BY <1>1, <1>10, <2>1, <2>3 DEF Counted
<1>11. ASSUME NEW e, NEW cut \in BOOLEAN, PlayNext(e, cut)
       PROVE  Counted'
  <2>1. /\ audioPc = "play" /\ playIdx <= Len(PlayOrder)
        /\ UNCHANGED <<audioPc, panic, bufStart>>
        /\ \E S : rtQueue' = [rtQueue EXCEPT ![busq] = S]
        /\ allQSize' = (allQSize \/ rtQueue'[busq] # {})
        /\ fate' = [fate EXCEPT ![e[2]] = IF cut THEN "cut" ELSE @]
    BY <1>11 DEF PlayNext, sliceVars
  <2>2. busq \in Queues /\ \A i \in Insts : fate'[i] \in {fate[i], "cut"}
    BY <2>1, Playing DEF TypeOK
  <2> QED
    BY <1>10, <2>1, <2>2
<1>12. ASSUME NEW cuts, PlayBatch(cuts)
       PROVE  Counted'
  <2>1. /\ audioPc = "play" /\ playIdx <= Len(PlayOrder)
        /\ UNCHANGED <<audioPc, panic, bufStart>>
        /\ \E S : rtQueue' = [rtQueue EXCEPT ![busq] = S]
        /\ allQSize' = (allQSize \/ rtQueue'[busq] # {})
        /\ fate' = [i \in Insts |-> IF i \in cuts THEN "cut" ELSE fate[i]]
    BY <1>12 DEF PlayBatch, sliceVars
  <2>2. busq \in Queues /\ \A i \in Insts : fate'[i] \in {fate[i], "cut"}
    BY <2>1, Playing
  <2> QED
    BY <1>10, <2>1, <2>2
<1> QED
  BY <1>2, <1>3, <1>4, <1>5, <1>6, <1>7, <1>8, <1>9, <1>11, <1>12 DEF AudioStep

\* inTraverse ends the playback by itself only in a score, and when no instrument lives any
\* more: the sum of the queues that played in the last slice and the heap, which is all
\* the ending condition looks at, leave out no instrument that still has to be played.
THEOREM PlaybackEndsComplete == Spec => []EndsWhenAllPlayed
<1>1. Init => (Careful => IInv) /\ EInv
  BY InitInv DEF Init, EInv, Stopping, Counted
<1>2. (Careful => IInv) /\ EInv /\ [Next]_vars => (Careful => IInv)' /\ EInv'
  <2> SUFFICES ASSUME Careful => IInv, EInv, [Next]_vars
               PROVE  (Careful => IInv)' /\ EInv'
    OBVIOUS
  <2>1. Careful' <=> Careful
    <3>1. build' = build
      BY DEF Next, ParserStep, AudioStep, Shutdown, Finished, vars
    <3> QED
      BY <3>1 DEF Careful, Punctual, MULTI_THREAD
  <2>2. (Careful => IInv)'
    BY <2>1, StepInv
  <2>3. CASE ParserStep
    BY <2>2, <2>3, ParserEnds
  <2>4. CASE AudioTurn /\ AudioStep
    BY <2>2, <2>4, AudioStopping, AudioCounted DEF EInv, Careful, Punctual
  <2>5. CASE Shutdown
    <3>1. /\ interrupted'
          /\ UNCHANGED <<rtHeap, fate, audioPc, bufStart, panic, playEm, rtQueue, allQSize>>
      BY <2>5 DEF Shutdown, sliceVars, playVars
    <3>2. bufEnd' = bufEnd /\ (QueueIsEmpty' <=> QueueIsEmpty)
      BY <3>1 DEF bufEnd, QueueIsEmpty
    <3> QED
      BY <2>2, <3>1, <3>2 DEF EInv, Stopping, Counted
  <2>6. CASE UNCHANGED vars
    <3>1. UNCHANGED <<run_status, interrupted, rtHeap, fate, audioPc, bufStart, panic,
                      playEm, rtQueue, allQSize>>
      BY <2>6 DEF vars, statusVars, sliceVars, playVars
    <3>2. bufEnd' = bufEnd /\ (QueueIsEmpty' <=> QueueIsEmpty)
      BY <3>1 DEF bufEnd, QueueIsEmpty
    <3> QED
      BY <2>2, <3>1, <3>2 DEF EInv, Stopping, Counted
  <2> QED
    BY <2>2, <2>3, <2>4, <2>5, <2>6 DEF Next, Finished
<1>3. (Careful => IInv) /\ EInv => EndsWhenAllPlayed
  <2> SUFFICES ASSUME Careful => IInv, EInv, audioPc = "return", ~playEm, ~interrupted
               PROVE  ~INTERACTIVE /\ \A i \in Insts : ~inst[i].alive
    BY DEF EndsWhenAllPlayed
  <2>1. ~INTERACTIVE /\ QueueIsEmpty /\ Counted /\ IInv
    BY DEF EInv, Stopping, Careful, Punctual
  <2>2. rtHeap = {} /\ batch = {} /\ cur = {} /\ \A q \in Queues : rtQueue[q] = {}
    BY <2>1 DEF EInv, Stopping, QueueIsEmpty, Counted, IInv, Parsing, Batching
  <2>3. ASSUME NEW i \in Insts PROVE ~inst[i].alive
    <3>1. i \notin cur /\ ~InHeap(i) /\ ~Held(i)
      BY <2>2 DEF InHeap, Held, InBatch, Queued
    <3>2. Place(i) /\ fate[i] # "panicked"
      BY <2>1 DEF IInv, Places, Counted
    <3> QED
      BY <2>1, <3>1, <3>2 DEF Place
  <2> QED
    BY <2>1, <2>3
<1> QED
  BY <1>1, <1>2, <1>3, PTL DEF Spec
=============================================================================
