------------------------------ MODULE InstHeap ------------------------------
(***************************************************************************)
(* The heap of scheduled instruments, heap.cpp and queue.cpp: a linked     *)
(* binary tree of slots in which every slot that holds an instrument has   *)
(* two children, so that the empty slots are the tree's leaves; they wait  *)
(* in a queue of their own, whose head is the place of the next insertion. *)
(* Parser threads insert while the audio thread takes out what is due,     *)
(* both under the heap's lock; one action is one turn of a sifting loop.   *)
(*                                                                         *)
(* A slot is the path that leads to it: 1 is the top, 2k and 2k + 1 are    *)
(* the right and the left child of k, in the order insert appends them to  *)
(* the leaves.  A slot outside DOMAIN slot is freed, or lost: what the     *)
(* heap leaks when it becomes empty is not modelled.  An instrument is     *)
(* inserted once (RTcmix::checkInsts).                                     *)
(***************************************************************************)
EXTENDS Integers, Sequences

CONSTANTS
  Insts,    \* instruments
  Starts,   \* start times
  FrameCount, \* frames in a slice
  MaxSlices, \* bound: slices that are explored
  Parsers,  \* threads that call insert
  Audio,    \* the thread that calls deleteMin
  None      \* NULL

ASSUME StartAssumption == Starts \subseteq Nat /\ FrameCount \in Nat \ {0}
ASSUME ThreadAssumption == Audio \notin Parsers
ASSUME NoneAssumption == None \notin Insts \cup Parsers \cup {Audio}

Threads == Parsers \cup {Audio}

VARIABLES
  fresh,   \* instruments that were never inserted
  owner,   \* of the heap's lock, or None
  size, bot, leaves,
  slot,    \* the slots: instrument (or None) and chunkStart
  bufEnd,  \* the end of the slice, which deleteMin is called with
  pc,      \* a parser is "idle" or in "siftUp"; the audio thread is at "drain",
           \* in "siftDown", or at "play" when it has drained the slice
  at,      \* per thread: tempHeapElt
  ret      \* the last result of deleteMin, a pair or None

vars == <<fresh, owner, size, bot, leaves, slot, bufEnd, pc, at, ret>>

Top == 1
Right(k) == 2 * k
Left(k) == 2 * k + 1
Parent(k) == k \div 2

Empty == [inst |-> None, chunkStart |-> 0]
Filled(k) == slot[k].inst # None

Swap(j, k) == [slot EXCEPT ![j] = slot[k], ![k] = slot[j]]

-----------------------------------------------------------------------------
Init ==
  /\ fresh = Insts
  /\ owner = None
  /\ size = 0
  /\ bot = 0
  /\ leaves = <<>>
  /\ slot = <<>>
  /\ bufEnd = FrameCount
  /\ pc = [p \in Threads |-> IF p = Audio THEN "drain" ELSE "idle"]
  /\ at = [p \in Threads |-> Top]
  /\ ret = None

\* The instrument is put in the slot at the head of the leaves, which gets two
\* children; an empty heap starts with a new top.
Place(p, i, t) ==
  LET queue == IF size = 0 THEN <<Top>> ELSE leaves
      tree  == IF size = 0 THEN {Top} ELSE DOMAIN slot
      new   == Head(queue)
  IN /\ leaves' = Tail(queue) \o <<Right(new), Left(new)>>
     /\ slot' = [k \in tree \cup {Right(new), Left(new)} |->
                   CASE k = new            -> [inst |-> i, chunkStart |-> t]
                     [] k \in tree \ {new} -> slot[k]
                     [] OTHER              -> Empty]
     /\ bot' = new
     /\ at' = [at EXCEPT ![p] = new]

InsertBegins(p, i, t) ==
  /\ pc[p] = "idle" /\ owner = None
  /\ i \in fresh
  /\ fresh' = fresh \ {i}
  /\ owner' = p
  /\ Place(p, i, t)
  /\ pc' = [pc EXCEPT ![p] = "siftUp"]
  /\ UNCHANGED <<size, bufEnd, ret>>

OutOfOrder(k) == k # Top /\ slot[Parent(k)].chunkStart > slot[k].chunkStart

SiftUp(p) ==
  /\ pc[p] = "siftUp"
  /\ OutOfOrder(at[p])
  /\ slot' = Swap(at[p], Parent(at[p]))
  /\ at' = [at EXCEPT ![p] = Parent(@)]
  /\ UNCHANGED <<fresh, owner, size, bot, leaves, bufEnd, pc, ret>>

InsertEnds(p) ==
  /\ pc[p] = "siftUp"
  /\ ~OutOfOrder(at[p])
  /\ size' = size + 1
  /\ owner' = None
  /\ pc' = [pc EXCEPT ![p] = "idle"]
  /\ UNCHANGED <<fresh, bot, leaves, slot, bufEnd, at, ret>>

-----------------------------------------------------------------------------
\* Due, but what starts with the next slice is taken, too.
DueAtEnd == size > 0 /\ slot[Top].chunkStart <= bufEnd

\* The top is due in the slice.
Due == size > 0 /\ slot[Top].chunkStart < bufEnd

\* Nothing is due.
DeleteNone ==
  /\ pc[Audio] = "drain" /\ owner = None
  /\ ~Due
  /\ ret' = None
  /\ pc' = [pc EXCEPT ![Audio] = "play"]
  /\ UNCHANGED <<fresh, owner, size, bot, leaves, slot, bufEnd, at>>

\* Trimmed, but a single child is freed.
TrimmedOne == 1

\* How many leaves are freed: the children of the slot that becomes empty.
Trimmed == IF size > 1 THEN 2 ELSE 1

\* The tree once the bottom slot's instrument has replaced the top's.
Replaced == [slot EXCEPT ![Top] = slot[bot], ![bot] = Empty]

\* Taken, but read from the top when it has been replaced.
TakenAfter == <<Replaced[Top].chunkStart, Replaced[Top].inst>>

Taken == <<slot[Top].chunkStart, slot[Top].inst>>

\* The top is taken and replaced; the bottom slot's children are freed, and it
\* becomes the first of the leaves.
DeleteBegins ==
  /\ pc[Audio] = "drain" /\ owner = None
  /\ Due
  /\ ret' = Taken
  /\ owner' = Audio
  /\ LET last  == Len(leaves)
         kept  == SubSeq(leaves, 1, last - Trimmed)
         freed == {leaves[n] : n \in last - Trimmed + 1 .. last}
     IN /\ slot' = [k \in DOMAIN slot \ freed |-> Replaced[k]]
        /\ leaves' = <<bot>> \o kept
        /\ bot' = Parent(kept[Len(kept)])
  /\ at' = [at EXCEPT ![Audio] = Top]
  /\ pc' = [pc EXCEPT ![Audio] = "siftDown"]
  /\ UNCHANGED <<fresh, size, bufEnd>>

FilledChildren(k) == {c \in {Left(k), Right(k)} : Filled(c)}

\* Candidates, but the left child is preferred whatever the right one holds.
CandidatesLeft(k) == {c \in FilledChildren(k) : \A d \in FilledChildren(k) : c >= d}

\* The child to compare with: the one with the lesser start, the right one of two
\* equal ones.
Candidates(k) ==
  {c \in FilledChildren(k) :
     \A d \in FilledChildren(k) \ {c} :
       \/ slot[c].chunkStart < slot[d].chunkStart
       \/ slot[c].chunkStart = slot[d].chunkStart /\ c = Right(k)}
Sinks(k) == {c \in IF Filled(k) THEN Candidates(k) ELSE {} :
               slot[c].chunkStart < slot[k].chunkStart}

SiftDown ==
  /\ pc[Audio] = "siftDown"
  /\ \E c \in Sinks(at[Audio]) :
       /\ slot' = Swap(at[Audio], c)
       /\ at' = [at EXCEPT ![Audio] = c]
  /\ UNCHANGED <<fresh, owner, size, bot, leaves, bufEnd, pc, ret>>

DeleteEnds ==
  /\ pc[Audio] = "siftDown"
  /\ Sinks(at[Audio]) = {}
  /\ size' = size - 1
  /\ owner' = None
  /\ pc' = [pc EXCEPT ![Audio] = "drain"]
  /\ UNCHANGED <<fresh, bot, leaves, slot, bufEnd, at, ret>>
\* inTraverse plays the slice and is called for the next one.
NextSlice ==
  /\ pc[Audio] = "play"
  /\ bufEnd < MaxSlices * FrameCount
  /\ bufEnd' = bufEnd + FrameCount
  /\ pc' = [pc EXCEPT ![Audio] = "drain"]
  /\ UNCHANGED <<fresh, owner, size, bot, leaves, slot, at, ret>>

\* The bound is reached.
Finished ==
  /\ pc[Audio] = "play"
  /\ bufEnd = MaxSlices * FrameCount
  /\ UNCHANGED vars

-----------------------------------------------------------------------------
Next ==
  \/ \E p \in Parsers : \/ \E i \in Insts, t \in Starts : InsertBegins(p, i, t)
                       \/ SiftUp(p) \/ InsertEnds(p)
  \/ DeleteNone \/ DeleteBegins \/ SiftDown \/ DeleteEnds \/ NextSlice
  \/ Finished

Spec == Init /\ [][Next]_vars

-----------------------------------------------------------------------------
(* Properties.                                                             *)

TypeOK ==
  /\ fresh \subseteq Insts
  /\ owner \in Threads \cup {None}
  /\ size \in Nat /\ bot \in Nat
  /\ leaves \in Seq(Nat)
  /\ DOMAIN slot \subseteq Nat
  /\ slot \in [DOMAIN slot -> [inst : Insts \cup {None}, chunkStart : Starts \cup {0}]]
  /\ bufEnd \in Nat
  /\ pc \in [Threads -> {"idle", "siftUp", "drain", "siftDown", "play"}]
  /\ at \in [Threads -> Nat]
  /\ ret \in ((Starts \cup {0}) \X Insts) \cup {None}

\* The slots that hold an instrument: while the lock is held size lags behind.
Count == CASE \E p \in Parsers : pc[p] = "siftUp" -> size + 1
           [] pc[Audio] = "siftDown"              -> size - 1
           [] OTHER                               -> size

\* The linked structures agree: the instruments fill the tree from the top, each
\* has its two children, the queue of leaves lists exactly the empty slots in the
\* order they are to be filled, and bot is the last one filled.  deleteMin frees
\* what popTail returns without looking at it: it must be bot's two children.
LeavesAreFrontier ==
  Count > 0 =>
    /\ bot = Count
    /\ DOMAIN slot = 1 .. 2 * Count + 1
    /\ \A k \in DOMAIN slot : Filled(k) <=> k <= Count
    /\ leaves = [n \in 1 .. Count + 1 |-> Count + n]

\* No instrument is below one that starts later, but for the one that a thread
\* is moving: the audio thread looks at the top alone to see what is due.
Moving(j, k) ==
  \/ \E p \in Parsers : pc[p] = "siftUp" /\ at[p] = k
  \/ pc[Audio] = "siftDown" /\ at[Audio] = j
HeapOrder ==
  \A k \in 2 .. Count :
    Moving(Parent(k), k) \/ slot[Parent(k)].chunkStart <= slot[k].chunkStart

\* The scheduler's view of the heap: an instrument comes out once, and none
\* comes out before its slice or before one that starts earlier.
Contents == {<<slot[k].chunkStart, slot[k].inst>> : k \in {j \in DOMAIN slot : Filled(j)}}
PQ == INSTANCE PriorityQueue WITH queue <- Contents
ImplementsPriorityQueue == PQ!Spec
=============================================================================
