--------------------------- MODULE PriorityQueue ---------------------------
(***************************************************************************)
(* What the scheduler relies on the instrument heap for: each instrument   *)
(* that is inserted comes out once, never before its slice, and never      *)
(* before one that starts earlier.  Among equal start times the order is   *)
(* not promised.                                                           *)
(***************************************************************************)
EXTENDS Naturals

CONSTANTS Insts, Starts, FrameCount, None

VARIABLES
  fresh,  \* instruments that were never inserted
  queue,  \* pairs <<start, instrument>>
  bufEnd, \* the end of the slice
  ret     \* what the last deleteMin returned: a pair, or None

vars == <<fresh, queue, bufEnd, ret>>

Least(pairs) == {e \in pairs : \A d \in pairs : e[1] <= d[1]}

Init == fresh = Insts /\ queue = {} /\ bufEnd = FrameCount /\ ret = None

Insert(i, t) ==
  /\ i \in fresh
  /\ fresh' = fresh \ {i}
  /\ queue' = queue \cup {<<t, i>>}
  /\ UNCHANGED <<bufEnd, ret>>

DeleteMin ==
  /\ \E e \in Least(queue) : /\ e[1] < bufEnd
                             /\ ret' = e
                             /\ queue' = queue \ {e}
  /\ UNCHANGED <<fresh, bufEnd>>

DeleteNone ==
  /\ \A e \in queue : e[1] >= bufEnd
  /\ ret' = None
  /\ UNCHANGED <<fresh, queue, bufEnd>>

\* The slice has been drained.
NextSlice ==
  /\ ret = None
  /\ bufEnd' = bufEnd + FrameCount
  /\ UNCHANGED <<fresh, queue, ret>>

Next == \/ \E i \in Insts, t \in Starts : Insert(i, t)
        \/ DeleteMin \/ DeleteNone \/ NextSlice

Spec == Init /\ [][Next]_vars
=============================================================================
