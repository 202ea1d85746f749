--------------------------- MODULE InstHeapProof ----------------------------
(***************************************************************************)
(* The heap of instruments is, for any number of instruments, parser       *)
(* threads, start times and slices, the priority queue that the scheduler  *)
(* takes it for.                                                           *)
(*                                                                         *)
(* The lock makes the sifting of one thread the only change in progress    *)
(* (Locked, Positions); the children of the slot that is being sifted are  *)
(* in order with its parent (Grandchildren), so that one swap mends one    *)
(* edge and breaks at most the next; and an instrument is in one slot      *)
(* (OneSlotEach), so that taking a pair out leaves none behind.            *)
(***************************************************************************)
EXTENDS InstHeap, NaturalsInduction, WellFoundedInduction, TLAPS

Locked ==
  /\ \A p \in Parsers : /\ pc[p] \in {"idle", "siftUp"}
                        /\ pc[p] = "siftUp" => owner = p
  /\ pc[Audio] \in {"drain", "siftDown", "play"}
  /\ pc[Audio] = "siftDown" => owner = Audio

Positions ==
  /\ \A p \in Parsers : pc[p] = "siftUp" => at[p] \in 1 .. Count
  /\ pc[Audio] = "siftDown" => size >= 1 /\ at[Audio] \in 1 .. Count \cup {Top}

\* The slot that a thread sifts.
Sifted(j) ==
  \/ \E p \in Parsers : pc[p] = "siftUp" /\ at[p] = j
  \/ pc[Audio] = "siftDown" /\ at[Audio] = j

Grandchildren ==
  \A j, c \in 2 .. Count :
    Sifted(j) /\ Parent(c) = j => slot[Parent(j)].chunkStart <= slot[c].chunkStart

OneSlotEach ==
  /\ \A k \in 1 .. Count : slot[k].inst \notin fresh
  /\ \A j, k \in 1 .. Count : slot[j].inst = slot[k].inst => j = k

\* A heap without instruments keeps its top, empty, until the sift has ended.
NoneLeft ==
  Count = 0 => /\ \A k \in DOMAIN slot : ~Filled(k)
               /\ pc[Audio] = "siftDown" => Top \in DOMAIN slot

Drained == pc[Audio] = "play" => ret = None

IInv == /\ TypeOK /\ Locked /\ Positions /\ LeavesAreFrontier /\ HeapOrder
        /\ Grandchildren /\ OneSlotEach /\ NoneLeft /\ Drained

-----------------------------------------------------------------------------
(* The queue of leaves, as a stretch of the numbers.                       *)

Frontier(c) == [n \in 1 .. c + 1 |-> c + n]

LEMMA FrontierIsSeq ==
  ASSUME NEW c \in Nat
  PROVE  /\ Frontier(c) \in Seq(Nat) /\ Len(Frontier(c)) = c + 1
         /\ \A n \in 1 .. c + 1 : Frontier(c)[n] = c + n
<1>1. Frontier(c) \in [1 .. c + 1 -> Nat]
  BY DEF Frontier
<1> QED
  BY <1>1 DEF Frontier

LEMMA FrontierGrows ==
  ASSUME NEW c \in Nat
  PROVE  /\ Head(Frontier(c)) = c + 1
         /\ Tail(Frontier(c)) \o <<Right(c + 1), Left(c + 1)>> = Frontier(c + 1)
<1> DEFINE f == Frontier(c)
           t == Tail(f)
           g == t \o <<Right(c + 1), Left(c + 1)>>
<1>1. f \in Seq(Nat) /\ Len(f) = c + 1 /\ \A n \in 1 .. c + 1 : f[n] = c + n
  BY FrontierIsSeq
<1> HIDE DEF f
<1>2. Head(f) = c + 1
  BY <1>1
<1>3. t \in Seq(Nat) /\ Len(t) = c /\ \A n \in 1 .. c : t[n] = c + n + 1
  BY <1>1
<1> HIDE DEF t
<1>4. Right(c + 1) = 2 * c + 2 /\ Left(c + 1) = 2 * c + 3
  BY DEF Right, Left
<1>5. g \in Seq(Nat) /\ Len(g) = c + 2
      /\ \A n \in 1 .. c + 2 :
           g[n] = IF n <= c THEN t[n] ELSE <<Right(c + 1), Left(c + 1)>>[n - c]
  BY <1>3, <1>4
<1> HIDE DEF g
<1>6. ASSUME NEW n \in 1 .. c + 2 PROVE g[n] = c + 1 + n
  <2>1. CASE n <= c
    BY <1>3, <1>5, <2>1
  <2>2. CASE n = c + 1
    BY <1>4, <1>5, <2>2
  <2>3. CASE n = c + 2
    BY <1>4, <1>5, <2>3
  <2> QED
    BY <2>1, <2>2, <2>3
<1>7. g = [n \in 1 .. c + 2 |-> c + 1 + n]
  BY <1>5, <1>6
<1>8. Frontier(c + 1) = [n \in 1 .. c + 2 |-> c + 1 + n]
  BY DEF Frontier
<1> QED
  BY <1>2, <1>7, <1>8 DEF f, t, g

LEMMA FrontierShrinks ==
  ASSUME NEW c \in Nat, c >= 2
  PROVE  LET f == Frontier(c)
             kept == SubSeq(f, 1, Len(f) - 2)
         IN /\ <<c>> \o kept = Frontier(c - 1)
            /\ {f[n] : n \in Len(f) - 1 .. Len(f)} = {2 * c, 2 * c + 1}
            /\ Parent(kept[Len(kept)]) = c - 1
<1> DEFINE f == Frontier(c)
           kept == SubSeq(f, 1, Len(f) - 2)
           g == <<c>> \o kept
<1>1. f \in Seq(Nat) /\ Len(f) = c + 1 /\ \A n \in 1 .. c + 1 : f[n] = c + n
  BY FrontierIsSeq
<1> HIDE DEF f
<1>2. kept \in Seq(Nat) /\ Len(kept) = c - 1 /\ \A n \in 1 .. c - 1 : kept[n] = c + n
  BY <1>1
<1> HIDE DEF kept
<1>3. g \in Seq(Nat) /\ Len(g) = c /\ g[1] = c
      /\ \A n \in 2 .. c : g[n] = kept[n - 1]
  BY <1>2
<1> HIDE DEF g
<1>4. ASSUME NEW n \in 1 .. c PROVE g[n] = c - 1 + n
  <2>1. CASE n = 1
    BY <1>3, <2>1
  <2>2. CASE n > 1
    BY <1>2, <1>3, <2>2
  <2> QED
    BY <2>1, <2>2
<1>5. g = [n \in 1 .. c |-> c - 1 + n]
  BY <1>3, <1>4
<1>6. {f[n] : n \in Len(f) - 1 .. Len(f)} = {2 * c, 2 * c + 1}
  <2>1. Len(f) - 1 .. Len(f) = {c, c + 1}
    BY <1>1
  <2>2. f[c] = 2 * c /\ f[c + 1] = 2 * c + 1
    BY <1>1
  <2> QED
    BY <2>1, <2>2
<1>7. Parent(kept[Len(kept)]) = c - 1
  BY <1>2 DEF Parent
<1>8. Frontier(c - 1) = [n \in 1 .. c |-> c - 1 + n]
  BY DEF Frontier
<1> QED
  BY <1>5, <1>6, <1>7, <1>8 DEF f, kept, g

-----------------------------------------------------------------------------
(* The tree.                                                               *)

LEMMA ParentIsAbove ==
  ASSUME NEW k \in Nat, k >= 2
  PROVE  Parent(k) \in 1 .. k - 1
BY DEF Parent

LEMMA Children ==
  ASSUME NEW k \in Nat, NEW j \in Nat, k >= 2
  PROVE  Parent(k) = j <=> k \in {Left(j), Right(j)}
BY DEF Parent, Left, Right

\* With no slot being sifted the top starts first of all.
LEMMA TopIsLeast ==
  ASSUME TypeOK, Count \in Nat, NEW k \in 1 .. Count,
         \A m \in 1 .. Count : slot[m].chunkStart \in Nat,
         \A m \in 2 .. Count : slot[Parent(m)].chunkStart <= slot[m].chunkStart
  PROVE  slot[Top].chunkStart <= slot[k].chunkStart
<1> DEFINE S == {m \in 1 .. Count : slot[Top].chunkStart > slot[m].chunkStart}
<1>1. ASSUME S # {} PROVE FALSE
  <2>1. S \subseteq Nat
    OBVIOUS
  <2>2. PICK R : /\ IsWellFoundedOn(R, Nat)
                 /\ R = {ss \in Nat \X Nat : ss[1] < ss[2]}
    BY NatLessThanWellFounded DEF OpToRel
  <2>7. PICK m \in S : \A n \in S : <<n, m>> \notin R
    <3> HIDE DEF S
    <3> QED
      BY <1>1, <2>1, <2>2, WFMin
  <2>3. \A n \in S : ~ (n < m)
    BY <2>1, <2>2, <2>7
  <2>4. m \in 2 .. Count
    BY DEF Top
  <2>5. Parent(m) \in 1 .. m - 1
    BY <2>4, ParentIsAbove
  <2>6. Parent(m) \notin S
    BY <2>3, <2>5
  <2> QED
    BY <2>4, <2>5, <2>6 DEF Top
<1>2. Top \in 1 .. Count
  BY DEF Top
<1> QED
  BY <1>1, <1>2

-----------------------------------------------------------------------------
(* Who holds the lock, and what that says of Count and of the order.        *)

SlotType == [inst : Insts \cup {None}, chunkStart : Starts \cup {0}]

LEMMA Unlocked ==
  ASSUME IInv, owner = None
  PROVE  /\ Count = size
         /\ \A p \in Parsers : pc[p] = "idle"
         /\ pc[Audio] # "siftDown"
         /\ \A m \in 2 .. Count : slot[Parent(m)].chunkStart <= slot[m].chunkStart
<1>1. (\A p \in Parsers : pc[p] = "idle") /\ pc[Audio] # "siftDown"
  BY NoneAssumption DEF IInv, Locked
<1>2. Count = size
  BY <1>1 DEF Count
<1> QED
  BY <1>1, <1>2 DEF IInv, HeapOrder, Moving

LEMMA Rising ==
  ASSUME Locked, NEW p \in Parsers, pc[p] = "siftUp"
  PROVE  /\ Count = size + 1 /\ owner = p
         /\ \A q \in Parsers \ {p} : pc[q] = "idle"
         /\ pc[Audio] # "siftDown"
         /\ \A j, k : Moving(j, k) <=> k = at[p]
         /\ \A j : Sifted(j) <=> j = at[p]
<1>1. /\ owner = p /\ \A q \in Parsers \ {p} : pc[q] = "idle"
      /\ pc[Audio] # "siftDown"
  BY ThreadAssumption DEF Locked
<1> QED
  BY <1>1 DEF Count, Moving, Sifted

LEMMA Sinking ==
  ASSUME Locked, pc[Audio] = "siftDown"
  PROVE  /\ Count = size - 1 /\ owner = Audio
         /\ \A q \in Parsers : pc[q] = "idle"
         /\ \A j, k : Moving(j, k) <=> j = at[Audio]
         /\ \A j : Sifted(j) <=> j = at[Audio]
<1>1. owner = Audio /\ \A q \in Parsers : pc[q] = "idle"
  BY ThreadAssumption DEF Locked
<1> QED
  BY <1>1 DEF Count, Moving, Sifted

\* The filled slots are the first ones.
Pairs(s, c) == {<<s[k].chunkStart, s[k].inst>> : k \in 1 .. c}

LEMMA ContentsArePairs ==
  ASSUME LeavesAreFrontier, NoneLeft, Count \in Nat
  PROVE  Contents = Pairs(slot, Count)
<1>1. {j \in DOMAIN slot : Filled(j)} = 1 .. Count
  <2>1. CASE Count = 0
    BY <2>1 DEF NoneLeft
  <2>2. CASE Count > 0
    BY <2>2 DEF LeavesAreFrontier
  <2> QED
    BY <2>1, <2>2
<1> QED
  BY <1>1 DEF Contents, Pairs

LEMMA Starters ==
  ASSUME TypeOK, LeavesAreFrontier, Count \in Nat, NEW k \in 1 .. Count
  PROVE  /\ k \in DOMAIN slot /\ slot[k] \in SlotType
         /\ slot[k].chunkStart \in Nat /\ slot[k].inst \in Insts
<1>1. k \in DOMAIN slot /\ Filled(k)
  BY DEF LeavesAreFrontier
<1>2. slot[k] \in SlotType
  BY <1>1 DEF TypeOK, SlotType
<1>3. slot[k].inst \in Insts
  BY <1>1, <1>2 DEF SlotType, Filled
<1>4. slot[k].chunkStart \in Nat
  <2>1. slot[k].chunkStart \in Starts \cup {0}
    BY <1>2, Zenon DEF SlotType
  <2>2. ASSUME NEW t \in Starts \cup {0} PROVE t \in Nat
    BY StartAssumption
  <2> QED
    BY <2>1, <2>2
<1> QED
  BY <1>1, <1>2, <1>3, <1>4

LEMMA InitInv == Init => IInv /\ PQ!Init
<1> SUFFICES ASSUME Init PROVE IInv /\ PQ!Init
  OBVIOUS
<1> USE DEF Init
<1>1. (\A p \in Parsers : pc[p] = "idle") /\ pc[Audio] = "drain"
  BY ThreadAssumption DEF Threads
<1>2. Count = 0
  BY <1>1 DEF Count
<1>3. DOMAIN slot = {}
  OBVIOUS
<1>4. TypeOK
  <2>1. slot \in [DOMAIN slot -> SlotType]
    BY <1>3
  <2> QED
    BY <1>3, <2>1, StartAssumption DEF TypeOK, Threads, Top, SlotType
<1>5. Locked /\ Positions /\ LeavesAreFrontier /\ HeapOrder /\ Grandchildren
      /\ OneSlotEach /\ NoneLeft /\ Drained
  BY <1>1, <1>2, <1>3
  DEF Locked, Positions, LeavesAreFrontier, HeapOrder, Grandchildren,
      OneSlotEach, NoneLeft, Drained
<1>6. Contents = {}
  BY <1>3 DEF Contents
<1> QED
  BY <1>4, <1>5, <1>6 DEF IInv, PQ!Init

-----------------------------------------------------------------------------
(* A turn of a sifting loop.                                               *)

LEMMA SwapFacts ==
  ASSUME TypeOK, NEW j \in DOMAIN slot, NEW k \in DOMAIN slot, j # k,
         slot' = Swap(j, k)
  PROVE  /\ DOMAIN slot' = DOMAIN slot /\ slot' \in [DOMAIN slot -> SlotType]
         /\ slot'[j] = slot[k] /\ slot'[k] = slot[j]
         /\ \A m \in DOMAIN slot \ {j, k} : slot'[m] = slot[m]
<1>1. slot \in [DOMAIN slot -> SlotType]
  BY DEF TypeOK, SlotType
<1> HIDE DEF SlotType
<1>2. slot' = [slot EXCEPT ![j] = slot[k], ![k] = slot[j]]
  BY Zenon DEF Swap
<1> QED
  BY <1>1, <1>2

\* The one of the two threads that sifts.
LEMMA SwapKeeps ==
  ASSUME IInv, NEW j \in 1 .. Count, NEW k \in 1 .. Count, j # k, Count \in Nat,
         slot' = Swap(j, k), NEW p \in Threads, NEW m \in 1 .. Count,
         at' = [at EXCEPT ![p] = m],
         UNCHANGED <<fresh, owner, size, bot, leaves, bufEnd, pc, ret>>
  PROVE  /\ TypeOK' /\ Locked' /\ Positions' /\ LeavesAreFrontier'
         /\ OneSlotEach' /\ NoneLeft' /\ Drained'
         /\ Count' = Count /\ Contents' = Contents
         /\ slot'[j] = slot[k] /\ slot'[k] = slot[j]
         /\ \A n \in 1 .. Count \ {j, k} : slot'[n] = slot[n]
<1> USE DEF IInv
<1>1. Count' = Count
  BY DEF Count
<1>2. j \in DOMAIN slot /\ k \in DOMAIN slot /\ Filled(j) /\ Filled(k)
  BY DEF LeavesAreFrontier
<1>3. /\ DOMAIN slot' = DOMAIN slot /\ slot' \in [DOMAIN slot -> SlotType]
      /\ slot'[j] = slot[k] /\ slot'[k] = slot[j]
      /\ \A n \in DOMAIN slot \ {j, k} : slot'[n] = slot[n]
  BY <1>2, SwapFacts
<1>4. 1 .. Count \subseteq DOMAIN slot
  BY DEF LeavesAreFrontier
<1>5. TypeOK'
  BY <1>3 DEF TypeOK, SlotType
<1>6. Locked' /\ Drained'
  BY DEF Locked, Drained
<1>7. Positions'
  BY <1>1 DEF Positions, TypeOK
<1>8. \A n \in DOMAIN slot : Filled(n)' <=> Filled(n)
  BY <1>2, <1>3 DEF Filled
<1>9. LeavesAreFrontier' /\ NoneLeft'
  BY <1>1, <1>3, <1>8 DEF LeavesAreFrontier, NoneLeft
<1>10. OneSlotEach'
  BY <1>1, <1>3, <1>4 DEF OneSlotEach
<1>11. Contents' = Contents
  <2>1. Contents = Pairs(slot, Count)
    BY ContentsArePairs
  <2>2. Contents' = Pairs(slot', Count')
    <3>1. {n \in DOMAIN slot' : Filled(n)'} = 1 .. Count
      BY <1>3, <1>8, <1>2 DEF LeavesAreFrontier
    <3> QED
      BY <1>1, <3>1 DEF Contents, Pairs
  <2>3. Pairs(slot', Count) = Pairs(slot, Count)
    BY <1>3, <1>4 DEF Pairs
  <2> QED
    BY <1>1, <2>1, <2>2, <2>3
<1> QED
  BY <1>1, <1>3, <1>4, <1>5, <1>6, <1>7, <1>9, <1>10, <1>11

LEMMA SiftUpInv ==
  ASSUME IInv, NEW p \in Parsers, SiftUp(p)
  PROVE  IInv' /\ Contents' = Contents
<1> USE DEF IInv
<1> DEFINE k == at[p]
           j == Parent(k)
<1>1. /\ Count = size + 1 /\ \A q \in Parsers \ {p} : pc[q] = "idle"
      /\ pc[Audio] # "siftDown"
      /\ \A a, b : Moving(a, b) <=> b = k
      /\ \A a : Sifted(a) <=> a = k
  BY Rising DEF SiftUp
<1>2. Count \in Nat /\ k \in 1 .. Count
  BY <1>1 DEF SiftUp, Positions, TypeOK
<1>3. k \in 2 .. Count /\ j \in 1 .. k - 1
  BY <1>2, ParentIsAbove DEF SiftUp, OutOfOrder, Top
<1>4. slot[j].chunkStart > slot[k].chunkStart
  BY DEF SiftUp, OutOfOrder
<1>5. slot' = Swap(k, j) /\ at' = [at EXCEPT ![p] = j]
      /\ UNCHANGED <<fresh, owner, size, bot, leaves, bufEnd, pc, ret>>
  BY DEF SiftUp
<1> HIDE DEF j, k
<1>6. /\ TypeOK' /\ Locked' /\ Positions' /\ LeavesAreFrontier'
      /\ OneSlotEach' /\ NoneLeft' /\ Drained'
      /\ Count' = Count /\ Contents' = Contents
      /\ slot'[k] = slot[j] /\ slot'[j] = slot[k]
      /\ \A n \in 1 .. Count \ {k, j} : slot'[n] = slot[n]
  <2>1. j \in 1 .. Count /\ p \in Threads
    BY <1>2, <1>3 DEF Threads
  <2> QED
    BY <1>2, <1>3, <1>5, <2>1, j # k, SwapKeeps
<1>7. at'[p] = j /\ pc[p] = "siftUp"
  BY <1>5 DEF TypeOK, Threads, SiftUp
<1>8. (\A a, b : Moving(a, b)' <=> b = j) /\ (\A a : Sifted(a)' <=> a = j)
  BY <1>1, <1>5, <1>7 DEF Moving, Sifted
<1>9. \A n \in 1 .. Count : slot[n].chunkStart \in Nat
  BY <1>2, Starters
<1>10. \A n \in 2 .. Count : Parent(n) \in 1 .. n - 1
  BY ParentIsAbove
<1>11. \A n \in 2 .. Count : n # k => slot[Parent(n)].chunkStart <= slot[n].chunkStart
  BY <1>1 DEF HeapOrder
<1>12. j = Parent(k)
  BY DEF j
<1>13. HeapOrder'
  <2> SUFFICES ASSUME NEW n \in 2 .. Count, n # j
               PROVE  slot'[Parent(n)].chunkStart <= slot'[n].chunkStart
    BY <1>6, <1>8 DEF HeapOrder
  <2>1. CASE n = k
    BY <1>2, <1>3, <1>4, <1>6, <1>9, <1>12, <2>1
  <2>2. CASE n # k /\ Parent(n) = k
    <3>1. slot[j].chunkStart <= slot[n].chunkStart
      BY <1>1, <1>3, <1>12, <2>2 DEF Grandchildren
    <3> QED
      BY <1>6, <2>2, <3>1
  <2>3. CASE n # k /\ Parent(n) = j
    <3>1. slot[j].chunkStart <= slot[n].chunkStart
      BY <1>11, <2>3
    <3> QED
      BY <1>2, <1>3, <1>4, <1>6, <1>9, <2>3, <3>1
  <2>4. CASE n # k /\ Parent(n) # k /\ Parent(n) # j
    <3>1. Parent(n) \in 1 .. Count
      BY <1>2, <1>10
    <3> QED
      BY <1>6, <1>11, <2>4, <3>1
  <2> QED
    BY <2>1, <2>2, <2>3, <2>4
<1>14. Grandchildren'
  <2> SUFFICES ASSUME NEW c \in 2 .. Count, j \in 2 .. Count, Parent(c) = j
               PROVE  slot'[Parent(j)].chunkStart <= slot'[c].chunkStart
    BY <1>6, <1>8 DEF Grandchildren
  <2>1. Parent(j) \in 1 .. j - 1 /\ slot'[Parent(j)] = slot[Parent(j)]
    <3>1. Parent(j) \in 1 .. j - 1
      BY <1>10
    <3>2. Parent(j) \in 1 .. Count /\ Parent(j) # j /\ Parent(j) # k
      BY <1>2, <1>3, <3>1
    <3> QED
      BY <1>6, <3>1, <3>2
  <2>2. slot[Parent(j)].chunkStart <= slot[j].chunkStart
    BY <1>3, <1>11
  <2>3. CASE c = k
    BY <1>6, <2>1, <2>2, <2>3
  <2>4. CASE c # k
    <3>1. slot[j].chunkStart <= slot[c].chunkStart
      BY <1>11, <2>4
    <3>2. c # j
      BY <1>10
    <3>3. slot'[c] = slot[c]
      BY <1>6, <2>4, <3>2
    <3> QED
      BY <1>2, <1>3, <1>9, <2>1, <2>2, <3>1, <3>3
  <2> QED
    BY <2>3, <2>4
<1> QED
  BY <1>6, <1>13, <1>14

LEMMA SiftDownInv ==
  ASSUME IInv, SiftDown
  PROVE  IInv' /\ Contents' = Contents
<1> USE DEF IInv
<1> DEFINE j == at[Audio]
<1>1. /\ Count = size - 1 /\ \A q \in Parsers : pc[q] = "idle"
      /\ \A a, b : Moving(a, b) <=> a = j
      /\ \A a : Sifted(a) <=> a = j
  BY Sinking DEF SiftDown
<1>2. PICK c \in Sinks(j) : slot' = Swap(j, c) /\ at' = [at EXCEPT ![Audio] = c]
  BY DEF SiftDown
<1>3. UNCHANGED <<fresh, owner, size, bot, leaves, bufEnd, pc, ret>>
      /\ pc[Audio] = "siftDown"
  BY DEF SiftDown
<1>4. Count \in Nat
  BY <1>1, <1>3 DEF Positions, TypeOK
<1> HIDE DEF j
<1>5. /\ Filled(j) /\ c \in {Left(j), Right(j)} /\ Filled(c)
      /\ slot[c].chunkStart < slot[j].chunkStart
      /\ \A d \in {Left(j), Right(j)} : Filled(d) /\ d # c =>
           \/ slot[c].chunkStart < slot[d].chunkStart
           \/ slot[c].chunkStart = slot[d].chunkStart
  BY DEF Sinks, Candidates, FilledChildren
<1>6. j \in Nat /\ j >= 1
  BY <1>3, <1>4 DEF Positions, j, Top
<1>7. j \in 1 .. Count
  <2>2. Count # 0
    <3> SUFFICES ASSUME Count = 0 PROVE FALSE
      OBVIOUS
    <3>1. j = Top
      BY <1>3 DEF Positions, j
    <3> QED
      BY <1>3, <1>5, <3>1 DEF NoneLeft
  <2> QED
    BY <1>3, <1>4, <2>2 DEF Positions, j, Top
<1>8. c \in 2 .. Count /\ Parent(c) = j /\ c # j
  <2>1. c \in Nat /\ c >= 2 /\ c # j /\ Parent(c) = j
    BY <1>5, <1>6 DEF Left, Right, Parent
  <2>2. c \in DOMAIN slot
    BY <1>4, <1>5, <1>7 DEF LeavesAreFrontier, Left, Right
  <2> QED
    BY <1>4, <1>5, <1>7, <2>1, <2>2 DEF LeavesAreFrontier
<1>9. /\ TypeOK' /\ Locked' /\ Positions' /\ LeavesAreFrontier'
      /\ OneSlotEach' /\ NoneLeft' /\ Drained'
      /\ Count' = Count /\ Contents' = Contents
      /\ slot'[j] = slot[c] /\ slot'[c] = slot[j]
      /\ \A n \in 1 .. Count \ {j, c} : slot'[n] = slot[n]
  <2>1. Audio \in Threads /\ c \in 1 .. Count
    BY <1>8 DEF Threads
  <2> QED
    BY <1>2, <1>3, <1>4, <1>7, <1>8, <2>1, SwapKeeps
<1>10. at'[Audio] = c
  BY <1>2 DEF TypeOK, Threads
<1>11. (\A a, b : Moving(a, b)' <=> a = c) /\ (\A a : Sifted(a)' <=> a = c)
  BY <1>1, <1>3, <1>10 DEF Moving, Sifted
<1>12. \A n \in 1 .. Count : slot[n].chunkStart \in Nat
  BY <1>4, Starters
<1>13. \A n \in 2 .. Count : Parent(n) \in 1 .. n - 1
  BY ParentIsAbove
<1>14. \A n \in 2 .. Count :
         Parent(n) # j => slot[Parent(n)].chunkStart <= slot[n].chunkStart
  BY <1>1 DEF HeapOrder
<1>15. \A n \in 2 .. Count : Parent(n) = j => slot[c].chunkStart <= slot[n].chunkStart
  <2> SUFFICES ASSUME NEW n \in 2 .. Count, Parent(n) = j, n # c
               PROVE  slot[c].chunkStart <= slot[n].chunkStart
    BY <1>8, <1>12
  <2>1. n \in {Left(j), Right(j)}
    BY <1>6, Children
  <2>2. Filled(n)
    BY <1>4, <1>7 DEF LeavesAreFrontier
  <2> QED
    BY <1>5, <1>8, <1>12, <2>1, <2>2
<1>16. HeapOrder'
  <2> SUFFICES ASSUME NEW n \in 2 .. Count, Parent(n) # c
               PROVE  slot'[Parent(n)].chunkStart <= slot'[n].chunkStart
    BY <1>9, <1>11 DEF HeapOrder
  <2>1. CASE n = c
    BY <1>5, <1>7, <1>8, <1>9, <1>12, <2>1
  <2>2. CASE n # c /\ Parent(n) = j
    <3>1. n # j
      BY <1>13, <2>2
    <3> QED
      BY <1>9, <1>15, <2>2, <3>1
  <2>3. CASE n = j
    <3>1. slot[Parent(j)].chunkStart <= slot[c].chunkStart
      BY <1>1, <1>8, <2>3 DEF Grandchildren
    <3>2. slot'[Parent(n)] = slot[Parent(n)]
      <4>1. Parent(n) \in 1 .. Count /\ Parent(n) # j /\ Parent(n) # c
        <5>1. Parent(n) \in 1 .. n - 1 /\ j \in 1 .. c - 1
          BY <1>8, <1>13
        <5> QED
          BY <1>4, <1>8, <2>3, <5>1
      <4> QED
        BY <1>9, <4>1
    <3> QED
      BY <1>9, <2>3, <3>1, <3>2
  <2>4. CASE n # c /\ n # j /\ Parent(n) # j
    <3>1. slot'[Parent(n)] = slot[Parent(n)] /\ slot'[n] = slot[n]
      <4>1. Parent(n) \in 1 .. Count
        BY <1>4, <1>13
      <4> QED
        BY <1>9, <2>4, <4>1
    <3> QED
      BY <1>14, <2>4, <3>1
  <2> QED
    BY <2>1, <2>2, <2>3, <2>4
<1>17. Grandchildren'
  <2> SUFFICES ASSUME NEW d \in 2 .. Count, Parent(d) = c
               PROVE  slot'[Parent(c)].chunkStart <= slot'[d].chunkStart
    BY <1>9, <1>11 DEF Grandchildren
  <2>1. d # c /\ d # j /\ slot'[d] = slot[d]
    BY <1>8, <1>9, <1>13
  <2>2. slot[c].chunkStart <= slot[d].chunkStart
    BY <1>8, <1>14
  <2> QED
    BY <1>8, <1>9, <2>1, <2>2
<1> QED
  BY <1>9, <1>16, <1>17

-----------------------------------------------------------------------------
(* Insertion.                                                              *)

\* The new instrument is the last one of a complete tree.
LEMMA PlaceFacts ==
  ASSUME IInv, owner = None, NEW p \in Threads, NEW i \in Insts, NEW t \in Starts,
         Place(p, i, t)
  PROVE  LET c == size + 1
         IN /\ leaves' = Frontier(c) /\ bot' = c /\ at' = [at EXCEPT ![p] = c]
            /\ DOMAIN slot' = 1 .. 2 * c + 1
            /\ slot'[c] = [inst |-> i, chunkStart |-> t]
            /\ \A k \in 1 .. size : k \in DOMAIN slot /\ slot'[k] = slot[k]
            /\ \A k \in c + 1 .. 2 * c + 1 : slot'[k].inst = None
            /\ \A k \in 1 .. 2 * c + 1 : slot'[k] \in SlotType
<1> USE DEF IInv
<1>1. size \in Nat /\ Count = size
  BY Unlocked DEF TypeOK
<1> DEFINE c == size + 1
           queue == IF size = 0 THEN <<Top>> ELSE leaves
           tree  == IF size = 0 THEN {Top} ELSE DOMAIN slot
           new   == Head(queue)
<1>2. queue = Frontier(size) /\ tree = 1 .. 2 * size + 1
  <2>1. CASE size = 0
    <3>1. <<Top>> = [n \in 1 .. 1 |-> n]
      BY DEF Top
    <3>2. Frontier(0) = [n \in 1 .. 1 |-> n]
      BY DEF Frontier
    <3> QED
      BY <2>1, <3>1, <3>2 DEF Top
  <2>2. CASE size # 0
    BY <1>1, <2>2 DEF LeavesAreFrontier, Frontier
  <2> QED
    BY <2>1, <2>2
<1>3. /\ leaves' = Tail(queue) \o <<Right(new), Left(new)>>
      /\ slot' = [k \in tree \cup {Right(new), Left(new)} |->
                    CASE k = new            -> [inst |-> i, chunkStart |-> t]
                      [] k \in tree \ {new} -> slot[k]
                      [] OTHER              -> Empty]
      /\ bot' = new /\ at' = [at EXCEPT ![p] = new]
  BY Zenon DEF Place
<1>4. new = c
  BY <1>1, <1>2, FrontierGrows
<1>5. leaves' = Frontier(c)
  BY <1>1, <1>2, <1>3, <1>4, FrontierGrows
<1>6. Right(c) = 2 * c /\ Left(c) = 2 * c + 1
  BY DEF Right, Left
<1> HIDE DEF new, queue
<1>7. tree \cup {Right(new), Left(new)} = 1 .. 2 * c + 1
  <2>1. Right(new) = 2 * c /\ Left(new) = 2 * c + 1
    BY <1>4, <1>6
  <2>2. tree = 1 .. 2 * c - 1
    BY <1>1, <1>2
  <2> HIDE DEF tree
  <2> QED
    BY <1>1, <2>1, <2>2
<1> HIDE DEF tree
<1>8. \A k \in 1 .. 2 * c + 1 :
        slot'[k] = IF k = c THEN [inst |-> i, chunkStart |-> t]
                   ELSE IF k \in tree THEN slot[k] ELSE Empty
  <2>1. slot' = [k \in 1 .. 2 * c + 1 |->
                   CASE k = c            -> [inst |-> i, chunkStart |-> t]
                     [] k \in tree \ {c} -> slot[k]
                     [] OTHER            -> Empty]
    BY <1>3, <1>4, <1>7
  <2> QED
    BY <2>1
<1>9. DOMAIN slot' = 1 .. 2 * c + 1
  BY <1>3, <1>7
<1>10. \A k \in 1 .. size : k \in DOMAIN slot /\ slot'[k] = slot[k]
  <2> SUFFICES ASSUME NEW k \in 1 .. size
               PROVE  k \in DOMAIN slot /\ slot'[k] = slot[k]
    OBVIOUS
  <2>1. k \in tree /\ k # c /\ k \in 1 .. 2 * c + 1
    BY <1>1, <1>2
  <2>2. k \in DOMAIN slot
    BY <1>1 DEF LeavesAreFrontier
  <2> QED
    BY <1>8, <2>1, <2>2
<1>11. \A k \in c + 1 .. 2 * c + 1 : slot'[k].inst = None
  <2> SUFFICES ASSUME NEW k \in c + 1 .. 2 * c + 1 PROVE slot'[k].inst = None
    OBVIOUS
  <2>1. k \in 1 .. 2 * c + 1 /\ k # c
    BY <1>1
  <2>2. CASE k \in tree
    <3>1. slot'[k] = slot[k]
      BY <1>8, <2>1, <2>2
    <3>2. size > 0 /\ k \in DOMAIN slot /\ ~ (k <= size)
      BY <1>1, <1>2, <2>2 DEF LeavesAreFrontier
    <3>3. slot[k].inst = None
      BY <1>1, <3>2 DEF LeavesAreFrontier, Filled
    <3> QED
      BY <3>1, <3>3
  <2>3. CASE k \notin tree
    BY <1>8, <2>1, <2>3 DEF Empty
  <2> QED
    BY <2>2, <2>3
<1>12. c \in 1 .. 2 * c + 1
  BY <1>1
<1>13. slot'[c] = [inst |-> i, chunkStart |-> t]
  BY <1>8, <1>12
<1>14. \A k \in 1 .. 2 * c + 1 : slot'[k] \in SlotType
  <2> SUFFICES ASSUME NEW k \in 1 .. 2 * c + 1 PROVE slot'[k] \in SlotType
    OBVIOUS
  <2>1. CASE k = c
    BY <1>13, <2>1 DEF SlotType
  <2>2. CASE k # c /\ k \in tree
    <3>1. size > 0 /\ k \in DOMAIN slot
      BY <1>1, <1>2, <2>2 DEF LeavesAreFrontier
    <3> QED
      BY <1>8, <2>2, <3>1 DEF TypeOK, SlotType
  <2>3. CASE k # c /\ k \notin tree
    BY <1>8, <2>3 DEF Empty, SlotType
  <2> QED
    BY <2>1, <2>2, <2>3
<1> QED
  BY <1>3, <1>4, <1>5, <1>9, <1>10, <1>11, <1>13, <1>14

LEMMA InsertBeginsInv ==
  ASSUME IInv, NEW p \in Parsers, NEW i \in Insts, NEW t \in Starts,
         InsertBegins(p, i, t)
  PROVE  IInv' /\ PQ!Insert(i, t)
<1> USE DEF IInv
<1> DEFINE c == size + 1
<1>1. /\ Count = size /\ size \in Nat /\ pc[Audio] # "siftDown"
      /\ \A q \in Parsers : pc[q] = "idle"
      /\ \A m \in 2 .. size : slot[Parent(m)].chunkStart <= slot[m].chunkStart
  BY Unlocked DEF InsertBegins, TypeOK
<1>2. /\ i \in fresh /\ fresh' = fresh \ {i} /\ owner' = p
      /\ pc' = [pc EXCEPT ![p] = "siftUp"] /\ UNCHANGED <<size, bufEnd, ret>>
  BY DEF InsertBegins
<1>3. /\ leaves' = Frontier(c) /\ bot' = c /\ at' = [at EXCEPT ![p] = c]
      /\ DOMAIN slot' = 1 .. 2 * c + 1
      /\ slot'[c] = [inst |-> i, chunkStart |-> t]
      /\ \A k \in 1 .. size : k \in DOMAIN slot /\ slot'[k] = slot[k]
      /\ \A k \in c + 1 .. 2 * c + 1 : slot'[k].inst = None
      /\ \A k \in 1 .. 2 * c + 1 : slot'[k] \in SlotType
  BY PlaceFacts DEF InsertBegins, Threads
<1>4. /\ pc'[p] = "siftUp" /\ \A q \in Threads \ {p} : pc'[q] = pc[q]
      /\ at'[p] = c /\ pc' \in [Threads -> {"idle", "siftUp", "drain", "siftDown", "play"}]
      /\ at' \in [Threads -> Nat]
  BY <1>1, <1>2, <1>3 DEF TypeOK, Threads
<1>5. pc'[Audio] = pc[Audio] /\ \A q \in Parsers \ {p} : pc'[q] = "idle"
  BY <1>1, <1>4, ThreadAssumption DEF Threads
<1>6. Locked'
  BY <1>1, <1>2, <1>4, <1>5 DEF Locked
<1>7. Count' = c
  <2>1. \E q \in Parsers : pc'[q] = "siftUp"
    BY <1>4
  <2>2. Count' = size' + 1
    BY <1>1, <1>5, <2>1 DEF Count
  <2> QED
    BY <1>2, <2>2
<1>8. (\A a, b : Moving(a, b)' <=> b = c) /\ (\A a : Sifted(a)' <=> a = c)
  BY <1>1, <1>4, <1>5 DEF Moving, Sifted
<1>9. TypeOK'
  <2>1. leaves' \in Seq(Nat) /\ bot' \in Nat
    BY <1>1, <1>3, FrontierIsSeq
  <2>2. /\ DOMAIN slot' \subseteq Nat
        /\ slot' \in [DOMAIN slot' -> SlotType]
    <3>1. slot' = [k \in DOMAIN slot' |-> slot'[k]]
      BY Zenon, <1>2 DEF InsertBegins, Place
    <3> QED
      BY <1>3, <3>1
  <2> QED
    BY <1>2, <1>4, <2>1, <2>2 DEF TypeOK, Threads, SlotType
<1>10. Positions'
  BY <1>1, <1>4, <1>5, <1>7 DEF Positions
<1>11. slot'[c].inst = i /\ slot'[c].chunkStart = t
  BY <1>3
<1>12. LeavesAreFrontier'
  <2>1. \A k \in 1 .. 2 * c + 1 : slot'[k].inst # None <=> k <= c
    <3> SUFFICES ASSUME NEW k \in 1 .. 2 * c + 1
                 PROVE  slot'[k].inst # None <=> k <= c
      OBVIOUS
    <3>1. CASE k \in 1 .. size
      <4>1. slot'[k].inst \in Insts
        BY <1>1, <1>3, <3>1, Starters
      <4> QED
        BY <1>1, <3>1, <4>1, NoneAssumption
    <3>2. CASE k = c
      BY <1>1, <1>11, <3>2, NoneAssumption
    <3>3. CASE k \in c + 1 .. 2 * c + 1
      BY <1>1, <1>3, <3>3
    <3> QED
      BY <1>1, <3>1, <3>2, <3>3
  <2>2. \A k \in DOMAIN slot' : slot'[k].inst # None <=> k <= Count'
    BY <1>3, <1>7, <2>1
  <2>3. leaves' = [n \in 1 .. Count' + 1 |-> Count' + n]
    BY <1>3, <1>7 DEF Frontier
  <2>4. bot' = Count' /\ DOMAIN slot' = 1 .. 2 * Count' + 1
    BY <1>3, <1>7
  <2> QED
    BY <2>2, <2>3, <2>4 DEF LeavesAreFrontier, Filled
<1>13. HeapOrder'
  <2> SUFFICES ASSUME NEW m \in 2 .. c, m # c
               PROVE  slot'[Parent(m)].chunkStart <= slot'[m].chunkStart
    BY <1>7, <1>8 DEF HeapOrder
  <2>1. m \in 1 .. size /\ m \in 2 .. size
    BY <1>1
  <2>2. Parent(m) \in 1 .. m - 1
    BY <2>1, ParentIsAbove
  <2>3. Parent(m) \in 1 .. size
    BY <1>1, <2>1, <2>2
  <2> QED
    BY <1>1, <1>3, <2>1, <2>3
<1>14. Grandchildren'
  <2> SUFFICES ASSUME NEW d \in 2 .. c, Parent(d) = c PROVE FALSE
    BY <1>7, <1>8 DEF Grandchildren
  <2> QED
    BY <1>1, ParentIsAbove
<1>15. OneSlotEach'
  <2>1. \A k \in 1 .. size : slot'[k].inst # i /\ slot'[k].inst \notin fresh'
    BY <1>1, <1>2, <1>3 DEF OneSlotEach
  <2>2. \A j, k \in 1 .. size : slot'[j].inst = slot'[k].inst => j = k
    BY <1>1, <1>3 DEF OneSlotEach
  <2>3. \A k \in 1 .. c : k = c \/ k \in 1 .. size
    BY <1>1
  <2> QED
    BY <1>2, <1>7, <1>11, <2>1, <2>2, <2>3 DEF OneSlotEach
<1>16. NoneLeft' /\ Drained'
  BY <1>1, <1>2, <1>5, <1>7 DEF NoneLeft, Drained
<1>17. Contents' = Contents \cup {<<t, i>>}
  <2>1. Contents = Pairs(slot, size)
    BY <1>1, ContentsArePairs
  <2>2. {k \in DOMAIN slot' : Filled(k)'} = 1 .. c
    BY <1>1, <1>3, <1>7, <1>12 DEF LeavesAreFrontier
  <2>3. Contents' = Pairs(slot', c)
    BY <2>2 DEF Contents, Pairs
  <2>4. 1 .. c = (1 .. size) \cup {c}
    BY <1>1
  <2>5. Pairs(slot', c) = Pairs(slot', size) \cup {<<t, i>>}
    <3> HIDE DEF c
    <3> QED
      BY <1>11, <2>4 DEF Pairs
  <2>6. Pairs(slot', size) = Pairs(slot, size)
    BY <1>3 DEF Pairs
  <2> QED
    BY <2>1, <2>3, <2>5, <2>6
<1>18. PQ!Insert(i, t)
  BY <1>2, <1>17 DEF PQ!Insert
<1> QED
  BY <1>6, <1>9, <1>10, <1>12, <1>13, <1>14, <1>15, <1>16, <1>18

LEMMA InsertEndsInv ==
  ASSUME IInv, NEW p \in Parsers, InsertEnds(p)
  PROVE  IInv' /\ Contents' = Contents
<1> USE DEF IInv
<1>1. /\ Count = size + 1 /\ \A q \in Parsers \ {p} : pc[q] = "idle"
      /\ pc[Audio] # "siftDown" /\ size \in Nat
      /\ \A a, b : Moving(a, b) <=> b = at[p]
  BY Rising DEF InsertEnds, TypeOK
<1>2. /\ size' = size + 1 /\ owner' = None /\ pc' = [pc EXCEPT ![p] = "idle"]
      /\ UNCHANGED <<fresh, bot, leaves, slot, bufEnd, at, ret>>
  BY DEF InsertEnds
<1>3. /\ pc'[Audio] = pc[Audio] /\ \A q \in Parsers : pc'[q] = "idle"
      /\ pc' \in [Threads -> {"idle", "siftUp", "drain", "siftDown", "play"}]
  BY <1>1, <1>2, ThreadAssumption DEF TypeOK, Threads
<1>4. Count' = Count
  BY <1>1, <1>2, <1>3 DEF Count
<1>5. TypeOK' /\ Locked' /\ Positions'
  BY <1>1, <1>2, <1>3 DEF TypeOK, Locked, Positions
<1>6. LeavesAreFrontier' /\ NoneLeft' /\ Drained' /\ OneSlotEach' /\ Contents' = Contents
  BY <1>1, <1>2, <1>3, <1>4
  DEF LeavesAreFrontier, NoneLeft, Drained, OneSlotEach, Contents, Filled
<1>7. Grandchildren'
  BY <1>1, <1>3 DEF Grandchildren, Sifted
<1>8. HeapOrder'
  <2> SUFFICES ASSUME NEW m \in 2 .. Count
               PROVE  slot[Parent(m)].chunkStart <= slot[m].chunkStart
    BY <1>2, <1>4 DEF HeapOrder
  <2>1. CASE m = at[p]
    <3>1. ~ (slot[Parent(m)].chunkStart > slot[m].chunkStart)
      BY <1>1, <2>1 DEF InsertEnds, OutOfOrder, Top
    <3>2. Parent(m) \in 1 .. Count
      <4>1. Parent(m) \in 1 .. m - 1
        BY ParentIsAbove
      <4> QED
        BY <1>1, <4>1
    <3> QED
      BY <1>1, <3>1, <3>2, Starters
  <2>2. CASE m # at[p]
    BY <1>1, <2>2 DEF HeapOrder
  <2> QED
    BY <2>1, <2>2
<1> QED
  BY <1>5, <1>6, <1>7, <1>8

-----------------------------------------------------------------------------
(* Deletion.                                                               *)

\* With the lock free, what is at the top is a least element.
LEMMA TopIsMinimum ==
  ASSUME IInv, owner = None, size > 0
  PROVE  /\ Taken \in Contents /\ Contents = Pairs(slot, size)
         /\ \A e \in Contents : Taken[1] <= e[1]
         /\ slot[Top].chunkStart \in Nat /\ Taken[1] = slot[Top].chunkStart
         /\ Taken \in (Starts \cup {0}) \X Insts
<1> USE DEF IInv
<1>1. Count = size /\ size \in Nat
      /\ \A m \in 2 .. Count : slot[Parent(m)].chunkStart <= slot[m].chunkStart
  BY Unlocked DEF TypeOK
<1>2. Contents = Pairs(slot, size)
  BY <1>1, ContentsArePairs
<1>3. \A m \in 1 .. Count : slot[m].chunkStart \in Nat
  BY <1>1, Starters
<1>4. Top \in 1 .. size
  BY <1>1 DEF Top
<1>5. \A k \in 1 .. Count : slot[Top].chunkStart <= slot[k].chunkStart
  BY <1>1, <1>3, TopIsLeast
<1>6. Taken[1] = slot[Top].chunkStart
  BY DEF Taken
<1>7. Taken \in Contents
  BY <1>2, <1>4 DEF Taken, Pairs
<1>8. \A e \in Contents : Taken[1] <= e[1]
  BY <1>1, <1>2, <1>5, <1>6 DEF Pairs
<1>9. Taken \in (Starts \cup {0}) \X Insts
  BY <1>1, <1>4, Starters DEF Taken, SlotType
<1> QED
  BY <1>1, <1>2, <1>3, <1>4, <1>6, <1>7, <1>8, <1>9

LEMMA DeleteNoneInv ==
  ASSUME IInv, DeleteNone
  PROVE  IInv' /\ PQ!DeleteNone
<1> USE DEF IInv
<1>1. /\ owner = None /\ ~Due /\ ret' = None /\ pc' = [pc EXCEPT ![Audio] = "play"]
      /\ UNCHANGED <<fresh, owner, size, bot, leaves, slot, bufEnd, at>>
  BY DEF DeleteNone
<1>2. /\ Count = size /\ size \in Nat /\ \A q \in Parsers : pc[q] = "idle"
      /\ \A m \in 2 .. Count : slot[Parent(m)].chunkStart <= slot[m].chunkStart
  BY <1>1, Unlocked DEF TypeOK
<1>3. /\ pc'[Audio] = "play" /\ \A q \in Parsers : pc'[q] = "idle"
      /\ pc' \in [Threads -> {"idle", "siftUp", "drain", "siftDown", "play"}]
  BY <1>1, <1>2, ThreadAssumption DEF TypeOK, Threads
<1>4. Count' = Count
  BY <1>1, <1>2, <1>3 DEF Count
<1>5. TypeOK' /\ Locked' /\ Positions'
  BY <1>1, <1>3 DEF TypeOK, Locked, Positions
<1>6. LeavesAreFrontier' /\ NoneLeft' /\ Drained' /\ OneSlotEach' /\ Contents' = Contents
  BY <1>1, <1>3, <1>4
  DEF LeavesAreFrontier, NoneLeft, Drained, OneSlotEach, Contents, Filled
<1>7. HeapOrder' /\ Grandchildren'
  BY <1>1, <1>2, <1>3, <1>4 DEF HeapOrder, Grandchildren, Sifted
<1>8. \A e \in Contents : e[1] >= bufEnd
  <2>1. CASE size = 0
    <3>1. Contents = {}
      BY <1>2, <2>1 DEF NoneLeft, Contents
    <3> QED
      BY <3>1
  <2>2. CASE size > 0
    <3> SUFFICES ASSUME NEW e \in Contents PROVE e[1] >= bufEnd
      OBVIOUS
    <3>1. Taken[1] <= e[1] /\ slot[Top].chunkStart \in Nat
          /\ Taken[1] = slot[Top].chunkStart
      BY <1>1, <2>2, TopIsMinimum
    <3>2. e[1] \in Nat
      <4>1. PICK k \in 1 .. size : e = <<slot[k].chunkStart, slot[k].inst>>
        BY <1>1, <2>2, TopIsMinimum DEF Pairs
      <4> QED
        BY <1>2, <4>1, Starters
    <3> QED
      BY <1>1, <2>2, <3>1, <3>2 DEF Due, TypeOK
  <2> QED
    BY <1>2, <2>1, <2>2
<1> QED
  BY <1>1, <1>5, <1>6, <1>7, <1>8 DEF PQ!DeleteNone

LEMMA NextSliceInv ==
  ASSUME IInv, NextSlice
  PROVE  IInv' /\ PQ!NextSlice
<1> USE DEF IInv
<1>1. /\ pc[Audio] = "play" /\ bufEnd' = bufEnd + FrameCount
      /\ pc' = [pc EXCEPT ![Audio] = "drain"]
      /\ UNCHANGED <<fresh, owner, size, bot, leaves, slot, at, ret>>
  BY DEF NextSlice
<1>2. /\ pc'[Audio] = "drain" /\ \A q \in Parsers : pc'[q] = pc[q]
      /\ pc' \in [Threads -> {"idle", "siftUp", "drain", "siftDown", "play"}]
  BY <1>1, ThreadAssumption DEF TypeOK, Threads
<1>3. Count' = Count
  BY <1>1, <1>2 DEF Count
<1>4. TypeOK' /\ Locked' /\ Positions'
  BY <1>1, <1>2, <1>3, StartAssumption DEF TypeOK, Locked, Positions
<1>5. LeavesAreFrontier' /\ NoneLeft' /\ Drained' /\ OneSlotEach' /\ Contents' = Contents
  BY <1>1, <1>2, <1>3
  DEF LeavesAreFrontier, NoneLeft, Drained, OneSlotEach, Contents, Filled
<1>6. HeapOrder' /\ Grandchildren'
  BY <1>1, <1>2, <1>3 DEF HeapOrder, Grandchildren, Moving, Sifted
<1>7. ret = None
  BY <1>1 DEF Drained
<1> QED
  BY <1>1, <1>4, <1>5, <1>6, <1>7 DEF PQ!NextSlice

\* The tree without its top: the last instrument is there, the rest are in place.
LEMMA DeleteFacts ==
  ASSUME IInv, DeleteBegins, size >= 2
  PROVE  LET c == size
         IN /\ leaves' = Frontier(c - 1) /\ bot' = c - 1
            /\ DOMAIN slot' = 1 .. 2 * c - 1 /\ slot' \in [1 .. 2 * c - 1 -> SlotType]
            /\ slot'[Top] = slot[c] /\ slot'[c].inst = None
            /\ \A k \in 2 .. 2 * c - 1 : k # c => slot'[k] = slot[k]
<1> USE DEF IInv
<1> DEFINE c == size
           kept == SubSeq(leaves, 1, Len(leaves) - 2)
           freed == {leaves[n] : n \in Len(leaves) - 1 .. Len(leaves)}
<1>1. size \in Nat /\ Count = size
  BY Unlocked DEF DeleteBegins, TypeOK
<1>2. /\ leaves = Frontier(c) /\ bot = c /\ DOMAIN slot = 1 .. 2 * c + 1
      /\ slot \in [DOMAIN slot -> SlotType]
      /\ \A k \in DOMAIN slot : Filled(k) <=> k <= c
  BY <1>1 DEF LeavesAreFrontier, Frontier, TypeOK, SlotType
<1>3. Trimmed = 2 /\ Len(leaves) \in Nat
  BY <1>1, <1>2, FrontierIsSeq DEF Trimmed
<1>4. /\ slot' = [k \in DOMAIN slot \ freed |-> Replaced[k]]
      /\ leaves' = <<bot>> \o kept /\ bot' = Parent(kept[Len(kept)])
  <2>1. Len(leaves) - 2 + 1 = Len(leaves) - 1
    BY <1>3
  <2> QED
    BY <1>3, <2>1 DEF DeleteBegins
<1>5. /\ <<c>> \o kept = Frontier(c - 1) /\ freed = {2 * c, 2 * c + 1}
      /\ Parent(kept[Len(kept)]) = c - 1
  BY <1>1, <1>2, FrontierShrinks
<1> HIDE DEF kept, freed
<1>6. DOMAIN slot \ freed = 1 .. 2 * c - 1
  <2>1. \A k : k \in (1 .. 2 * c + 1) \ {2 * c, 2 * c + 1} <=> k \in 1 .. 2 * c - 1
    BY <1>1
  <2> QED
    BY <1>2, <1>5, <2>1
<1>7. \A k \in DOMAIN slot :
        Replaced[k] = IF k = c THEN Empty ELSE IF k = Top THEN slot[c] ELSE slot[k]
  <2> SUFFICES ASSUME NEW k \in DOMAIN slot
               PROVE Replaced[k] = IF k = c THEN Empty
                                   ELSE IF k = Top THEN slot[c] ELSE slot[k]
    OBVIOUS
  <2>1. Replaced = [slot EXCEPT ![Top] = slot[c], ![c] = Empty]
    BY <1>2 DEF Replaced
  <2>2. Top \in DOMAIN slot /\ c \in DOMAIN slot /\ c # Top
    BY <1>1, <1>2 DEF Top
  <2> QED
    BY <2>1, <2>2
<1>8. \A k \in 1 .. 2 * c - 1 : slot'[k] = Replaced[k]
  BY <1>4, <1>6
<1>9. slot'[Top] = slot[c] /\ slot'[c].inst = None
      /\ \A k \in 2 .. 2 * c - 1 : k # c => slot'[k] = slot[k]
  <2>1. 1 .. 2 * c - 1 \subseteq DOMAIN slot
    BY <1>1, <1>2
  <2>2. Top \in 1 .. 2 * c - 1 /\ c \in 1 .. 2 * c - 1 /\ c # Top
    BY <1>1 DEF Top
  <2>3. \A k \in 2 .. 2 * c - 1 : k \in 1 .. 2 * c - 1 /\ k # Top
    BY <1>1 DEF Top
  <2> QED
    BY <1>7, <1>8, <2>1, <2>2, <2>3 DEF Empty
<1>10. slot' \in [1 .. 2 * c - 1 -> SlotType]
  <2> SUFFICES ASSUME NEW k \in 1 .. 2 * c - 1 PROVE Replaced[k] \in SlotType
    BY <1>4, <1>6
  <2>1. k \in DOMAIN slot /\ c \in DOMAIN slot
    BY <1>1, <1>2
  <2>2. Empty \in SlotType
    BY DEF Empty, SlotType
  <2>3. slot[k] \in SlotType /\ slot[c] \in SlotType
    BY <1>2, <2>1
  <2> QED
    BY <1>7, <2>1, <2>2, <2>3
<1> QED
  BY <1>2, <1>4, <1>5, <1>6, <1>9, <1>10

\* The last instrument leaves two empty slots, which the next insertion drops.
LEMMA DeleteLastFacts ==
  ASSUME IInv, DeleteBegins, size = 1
  PROVE  /\ leaves' \in Seq(Nat) /\ bot' \in Nat
         /\ DOMAIN slot' = {1, 2} /\ slot' \in [{1, 2} -> SlotType]
         /\ slot'[1].inst = None /\ slot'[2].inst = None
         /\ Contents = {Taken}
<1> USE DEF IInv
<1>1. Count = 1
  BY Unlocked DEF DeleteBegins
<1>2. /\ leaves = Frontier(1) /\ bot = 1 /\ DOMAIN slot = 1 .. 3
      /\ slot \in [DOMAIN slot -> SlotType]
      /\ \A k \in DOMAIN slot : Filled(k) <=> k <= 1
  BY <1>1 DEF LeavesAreFrontier, Frontier, TypeOK, SlotType
<1>3. leaves \in Seq(Nat) /\ Len(leaves) = 2 /\ leaves[1] = 2 /\ leaves[2] = 3
  <2>1. /\ Frontier(1) \in Seq(Nat) /\ Len(Frontier(1)) = 1 + 1
        /\ \A n \in 1 .. 1 + 1 : Frontier(1)[n] = 1 + n
    <3>1. 1 \in Nat
      OBVIOUS
    <3> QED
      BY <3>1, FrontierIsSeq, Zenon
  <2> HIDE DEF IInv
  <2> QED
    BY <1>2, <2>1
<1> DEFINE kept == SubSeq(leaves, 1, 1)
           freed == {leaves[n] : n \in 2 .. 2}
<1>4. Trimmed = 1
  BY DEF Trimmed
<1>5. /\ slot' = [k \in DOMAIN slot \ freed |-> Replaced[k]]
      /\ leaves' = <<bot>> \o kept /\ bot' = Parent(kept[Len(kept)])
  <2>1. Len(leaves) - Trimmed = 1 /\ Len(leaves) - Trimmed + 1 = 2
    BY <1>3, <1>4
  <2> QED
    BY <1>3, <2>1 DEF DeleteBegins
<1>6. freed = {3}
  <2>1. 2 .. 2 = {2}
    OBVIOUS
  <2> QED
    BY <1>3, <2>1
<1>7. kept \in Seq(Nat) /\ Len(kept) = 1 /\ kept[1] = 2
  BY <1>3
<1> HIDE DEF kept, freed
<1>8. leaves' \in Seq(Nat) /\ bot' \in Nat
  BY <1>2, <1>5, <1>7 DEF Parent
<1>9. DOMAIN slot \ freed = {1, 2}
  BY <1>2, <1>6
<1>10. \A k \in {1, 2} : Replaced[k] = IF k = 1 THEN Empty ELSE slot[k]
  <2>1. Replaced = [slot EXCEPT ![1] = slot[1], ![1] = Empty]
    BY <1>2 DEF Replaced, Top
  <2> QED
    BY <1>2, <2>1
<1>11. slot[2].inst = None /\ slot[2] \in SlotType
  BY <1>2 DEF Filled
<1>12. Empty \in SlotType
  BY DEF Empty, SlotType
<1>13. \A k \in {1, 2} : slot'[k] = Replaced[k]
  BY <1>5, <1>9
<1>14. slot'[1] = Empty /\ slot'[2] = slot[2]
  BY <1>10, <1>13
<1>15. DOMAIN slot' = {1, 2} /\ slot' \in [{1, 2} -> SlotType]
  BY <1>5, <1>9, <1>10, <1>11, <1>12
<1>16. Contents = {Taken}
  <2>1. Contents = Pairs(slot, 1)
    BY <1>1, ContentsArePairs
  <2>2. 1 .. 1 = {1}
    OBVIOUS
  <2> QED
    BY <2>1, <2>2 DEF Pairs, Taken, Top
<1> QED
  BY <1>8, <1>11, <1>14, <1>15, <1>16 DEF Empty

LEMMA DeleteBeginsInv ==
  ASSUME IInv, DeleteBegins
  PROVE  IInv' /\ PQ!DeleteMin
<1> USE DEF IInv
<1>1. /\ Count = size /\ size \in Nat /\ \A q \in Parsers : pc[q] = "idle"
      /\ \A m \in 2 .. Count : slot[Parent(m)].chunkStart <= slot[m].chunkStart
  BY Unlocked DEF DeleteBegins, TypeOK
<1>2. /\ pc[Audio] = "drain" /\ owner = None /\ Due /\ ret' = Taken /\ owner' = Audio
      /\ at' = [at EXCEPT ![Audio] = Top] /\ pc' = [pc EXCEPT ![Audio] = "siftDown"]
      /\ UNCHANGED <<fresh, size, bufEnd>>
  BY DEF DeleteBegins
<1>3. size >= 1
  BY <1>1, <1>2 DEF Due
<1>4. /\ pc'[Audio] = "siftDown" /\ \A q \in Parsers : pc'[q] = "idle"
      /\ pc' \in [Threads -> {"idle", "siftUp", "drain", "siftDown", "play"}]
      /\ at' \in [Threads -> Nat] /\ at'[Audio] = Top
  BY <1>1, <1>2, ThreadAssumption DEF TypeOK, Threads, Top
<1>5. Count' = size - 1
  BY <1>2, <1>4 DEF Count
<1>6. (\A a, b : Moving(a, b)' <=> a = Top) /\ (\A a : Sifted(a)' <=> a = Top)
  BY <1>4 DEF Moving, Sifted
<1>7. /\ Taken \in Contents /\ Contents = Pairs(slot, size)
      /\ \A e \in Contents : Taken[1] <= e[1]
      /\ Taken[1] < bufEnd /\ Taken \in (Starts \cup {0}) \X Insts
  BY <1>1, <1>2, <1>3, TopIsMinimum DEF Due
<1>8. Locked' /\ Positions' /\ Drained'
  BY <1>1, <1>2, <1>3, <1>4, <1>5 DEF Locked, Positions, Drained
<1>9. ASSUME leaves' \in Seq(Nat), bot' \in Nat, DOMAIN slot' \subseteq Nat,
             slot' \in [DOMAIN slot' -> SlotType]
      PROVE  TypeOK'
  BY <1>2, <1>4, <1>7, <1>9 DEF TypeOK, SlotType, Threads
<1>10. Grandchildren'
  BY <1>6 DEF Grandchildren, Top
<1>11. CASE size = 1
  <2>1. /\ leaves' \in Seq(Nat) /\ bot' \in Nat
        /\ DOMAIN slot' = {1, 2} /\ slot' \in [{1, 2} -> SlotType]
        /\ slot'[1].inst = None /\ slot'[2].inst = None
        /\ Contents = {Taken}
    BY <1>11, DeleteLastFacts
  <2>2. TypeOK'
    BY <1>9, <2>1
  <2>3. Count' = 0
    BY <1>5, <1>11
  <2>4. LeavesAreFrontier' /\ HeapOrder' /\ OneSlotEach'
    BY <2>3 DEF LeavesAreFrontier, HeapOrder, OneSlotEach
  <2>5. NoneLeft'
    BY <2>1 DEF NoneLeft, Filled, Top
  <2>6. Contents' = Contents \ {Taken}
    <3>1. Contents' = {}
      BY <2>1 DEF Contents, Filled
    <3> QED
      BY <2>1, <3>1
  <2>7. PQ!DeleteMin
    BY <1>2, <1>7, <2>6 DEF PQ!DeleteMin, PQ!Least
  <2> QED
    BY <1>8, <1>10, <2>2, <2>4, <2>5, <2>7
<1>12. CASE size # 1
  <2> DEFINE c == size
             d == c - 1
  <2>1. c \in Nat /\ c >= 2 /\ d \in Nat /\ d >= 1 /\ Count' = d
    BY <1>1, <1>3, <1>5, <1>12
  <2>2. /\ leaves' = Frontier(c - 1) /\ bot' = c - 1
        /\ DOMAIN slot' = 1 .. 2 * c - 1 /\ slot' \in [1 .. 2 * c - 1 -> SlotType]
        /\ slot'[Top] = slot[c] /\ slot'[c].inst = None
        /\ \A k \in 2 .. 2 * c - 1 : k # c => slot'[k] = slot[k]
    BY <2>1, DeleteFacts
  <2>3. TypeOK'
    <3>1. leaves' \in Seq(Nat)
      BY <2>1, <2>2, FrontierIsSeq
    <3> QED
      BY <1>9, <2>1, <2>2, <3>1
  <2>4. \A k \in 2 .. d : slot'[k] = slot[k]
    BY <2>1, <2>2
  <2>5. LeavesAreFrontier'
    <3>1. \A k \in 1 .. 2 * c - 1 : slot'[k].inst # None <=> k <= d
      <4> SUFFICES ASSUME NEW k \in 1 .. 2 * c - 1
                   PROVE  slot'[k].inst # None <=> k <= d
        OBVIOUS
      <4>1. CASE k = Top
        <5>1. slot[c].inst \in Insts
          BY <1>1, <2>1, Starters
        <5> QED
          BY <2>1, <2>2, <4>1, <5>1, NoneAssumption DEF Top
      <4>2. CASE k # Top /\ k # c
        <5>1. slot'[k] = slot[k]
          BY <2>1, <2>2, <4>2 DEF Top
        <5>2. slot[k].inst # None <=> k <= c
          BY <1>1, <2>1 DEF LeavesAreFrontier, Filled
        <5> QED
          BY <2>1, <4>2, <5>1, <5>2
      <4>3. CASE k = c
        BY <2>1, <2>2, <4>3
      <4> QED
        BY <4>1, <4>2, <4>3
    <3>2. 2 * c - 1 = 2 * d + 1
      BY <2>1
    <3>3. DOMAIN slot' = 1 .. 2 * d + 1 /\ bot' = d /\ leaves' = Frontier(d)
      BY <2>2, <3>2
    <3> HIDE DEF d
    <3> QED
      BY <2>1, <2>2, <3>1, <3>2, <3>3 DEF LeavesAreFrontier, Filled, Frontier
  <2>6. HeapOrder'
    <3> SUFFICES ASSUME NEW m \in 2 .. d, Parent(m) # Top
                 PROVE  slot'[Parent(m)].chunkStart <= slot'[m].chunkStart
      BY <1>6, <2>1 DEF HeapOrder
    <3>1. Parent(m) \in 1 .. m - 1
      BY ParentIsAbove
    <3>2. Parent(m) \in 2 .. d /\ m \in 2 .. Count
      BY <1>1, <2>1, <3>1 DEF Top
    <3> QED
      BY <1>1, <2>4, <3>2
  <2>7. /\ \A k \in 1 .. c : slot[k].inst \notin fresh
        /\ \A j, k \in 1 .. c : slot[j].inst = slot[k].inst => j = k
    BY <1>1 DEF OneSlotEach
  <2>8. \A k \in 1 .. d : /\ k = Top => slot'[k] = slot[c]
                          /\ k # Top => slot'[k] = slot[k]
    BY <2>1, <2>2, <2>4 DEF Top
  <2>9. OneSlotEach'
    <3>1. \A k \in 1 .. d : k \in 1 .. c /\ k # c
      BY <2>1
    <3>2. c \in 1 .. c
      BY <2>1
    <3> HIDE DEF c, d
    <3> QED
      BY <1>2, <2>1, <2>7, <2>8, <3>1, <3>2 DEF OneSlotEach
  <2>10. NoneLeft'
    BY <2>1 DEF NoneLeft
  <2>11. Contents' = Contents \ {Taken}
    <3>1. Contents' = Pairs(slot', d)
      <4>1. {k \in DOMAIN slot' : Filled(k)'} = 1 .. d
        BY <2>1, <2>5 DEF LeavesAreFrontier
      <4> QED
        BY <4>1 DEF Contents, Pairs
    <3>2. Pairs(slot', d) = {<<slot[k].chunkStart, slot[k].inst>> : k \in 2 .. c}
      <4>1. ASSUME NEW k \in 1 .. d
            PROVE \E m \in 2 .. c : slot'[k] = slot[m]
        BY <2>1, <2>8 DEF Top
      <4>2. ASSUME NEW m \in 2 .. c
            PROVE \E k \in 1 .. d : slot'[k] = slot[m]
        <5>1. CASE m = c
          BY <2>1, <2>8, <5>1 DEF Top
        <5>2. CASE m # c
          BY <2>1, <2>8, <5>2 DEF Top
        <5> QED
          BY <5>1, <5>2
      <4> HIDE DEF c, d
      <4> QED
        BY <4>1, <4>2 DEF Pairs
    <3>3. 1 .. c = {Top} \cup 2 .. c
      BY <2>1 DEF Top
    <3>4. Contents = {Taken} \cup {<<slot[k].chunkStart, slot[k].inst>> : k \in 2 .. c}
      BY <1>7, <3>3 DEF Pairs, Taken
    <3>5. \A k \in 2 .. c : <<slot[k].chunkStart, slot[k].inst>> # Taken
      BY <2>1, <2>7 DEF Taken, Top
    <3> HIDE DEF c, d
    <3> QED
      BY <3>1, <3>2, <3>4, <3>5
  <2>12. PQ!DeleteMin
    BY <1>2, <1>7, <2>11 DEF PQ!DeleteMin, PQ!Least
  <2> QED
    BY <1>8, <1>10, <2>3, <2>5, <2>6, <2>9, <2>10, <2>12
<1> QED
  BY <1>11, <1>12

\* When no child is to be swapped with the parent, both start no earlier.
LEMMA NoSinkIsOrder ==
  ASSUME TypeOK, LeavesAreFrontier, Count \in Nat, NEW j \in Nat, j >= 1,
         Sinks(j) = {}, NEW n \in 2 .. Count, Parent(n) = j
  PROVE  slot[j].chunkStart <= slot[n].chunkStart
<1>1. j \in 1 .. Count
  <2>1. j \in 1 .. n - 1
    BY ParentIsAbove
  <2> QED
    BY <2>1
<1>2. Filled(j) /\ Filled(n) /\ n \in FilledChildren(j)
  BY <1>1, Children DEF LeavesAreFrontier, FilledChildren
<1>3. \A d \in Candidates(j) : ~ (slot[d].chunkStart < slot[j].chunkStart)
  BY <1>2 DEF Sinks
<1>4. \A m \in 1 .. Count : slot[m].chunkStart \in Nat
  BY Starters
<1>5. CASE n \in Candidates(j)
  BY <1>1, <1>3, <1>4, <1>5
<1>6. CASE n \notin Candidates(j)
  <2>1. PICK d \in FilledChildren(j) \ {n} :
          ~ \/ slot[n].chunkStart < slot[d].chunkStart
            \/ slot[n].chunkStart = slot[d].chunkStart /\ n = Right(j)
    BY <1>2, <1>6 DEF Candidates
  <2>2. d \in {Left(j), Right(j)} /\ n \in {Left(j), Right(j)} /\ Filled(d) /\ d # n
    BY <1>2, <2>1 DEF FilledChildren
  <2>3. d \in 1 .. Count
    <3>1. d \in DOMAIN slot
      BY <1>1, <2>2 DEF LeavesAreFrontier, Left, Right
    <3> QED
      BY <1>1, <2>2, <3>1 DEF LeavesAreFrontier
  <2>4. \A e \in FilledChildren(j) \ {d} : e = n
    BY <2>2 DEF FilledChildren
  <2>5. slot[d].chunkStart <= slot[n].chunkStart
        /\ (slot[d].chunkStart = slot[n].chunkStart => d = Right(j))
    BY <1>4, <2>1, <2>2, <2>3
  <2>6. d \in Candidates(j)
    BY <1>4, <2>1, <2>3, <2>4, <2>5 DEF Candidates
  <2> QED
    BY <1>1, <1>3, <1>4, <2>3, <2>5, <2>6
<1> QED
  BY <1>5, <1>6

LEMMA DeleteEndsInv ==
  ASSUME IInv, DeleteEnds
  PROVE  IInv' /\ Contents' = Contents
<1> USE DEF IInv
<1>1. /\ Count = size - 1 /\ size \in Nat /\ size >= 1
      /\ \A q \in Parsers : pc[q] = "idle"
      /\ \A a, b : Moving(a, b) <=> a = at[Audio]
      /\ at[Audio] \in Nat /\ at[Audio] >= 1
  BY Sinking DEF DeleteEnds, Positions, TypeOK, Threads, Top
<1>2. /\ Sinks(at[Audio]) = {} /\ size' = size - 1 /\ owner' = None
      /\ pc' = [pc EXCEPT ![Audio] = "drain"]
      /\ UNCHANGED <<fresh, bot, leaves, slot, bufEnd, at, ret>>
  BY DEF DeleteEnds
<1>3. /\ pc'[Audio] = "drain" /\ \A q \in Parsers : pc'[q] = "idle"
      /\ pc' \in [Threads -> {"idle", "siftUp", "drain", "siftDown", "play"}]
  BY <1>1, <1>2, ThreadAssumption DEF TypeOK, Threads
<1>4. Count' = Count
  BY <1>1, <1>2, <1>3 DEF Count
<1>5. TypeOK' /\ Locked' /\ Positions'
  BY <1>1, <1>2, <1>3 DEF TypeOK, Locked, Positions
<1>6. LeavesAreFrontier' /\ NoneLeft' /\ Drained' /\ OneSlotEach' /\ Contents' = Contents
  BY <1>1, <1>2, <1>3, <1>4
  DEF LeavesAreFrontier, NoneLeft, Drained, OneSlotEach, Contents, Filled
<1>7. Grandchildren'
  BY <1>1, <1>3 DEF Grandchildren, Sifted
<1>8. HeapOrder'
  <2> SUFFICES ASSUME NEW m \in 2 .. Count
               PROVE  slot[Parent(m)].chunkStart <= slot[m].chunkStart
    BY <1>2, <1>4 DEF HeapOrder
  <2>1. CASE Parent(m) = at[Audio]
    BY <1>1, <1>2, <2>1, NoSinkIsOrder
  <2>2. CASE Parent(m) # at[Audio]
    BY <1>1, <2>2 DEF HeapOrder
  <2> QED
    BY <2>1, <2>2
<1> QED
  BY <1>5, <1>6, <1>7, <1>8

-----------------------------------------------------------------------------
(* The specification.                                                      *)

\* Every step keeps the invariant, and is a step of the priority queue or none.
LEMMA NextInv ==
  ASSUME IInv, [Next]_vars
  PROVE  IInv' /\ [PQ!Next]_(PQ!vars)
<1>1. ASSUME NEW p \in Parsers, NEW i \in Insts, NEW t \in Starts, InsertBegins(p, i, t)
      PROVE  IInv' /\ [PQ!Next]_(PQ!vars)
  BY <1>1, InsertBeginsInv DEF PQ!Next
<1>2. ASSUME IInv' /\ Contents' = Contents, UNCHANGED <<fresh, bufEnd, ret>>
      PROVE  IInv' /\ [PQ!Next]_(PQ!vars)
  BY <1>2 DEF PQ!vars
<1>3. ASSUME NEW p \in Parsers, SiftUp(p)
      PROVE  IInv' /\ [PQ!Next]_(PQ!vars)
  BY <1>2, <1>3, SiftUpInv DEF SiftUp
<1>4. ASSUME NEW p \in Parsers, InsertEnds(p)
      PROVE  IInv' /\ [PQ!Next]_(PQ!vars)
  BY <1>2, <1>4, InsertEndsInv DEF InsertEnds
<1>5. CASE DeleteNone
  BY <1>5, DeleteNoneInv DEF PQ!Next
<1>6. CASE DeleteBegins
  BY <1>6, DeleteBeginsInv DEF PQ!Next
<1>7. CASE SiftDown
  BY <1>2, <1>7, SiftDownInv DEF SiftDown
<1>8. CASE DeleteEnds
  BY <1>2, <1>8, DeleteEndsInv DEF DeleteEnds
<1>9. CASE NextSlice
  BY <1>9, NextSliceInv DEF PQ!Next
<1>10. ASSUME UNCHANGED vars
       PROVE  IInv' /\ [PQ!Next]_(PQ!vars)
  <2>1. Count' = Count /\ Contents' = Contents /\ UNCHANGED <<fresh, bufEnd, ret>>
    BY <1>10 DEF vars, Count, Contents, Filled
  <2>2. TypeOK' /\ Locked' /\ Positions' /\ LeavesAreFrontier'
    BY <1>10, <2>1
    DEF vars, IInv, TypeOK, Locked, Positions, LeavesAreFrontier, Filled
  <2>3. HeapOrder' /\ Grandchildren' /\ OneSlotEach' /\ NoneLeft' /\ Drained'
    BY <1>10, <2>1
    DEF vars, IInv, HeapOrder, Moving, Grandchildren, Sifted, OneSlotEach, NoneLeft,
        Drained, Filled
  <2> QED
    BY <1>2, <2>1, <2>2, <2>3 DEF IInv
<1> QED
  BY <1>1, <1>3, <1>4, <1>5, <1>6, <1>7, <1>8, <1>9, <1>10 DEF Next, Finished

LEMMA Invariant == Spec => []IInv
BY InitInv, NextInv, PTL DEF Spec

\* The heap's fields keep their types: size counts, the queue of leaves and the
\* tree hold slots (heap.h, queue.h).
THEOREM TypeCorrect == Spec => []TypeOK
<1>1. IInv => TypeOK
  BY DEF IInv
<1> QED
  BY <1>1, Invariant, PTL

\* The queue of leaves lists the empty slots in the order they are filled, so that
\* what deleteMin frees from its tail are the children of the slot it empties
\* (heap::insert, heap::deleteMin, queue::popTail).
THEOREM LeavesCorrect == Spec => []LeavesAreFrontier
<1>1. IInv => LeavesAreFrontier
  BY DEF IInv
<1> QED
  BY <1>1, Invariant, PTL

\* But for the one that is being sifted no instrument starts before its parent, in
\* the middle of a sift too (heap::insert, heap::deleteMin).
THEOREM OrderCorrect == Spec => []HeapOrder
<1>1. IInv => HeapOrder
  BY DEF IInv
<1> QED
  BY <1>1, Invariant, PTL

\* The heap is the priority queue that inTraverse takes it for: a linearization,
\* with insert at its first step and deleteMin where it reads the top.
THEOREM HeapIsPriorityQueue == Spec => ImplementsPriorityQueue
BY InitInv, Invariant, NextInv, PTL DEF Spec, ImplementsPriorityQueue, PQ!Spec
=============================================================================
