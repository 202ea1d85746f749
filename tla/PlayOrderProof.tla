--------------------------- MODULE PlayOrderProof ---------------------------
(***************************************************************************)
(* The playlists of bus_config and the walk of inTraverse over them, for   *)
(* any number of buses, names and configurations: nothing is written       *)
(* outside a list, the walk stays in the lists, comes to every queue a     *)
(* note waits in and in a score to none twice, writers before readers.     *)
(*                                                                         *)
(* A list of flat buses is in every state the scan of the buses it holds   *)
(* (Scanned), so that a bus is only ever moved back in it.  What           *)
(* create_play_order has written of the third list and is about to write   *)
(* are the buses without a parent and those its search has met, each once  *)
(* (Ordered); where the search ends it has met every bus that has a parent *)
(* (Closure), for otherwise these would form a loop.  In a graded graph it *)
(* meets the buses level by level (Levelled).                              *)
(***************************************************************************)
EXTENDS BusGraphProof

CallType == [name : Names, slot : Slots \cup {DefaultSlot}]

Contents(list) == {list[n] : n \in Buses} \ {-1}

\* An entry has as many entries before it as the list holds buses below it.
Scanned(list) ==
  \A n \in Buses : list[n] # -1 => Cardinality(Below(Contents(list), list[n])) = n

\* The entries of a list have no gap, and are different.
Solid(list) ==
  \A n \in Buses : list[n] # -1 =>
    \A m \in Buses : m < n => list[m] # -1 /\ list[m] # list[n]

Ordering == parserPc \in {"write", "traverse"}

\* What create_play_order has written, and what it has met and not written.
Written   == {AuxToAuxPlayList[n] : n \in 0 .. auxP - 1}
Unwritten == IF parserPc = "traverse" THEN ToSet(rev) ELSE ToSet(pending)

Ordered ==
  Ordering =>
    /\ auxP <= BusCount /\ Written \subseteq Buses
    /\ \A m, n \in 0 .. auxP - 1 : AuxToAuxPlayList[m] = AuxToAuxPlayList[n] => m = n
    /\ IsInjective(pending) /\ (parserPc = "traverse" => pending = <<>> /\ IsInjective(rev))
    /\ Written \cap Unwritten = {}
    /\ Written \cup Unwritten =
         Parents(BusConfigs) \cup {b \in visited : BusConfigs[b].hasParent}
    /\ parserPc = "write" => todo = <<>>

Flat ==
  /\ Scanned(ToAuxPlayList) /\ Scanned(ToOutPlayList)
  /\ \A b \in Contents(ToAuxPlayList) : BusConfigs[b].auxOutInUse
  /\ \A b \in Contents(ToOutPlayList) : BusConfigs[b].outInUse
  /\ \A b \in Buses : BusConfigs[b].outInUse => b < NCHANS

Typed ==
  /\ TypeOK
  /\ parserPc \in {"default", "check"} => call \in CallType

ListInv ==
  /\ Typed /\ Flat /\ Ordered
  /\ ~Ordering => Solid(AuxToAuxPlayList)

-----------------------------------------------------------------------------
\* What was accepted is in the lists.
Listed(s) ==
  /\ ToSet(s.out) \subseteq Contents(ToOutPlayList)
  /\ ToSet(s.auxout) \subseteq Contents(ToAuxPlayList)

Accepting ==
  /\ accepted # {} \/ parserPc \in {"default", "check"} => configStatus
  /\ \A s \in accepted : Listed(s)
  /\ parserPc = "check" => Listed(call.slot)
  /\ parserPc = "default" => \A c \in 0 .. NCHANS - 1 : BusConfigs[c].outInUse
  /\ started \cup playing \subseteq accepted
  /\ \A n \in Names : Inst_Bus_Config[n] \in accepted \cup {NoSlot}

\* The classes that are played before c.
Earlier(c) == CASE c = "TO_AUX"     -> {}
                [] c = "AUX_TO_AUX" -> {"TO_AUX"}
                [] OTHER            -> {"TO_AUX", "AUX_TO_AUX"}

ListOf(c) == CASE c = "TO_AUX"     -> ToAuxPlayList
               [] c = "AUX_TO_AUX" -> AuxToAuxPlayList
               [] OTHER            -> ToOutPlayList

ScoreIsRead == ~INTERACTIVE /\ (audioPc # "idle" \/ walk # <<>>) => parserPc = "done"

\* The classes are played one after the other.
ByClass ==
  /\ \A n \in DOMAIN walk : walk[n][1] \in Earlier(qStatus) \cup {qStatus}
  /\ \A m, n \in DOMAIN walk : m < n =>
       walk[m][1] \in Earlier(walk[n][1]) \cup {walk[n][1]}

\* In a score the walk goes along the lists.
Along ==
  ~INTERACTIVE =>
    /\ \A n \in DOMAIN walk : walk[n][1] = qStatus /\ audioPc = "walk" =>
         \E k \in Buses : k < playBus /\ ListOf(qStatus)[k] = walk[n][2]
    /\ \A m, n \in DOMAIN walk : m < n /\ walk[m][1] = walk[n][1] =>
         \E j, k \in Buses : j < k /\ ListOf(walk[m][1])[j] = walk[m][2]
                                   /\ ListOf(walk[n][1])[k] = walk[n][2]

WalkInv == ScoreIsRead /\ ByClass /\ Along

\* The walk has come to the queue q if it is past q's entry.
Passed(q) ==
  /\ q[1] \in Earlier(qStatus) \/ audioPc = "send" => q \in ToSet(walk)
  /\ q[1] = qStatus =>
       \A n \in Buses : n < playBus /\ ListOf(qStatus)[n] = q[2] => q \in ToSet(walk)
AllPassed == audioPc # "idle" => \A s \in playing : \A q \in QueuesOf(s) : Passed(q)

-----------------------------------------------------------------------------
In(b) == BusConfigs[b].inConfig

\* The flags of the aux buses say what the accepted edges are.
Flags ==
  \A b \in Buses :
    /\ BusConfigs[b].hasParent <=> \E a \in Buses : <<a, b>> \in Edges(accepted)
    /\ BusConfigs[b].hasChild  <=> \E c \in Buses : <<b, c>> \in Edges(accepted)
    /\ BusConfigs[b].hasParent \/ BusConfigs[b].hasChild => BusConfigs[b].auxInUse

Closure ==
  /\ Ordering =>
       /\ \A t \in visited : \A a \in ToSet(In(t)) :
            In(a) # <<>> => a \in visited \cup ToSet(todo)
       /\ \A t \in Sinks(BusConfigs) :
            In(t) # <<>> => t \in visited \cup ToSet(sinks) \cup ToSet(todo)
  /\ ~Ordering => \A b \in Buses :
       BusConfigs[b].hasParent => b \in Contents(AuxToAuxPlayList)

-----------------------------------------------------------------------------
Level == [Buses -> 0 .. BusCount - 1]
GradedBy(level) == \A e \in Edges(accepted) : level[e[1]] = level[e[2]] + 1

\* The list climbs; and over two levels at most.
Climbs(list, level) ==
  \A m, n \in DOMAIN list : m < n => level[list[m]] <= level[list[n]]
TwoLevels(list, level) ==
  \A m, n \in DOMAIN list : m < n =>
    level[list[m]] <= level[list[n]] /\ level[list[n]] <= level[list[m]] + 1

Levelled(level) ==
  parserPc = "traverse" =>
    /\ Climbs(rev, level) /\ TwoLevels(todo, level)
    /\ \A b \in ToSet(rev), c \in ToSet(todo) : level[b] <= level[c]

\* The writers of a bus that is written come before it.
WritersWritten ==
  \A n \in 0 .. auxP - 1 : \A b \in Buses :
    <<b, AuxToAuxPlayList[n]>> \in Edges(accepted) /\ BusConfigs[b].hasParent =>
      \E m \in 0 .. n - 1 : AuxToAuxPlayList[m] = b
WritersPending ==
  \A n \in DOMAIN pending : \A b \in Buses :
    <<b, pending[n]>> \in Edges(accepted) /\ BusConfigs[b].hasParent =>
      b \in Written \/ \E m \in 1 .. n - 1 : pending[m] = b
WritersMet ==
  \A n \in DOMAIN rev : \A b \in Buses :
    <<b, rev[n]>> \in Edges(accepted) /\ BusConfigs[b].hasParent =>
      b \in Written \cup ToSet(todo) \/ \E m \in n + 1 .. Len(rev) : rev[m] = b
WritersInList ==
  \A n \in Buses : \A b \in Buses :
    /\ AuxToAuxPlayList[n] # -1 /\ BusConfigs[b].hasParent
    /\ <<b, AuxToAuxPlayList[n]>> \in Edges(accepted)
    => \E m \in 0 .. n - 1 : AuxToAuxPlayList[m] = b

ReversedBy(level) ==
  /\ Levelled(level)
  /\ Ordering => WritersWritten
  /\ parserPc = "write" => WritersPending
  /\ parserPc = "traverse" => WritersMet
  /\ ~Ordering => WritersInList
Reversed == \A level \in Level : GradedBy(level) => ReversedBy(level)

-----------------------------------------------------------------------------
(* Scans.                                                                  *)

LEMMA BusesFinite ==
  /\ BusCount \in Nat /\ BusCount >= 1 /\ Buses \subseteq Nat
  /\ -1 \notin Buses
  /\ IsFiniteSet(Buses) /\ Cardinality(Buses) = BusCount
<1>1. BusCount \in Nat /\ BusCount >= 1
  BY BusCountAssumption
<1>2. IsFiniteSet(0 .. BusCount - 1) /\ Cardinality(0 .. BusCount - 1) = BusCount
  BY <1>1, FS_Interval
<1> QED
  BY <1>1, <1>2 DEF Buses

LEMMA SubsetCounts ==
  ASSUME NEW S, S \subseteq Buses
  PROVE  /\ IsFiniteSet(S) /\ Cardinality(S) \in Nat /\ Cardinality(S) <= BusCount
         /\ S = {} <=> Cardinality(S) = 0
BY BusesFinite, FS_Subset, FS_CardinalityType, FS_EmptySet

\* Ranks are different.
LEMMA RanksDiffer ==
  ASSUME NEW S, S \subseteq Buses, NEW b \in S, NEW c \in S, b < c
  PROVE  Cardinality(Below(S, b)) < Cardinality(Below(S, c))
<1>1. b \in Nat /\ c \in Nat /\ S \subseteq Nat
  BY BusesFinite
<1>2. b \in Below(S, c) /\ b \notin Below(S, b)
  BY <1>1 DEF Below
<1>3. Below(S, b) \subseteq Below(S, c)
  <2> SUFFICES ASSUME NEW d \in Below(S, b) PROVE d \in Below(S, c)
    OBVIOUS
  <2>1. d \in S /\ d < b /\ d \in Nat
    BY <1>1 DEF Below
  <2>2. d < c
    BY <1>1, <2>1
  <2> QED
    BY <2>1, <2>2 DEF Below
<1>4. Below(S, c) \subseteq Buses
  BY DEF Below
<1>5. IsFiniteSet(Below(S, c)) /\ Cardinality(Below(S, c)) \in Nat
  BY <1>4, SubsetCounts
<1>6. /\ IsFiniteSet(Below(S, b)) /\ Cardinality(Below(S, b)) <= Cardinality(Below(S, c))
      /\ Cardinality(Below(S, b)) # Cardinality(Below(S, c))
  BY <1>2, <1>3, <1>5, FS_Subset
<1>7. Cardinality(Below(S, b)) \in Nat
  BY <1>6, FS_CardinalityType
<1> QED
  BY <1>5, <1>6, <1>7

LEMMA RanksInjective ==
  ASSUME NEW S, S \subseteq Buses, NEW b \in S, NEW c \in S,
         Cardinality(Below(S, b)) = Cardinality(Below(S, c))
  PROVE  b = c
<1>1. b \in Nat /\ c \in Nat
  BY BusesFinite
<1>2. Cardinality(Below(S, b)) \in Nat
  <2>1. Below(S, b) \subseteq Buses
    BY DEF Below
  <2> QED
    BY <2>1, SubsetCounts
<1>3. ~(b < c) /\ ~(c < b)
  BY <1>2, RanksDiffer
<1> QED
  BY <1>1, <1>3

\* Every place in the scan is taken: there are as many ranks as buses.
LEMMA RanksOnto ==
  ASSUME NEW S, S \subseteq Buses
  PROVE  /\ \A b \in S : Cardinality(Below(S, b)) \in 0 .. Cardinality(S) - 1
         /\ \A m \in 0 .. Cardinality(S) - 1 : \E b \in S : Cardinality(Below(S, b)) = m
<1> DEFINE N == Cardinality(S)
           T == 0 .. N - 1
           r == [b \in S |-> Cardinality(Below(S, b))]
<1>1. IsFiniteSet(S) /\ N \in Nat
  BY SubsetCounts
<1>2. ASSUME NEW b \in S PROVE Cardinality(Below(S, b)) \in T
  <2>1. Below(S, b) \subseteq S \ {b}
    BY BusesFinite DEF Below
  <2>2. IsFiniteSet(S \ {b}) /\ Cardinality(S \ {b}) = N - 1
    BY <1>1, FS_RemoveElement
  <2>3. IsFiniteSet(Below(S, b)) /\ Cardinality(Below(S, b)) <= N - 1
    BY <2>1, <2>2, FS_Subset
  <2>4. Cardinality(Below(S, b)) \in Nat
    BY <2>3, FS_CardinalityType
  <2> QED
    BY <1>1, <2>3, <2>4
<1>3. IsFiniteSet(T) /\ Cardinality(T) = N
  BY <1>1, FS_Interval
<1>4. r \in Injection(S, T)
  <2>1. r \in [S -> T]
    BY <1>2
  <2>2. IsInjective(r)
    BY RanksInjective DEF IsInjective
  <2> QED
    BY <2>1, <2>2 DEF Injection
<1>5. r \in Surjection(S, T)
  <2> HIDE DEF r, T
  <2> QED
    BY <1>3, <1>4, FS_Injection
<1>6. \A m \in T : \E b \in S : r[b] = m
  BY <1>5 DEF Surjection
<1> QED
  BY <1>2, <1>6

LEMMA AscendingFacts ==
  ASSUME NEW S, S \subseteq Buses
  PROVE  /\ Ascending(S) \in Seq(Buses) /\ Len(Ascending(S)) = Cardinality(S)
         /\ ToSet(Ascending(S)) = S
         /\ \A n \in 1 .. Cardinality(S) :
              Ascending(S)[n] \in S /\ Cardinality(Below(S, Ascending(S)[n])) = n - 1
         /\ IsInjective(Ascending(S))
<1> DEFINE N == Cardinality(S)
           a == Ascending(S)
<1>1. N \in Nat
  BY SubsetCounts
<1>2. a = [n \in 1 .. N |-> CHOOSE b \in S : Cardinality(Below(S, b)) = n - 1]
  BY DEF Ascending
<1>3. ASSUME NEW n \in 1 .. N PROVE a[n] \in S /\ Cardinality(Below(S, a[n])) = n - 1
  <2>1. n - 1 \in 0 .. N - 1
    BY <1>1
  <2>2. \E b \in S : Cardinality(Below(S, b)) = n - 1
    BY <2>1, RanksOnto
  <2>3. a[n] = CHOOSE b \in S : Cardinality(Below(S, b)) = n - 1
    BY <1>2
  <2> QED
    BY <2>2, <2>3
<1>4. a \in [1 .. N -> Buses]
  <2> HIDE DEF a
  <2> QED
    BY <1>2, <1>3
<1>5. a \in Seq(Buses) /\ Len(a) = N /\ DOMAIN a = 1 .. N
  <2> HIDE DEF a
  <2> QED
    BY <1>1, <1>4
<1>6. ToSet(a) = S
  <2>1. ToSet(a) \subseteq S
    BY <1>3, <1>5 DEF ToSet
  <2>2. ASSUME NEW b \in S PROVE b \in ToSet(a)
    <3> DEFINE m == Cardinality(Below(S, b))
    <3>1. m \in 0 .. N - 1
      BY RanksOnto
    <3>0. Cardinality(Below(S, b)) = m
      OBVIOUS
    <3> HIDE DEF m, a
    <3>2. PICK k \in 1 .. N : k - 1 = m
      BY <1>1, <3>1
    <3>3. a[k] \in S /\ Cardinality(Below(S, a[k])) = m
      BY <1>3, <3>2
    <3>4. a[k] = b
      BY <3>0, <3>3, RanksInjective
    <3> QED
      BY <1>5, <3>2, <3>4 DEF ToSet
  <2> QED
    BY <2>1, <2>2
<1>7. IsInjective(a)
  <2>1. ASSUME NEW m \in 1 .. N, NEW n \in 1 .. N, a[m] = a[n] PROVE m = n
    <3>1. m - 1 = n - 1
      BY <1>3, <2>1
    <3> QED
      BY <1>1, <3>1
  <2> HIDE DEF a
  <2> QED
    BY <1>5, <2>1 DEF IsInjective
<1> QED
  BY <1>3, <1>5, <1>6, <1>7

LEMMA PlaylistFacts ==
  ASSUME NEW S, S \subseteq Buses
  PROVE  LET list == Playlist(Ascending(S))
         IN /\ list \in PlaylistType /\ Contents(list) = S /\ Scanned(list)
            /\ \A n \in Buses : n >= Cardinality(S) => list[n] = -1
<1> DEFINE N == Cardinality(S)
           a == Ascending(S)
           list == Playlist(a)
<1>1. N \in Nat /\ N <= BusCount /\ BusCount \in Nat /\ Buses = 0 .. BusCount - 1
  BY SubsetCounts, BusesFinite DEF Buses
<1>2. /\ Len(a) = N
      /\ \A n \in 1 .. N : a[n] \in S /\ Cardinality(Below(S, a[n])) = n - 1
  BY AscendingFacts
<1>3. ASSUME NEW n \in Buses
      PROVE  /\ n < N => /\ list[n] \in S /\ list[n] # -1
                         /\ Cardinality(Below(S, list[n])) = n
             /\ n >= N => list[n] = -1
  <2>1. n \in Nat
    BY <1>1
  <2>2. CASE n < N
    <3>0. n + 1 \in 1 .. N /\ list[n] = a[n + 1]
      BY <1>1, <1>2, <2>1, <2>2 DEF Playlist
    <3> HIDE DEF list, a
    <3>1. PICK k \in 1 .. N : k - 1 = n /\ list[n] = a[k]
      BY <1>1, <2>1, <3>0
    <3>2. list[n] \in S /\ Cardinality(Below(S, list[n])) = n
      BY <1>2, <3>1
    <3> QED
      BY <1>1, <2>1, <2>2, <3>2, BusesFinite
  <2>3. CASE n >= N
    <3>1. ~(n < Len(a))
      BY <1>1, <1>2, <2>1, <2>3
    <3>2. list[n] = -1
      BY <3>1 DEF Playlist
    <3> QED
      BY <1>1, <2>1, <2>3, <3>2
  <2> QED
    BY <1>1, <2>1, <2>2, <2>3
<1>4. DOMAIN list = Buses /\ list = [n \in Buses |-> list[n]]
  BY DEF Playlist
<1> HIDE DEF list, a
<1>5. list \in PlaylistType
  <2>1. ASSUME NEW n \in Buses PROVE list[n] \in Buses \cup {-1}
    <3>1. n < N \/ n >= N
      BY <1>1
    <3> QED
      BY <1>3, <3>1
  <2> QED
    BY <1>4, <2>1 DEF PlaylistType
<1>6. Contents(list) = S
  <2>1. Contents(list) \subseteq S
    BY <1>1, <1>3 DEF Contents
  <2>2. ASSUME NEW b \in S PROVE b \in Contents(list)
    <3> DEFINE m == Cardinality(Below(S, b))
    <3>1. m \in 0 .. N - 1
      BY RanksOnto
    <3>2. m \in Buses /\ m < N
      BY <1>1, <3>1
    <3>3. list[m] \in S /\ list[m] # -1 /\ Cardinality(Below(S, list[m])) = m
      BY <1>3, <3>2
    <3>4. list[m] = b
      BY <3>3, RanksInjective
    <3> QED
      BY <3>2, <3>3, <3>4 DEF Contents
  <2> QED
    BY <2>1, <2>2
<1>7. Scanned(list)
  BY <1>1, <1>3, <1>6 DEF Scanned
<1> QED
  BY <1>1, <1>3, <1>5, <1>6, <1>7 DEF list, a

LEMMA ScannedSolid ==
  ASSUME NEW list \in PlaylistType, Scanned(list)
  PROVE  Solid(list)
<1> DEFINE S == Contents(list)
<1>1. S \subseteq Buses /\ Buses \subseteq Nat
  BY BusesFinite DEF Contents, PlaylistType
<1>2. SUFFICES ASSUME NEW n \in Buses, list[n] # -1, NEW m \in Buses, m < n
               PROVE  list[m] # -1 /\ list[m] # list[n]
  BY DEF Solid
<1>3. list[n] \in S /\ Cardinality(Below(S, list[n])) = n
  BY <1>2 DEF Contents, Scanned
<1>4. n \in 0 .. Cardinality(S) - 1
  BY <1>1, <1>3, RanksOnto
<1>5. m \in 0 .. Cardinality(S) - 1
  BY <1>1, <1>2, <1>4, SubsetCounts
<1>6. PICK b \in S : Cardinality(Below(S, b)) = m
  BY <1>1, <1>5, RanksOnto
<1>7. PICK k \in Buses : list[k] = b /\ b # -1
  BY DEF Contents
<1>8. k = m
  BY <1>6, <1>7 DEF Scanned
<1>9. m # n
  BY <1>1, <1>2
<1> QED
  BY <1>3, <1>6, <1>7, <1>8, <1>9

\* The default configuration is written over a list of outputs.
LEMMA DefaultList ==
  ASSUME NEW list \in PlaylistType, Scanned(list), Contents(list) \subseteq 0 .. NCHANS - 1,
         NEW new, new = [b \in Buses |-> IF b < NCHANS THEN b ELSE list[b]]
  PROVE  new \in PlaylistType /\ Contents(new) = 0 .. NCHANS - 1 /\ Scanned(new)
<1> DEFINE S == 0 .. NCHANS - 1
           C == Contents(list)
<1>1. /\ NCHANS \in Nat /\ NCHANS <= BusCount /\ BusCount \in Nat
      /\ Buses = 0 .. BusCount - 1 /\ S \subseteq Buses
  BY BusCountAssumption DEF Buses
<1>2. ASSUME NEW n \in Buses, ~(n < NCHANS) PROVE new[n] = -1
  <2>1. new[n] = list[n]
    BY <1>2
  <2>2. SUFFICES ASSUME list[n] # -1 PROVE FALSE
    BY <2>1
  <2>3. list[n] \in C /\ Cardinality(Below(C, list[n])) = n
    BY <2>2 DEF Contents, Scanned
  <2>4. C \subseteq Buses /\ IsFiniteSet(S) /\ Cardinality(S) = NCHANS
    BY <1>1, FS_Interval
  <2>5. Cardinality(C) \in Nat /\ Cardinality(C) <= NCHANS
    <3> HIDE DEF S, C
    <3>1. C \in SUBSET S
      BY DEF S, C
    <3> QED
      BY <2>4, <3>1, FS_Subset, SubsetCounts
  <2>6. n \in 0 .. Cardinality(C) - 1
    BY <2>3, <2>4, RanksOnto
  <2> QED
    BY <1>1, <1>2, <2>5, <2>6
<1>3. ASSUME NEW n \in Buses, n < NCHANS
      PROVE  new[n] = n /\ n \in S /\ n # -1 /\ Cardinality(Below(S, n)) = n
  <2>1. n \in Nat /\ n \in S
    BY <1>1, <1>3
  <2>2. Below(S, n) = 0 .. n - 1
    BY <1>1, <1>3, <2>1 DEF Below
  <2>3. Cardinality(0 .. n - 1) = n
    BY <2>1, FS_Interval
  <2> QED
    BY <1>3, <2>1, <2>2, <2>3
<1>4. new \in PlaylistType
  <2>1. \A n \in Buses : new[n] \in Buses \cup {-1}
    BY <1>2, <1>3
  <2> QED
    BY <2>1 DEF PlaylistType
<1>5. Contents(new) = S
  <2>1. Contents(new) \subseteq S
    BY <1>2, <1>3 DEF Contents
  <2>2. ASSUME NEW b \in S PROVE b \in Contents(new)
    <3>1. b \in Buses /\ b < NCHANS
      BY <1>1
    <3> QED
      BY <1>3, <3>1 DEF Contents
  <2> QED
    BY <2>1, <2>2
<1>6. Scanned(new)
  BY <1>2, <1>3, <1>5 DEF Scanned
<1> QED
  BY <1>4, <1>5, <1>6

LEMMA EmptyList ==
  /\ Playlist(<<>>) \in PlaylistType /\ Contents(Playlist(<<>>)) = {}
  /\ Scanned(Playlist(<<>>)) /\ Solid(Playlist(<<>>))
  /\ \A n \in Buses : Playlist(<<>>)[n] = -1
<1>1. \A n \in Buses : Playlist(<<>>)[n] = -1
  BY BusesFinite DEF Playlist
<1>2. Playlist(<<>>) = [n \in Buses |-> -1]
  BY <1>1 DEF Playlist
<1> QED
  BY <1>1, <1>2 DEF PlaylistType, Contents, Scanned, Solid

LEMMA SlotOuts ==
  ASSUME NEW s \in Slots \cup {DefaultSlot}
  PROVE  /\ s.out \in Seq(Buses) /\ ToSet(s.out) \subseteq 0 .. NCHANS - 1
         /\ 0 .. NCHANS - 1 \subseteq Buses
<1>1. /\ NCHANS \in Nat /\ NCHANS <= BusCount /\ BusCount \in Nat
      /\ Buses = 0 .. BusCount - 1 /\ 0 .. NCHANS - 1 \subseteq Buses
  BY BusCountAssumption DEF Buses
<1>2. CASE s \in Slots
  BY <1>1, <1>2, SlotAssumption
<1>3. CASE s = DefaultSlot
  <2>1. s.out = [c \in 1 .. NCHANS |-> c - 1]
    BY <1>3 DEF DefaultSlot
  <2>2. \A c \in 1 .. NCHANS : c - 1 \in 0 .. NCHANS - 1
    BY <1>1
  <2> QED
    BY <1>1, <2>1, <2>2 DEF ToSet
<1> QED
  BY <1>1, <1>2, <1>3

LEMMA DefaultOuts == ToSet(DefaultSlot.out) = 0 .. NCHANS - 1
<1>1. NCHANS \in Nat /\ DefaultSlot.out = [c \in 1 .. NCHANS |-> c - 1]
  BY BusCountAssumption DEF DefaultSlot
<1>2. ASSUME NEW b \in 0 .. NCHANS - 1 PROVE b + 1 \in 1 .. NCHANS /\ b + 1 - 1 = b
  BY <1>1
<1>3. ASSUME NEW c \in 1 .. NCHANS PROVE c - 1 \in 0 .. NCHANS - 1
  BY <1>1
<1> QED
  BY <1>1, <1>2, <1>3 DEF ToSet

LEMMA FlaggedFlags ==
  ASSUME NEW configs \in [Buses -> BusConfigType], NEW s, NEW b \in Buses,
         NEW c, c = Flagged(configs, s)[b]
  PROVE  /\ c.outInUse <=> configs[b].outInUse \/ b \in ToSet(s.out)
         /\ c.auxOutInUse <=> configs[b].auxOutInUse \/ b \in ToSet(s.auxout)
         /\ c.inConfig = configs[b].inConfig
         /\ c.hasParent <=> configs[b].hasParent
         /\ c.hasChild <=> configs[b].hasChild
         /\ c.auxInUse <=> configs[b].auxInUse
<1> DEFINE o == configs[b].outInUse \/ b \in ToSet(s.out)
           a == configs[b].auxOutInUse \/ b \in ToSet(s.auxout)
<1>1. c = [configs[b] EXCEPT !.outInUse = o, !.auxOutInUse = a]
  BY DEF Flagged, BusConfigType
<1>2. configs[b] \in BusConfigType /\ o \in BOOLEAN /\ a \in BOOLEAN
  BY DEF BusConfigType
<1> HIDE DEF o, a
<1>3. /\ c.outInUse = o /\ c.auxOutInUse = a /\ c.inConfig = configs[b].inConfig
      /\ c.hasParent = configs[b].hasParent /\ c.hasChild = configs[b].hasChild
      /\ c.auxInUse = configs[b].auxInUse
  BY <1>1, <1>2 DEF BusConfigType
<1> QED
  BY <1>3 DEF o, a

LEMMA ConnectedFlags ==
  ASSUME NEW configs \in [Buses -> BusConfigType], NEW s, NEW b \in Buses,
         NEW c, c = Connected(configs, s)[b]
  PROVE  /\ c.outInUse <=> configs[b].outInUse
         /\ c.auxOutInUse <=> configs[b].auxOutInUse
         /\ c.hasParent <=> configs[b].hasParent \/ (b \in ToSet(s.auxout) /\ s.auxin # <<>>)
         /\ c.hasChild <=> configs[b].hasChild \/ (b \in ToSet(s.auxin) /\ s.auxout # <<>>)
         /\ c.auxInUse <=> \/ configs[b].auxInUse \/ b \in ToSet(s.auxout)
                           \/ b \in ToSet(s.auxin) /\ s.auxout # <<>>
<1> DEFINE into == b \in ToSet(s.auxout)
           from == b \in ToSet(s.auxin) /\ s.auxout # <<>>
           u == configs[b].auxInUse \/ into \/ from
           p == configs[b].hasParent \/ (into /\ s.auxin # <<>>)
           h == configs[b].hasChild \/ from
           i == IF into THEN Appended(configs[b].inConfig, s.auxin) ELSE configs[b].inConfig
<1>1. c = [configs[b] EXCEPT !.auxInUse = u, !.hasParent = p, !.hasChild = h,
                             !.inConfig = i]
  BY DEF Connected, BusConfigType
<1>2. configs[b] \in BusConfigType
  OBVIOUS
<1> HIDE DEF into, from, u, p, h, i
<1>3. /\ c.outInUse = configs[b].outInUse /\ c.auxOutInUse = configs[b].auxOutInUse
      /\ c.hasParent = p /\ c.hasChild = h /\ c.auxInUse = u
  BY <1>1, <1>2 DEF BusConfigType
<1> QED
  BY <1>3 DEF into, from, u, p, h

-----------------------------------------------------------------------------
(* The lists.                                                              *)

\* The third list has room for a bus that it does not hold.
LEMMA Room ==
  ASSUME NEW S, S \subseteq Buses, auxP \in Nat, Written \subseteq S,
         NEW b \in S, b \notin Written,
         \A m, n \in 0 .. auxP - 1 : AuxToAuxPlayList[m] = AuxToAuxPlayList[n] => m = n
  PROVE  auxP < Cardinality(S)
<1> DEFINE D == 0 .. auxP
           f == [n \in D |-> IF n < auxP THEN AuxToAuxPlayList[n] ELSE b]
<1>1. ASSUME NEW n \in D
      PROVE  /\ f[n] \in S
             /\ n < auxP => n \in 0 .. auxP - 1 /\ f[n] = AuxToAuxPlayList[n] /\ f[n] \in Written
             /\ ~(n < auxP) => f[n] = b /\ n = auxP
  BY DEF Written
<1>2. ASSUME NEW m \in D, NEW n \in D, f[m] = f[n] PROVE m = n
  <2> HIDE DEF f, D
  <2> QED
    BY <1>1, <1>2
<1>3. f \in Injection(D, S)
  <2>1. f \in [D -> S]
    BY <1>1
  <2> HIDE DEF f
  <2>2. IsInjective(f)
    BY <1>2, <2>1 DEF IsInjective
  <2> QED
    BY <2>1, <2>2 DEF Injection
<1>4. IsFiniteSet(S) /\ Cardinality(S) \in Nat
  BY SubsetCounts
<1>5. Cardinality(D) = auxP + 1
  BY FS_Interval
<1>6. Cardinality(D) <= Cardinality(S)
  <2> HIDE DEF f, D
  <2> QED
    BY <1>3, <1>4, FS_Injection
<1> HIDE DEF D
<1> QED
  BY <1>4, <1>5, <1>6

LEMMA ReverseFacts ==
  ASSUME NEW q \in Seq(Buses), NEW r, r = Reverse(q)
  PROVE  /\ r \in Seq(Buses) /\ Len(r) = Len(q) /\ ToSet(r) = ToSet(q)
         /\ \A n \in 1 .. Len(q) : Len(q) - n + 1 \in 1 .. Len(q) /\ r[n] = q[Len(q) - n + 1]
         /\ IsInjective(q) => IsInjective(r)
<1> DEFINE N == Len(q)
<1>1. N \in Nat /\ DOMAIN q = 1 .. N /\ \A n \in 1 .. N : q[n] \in Buses
  OBVIOUS
<1>2. r = [n \in 1 .. N |-> q[(N - n) + 1]]
  BY DEF Reverse
<1>3. \A n \in 1 .. N : N - n + 1 \in 1 .. N /\ r[n] = q[N - n + 1]
  BY <1>1, <1>2
<1>4. r \in [1 .. N -> Buses]
  BY <1>1, <1>2, <1>3
<1>5. r \in Seq(Buses) /\ Len(r) = N /\ DOMAIN r = 1 .. N
  BY <1>1, <1>4
<1>6. ToSet(r) = ToSet(q)
  <2>1. \A n \in 1 .. N : r[n] \in ToSet(q)
    BY <1>1, <1>3 DEF ToSet
  <2>2. ASSUME NEW n \in 1 .. N PROVE q[n] \in ToSet(r)
    <3>1. N - n + 1 \in 1 .. N /\ N - (N - n + 1) + 1 = n
      BY <1>1
    <3>2. r[N - n + 1] = q[n]
      BY <1>3, <3>1
    <3> QED
      BY <1>5, <3>1, <3>2 DEF ToSet
  <2> QED
    BY <1>1, <1>5, <2>1, <2>2 DEF ToSet
<1>7. ASSUME IsInjective(q), NEW m \in 1 .. N, NEW n \in 1 .. N, r[m] = r[n] PROVE m = n
  <2>1. N - m + 1 = N - n + 1
    BY <1>1, <1>3, <1>7 DEF IsInjective
  <2> QED
    BY <1>1, <2>1
<1>8. IsInjective(q) => IsInjective(r)
  BY <1>5, <1>7 DEF IsInjective
<1> QED
  BY <1>3, <1>5, <1>6, <1>8

\* The flat lists depend on their entries and their buses' flags only.
LEMMA FlatKept ==
  ASSUME Flat, UNCHANGED <<ToAuxPlayList, ToOutPlayList>>,
         \A b \in Buses :
           /\ BusConfigs[b].auxOutInUse => BusConfigs'[b].auxOutInUse
           /\ BusConfigs[b].outInUse => BusConfigs'[b].outInUse
           /\ BusConfigs'[b].outInUse => BusConfigs[b].outInUse \/ b < NCHANS,
         ToAuxPlayList \in PlaylistType, ToOutPlayList \in PlaylistType
  PROVE  Flat'
<1>1. Contents(ToAuxPlayList) \subseteq Buses /\ Contents(ToOutPlayList) \subseteq Buses
  BY DEF Contents, PlaylistType
<1>2. /\ Contents(ToAuxPlayList)' = Contents(ToAuxPlayList)
      /\ Contents(ToOutPlayList)' = Contents(ToOutPlayList)
  BY DEF Contents
<1>3. Scanned(ToAuxPlayList)' /\ Scanned(ToOutPlayList)'
  BY <1>2 DEF Flat, Scanned
<1> QED
  BY <1>1, <1>2, <1>3 DEF Flat

LEMMA FlatSame ==
  ASSUME Flat, UNCHANGED <<BusConfigs, ToAuxPlayList, ToOutPlayList>>
  PROVE  Flat'
<1>1. /\ Contents(ToAuxPlayList)' = Contents(ToAuxPlayList)
      /\ Contents(ToOutPlayList)' = Contents(ToOutPlayList)
  BY DEF Contents
<1> QED
  BY <1>1 DEF Flat, Scanned

\* The audio thread and the notes.
LEMMA AudioLists ==
  ASSUME ListInv, UNCHANGED INTERACTIVE, AudioStep
  PROVE  ListInv'
<1> USE DEF ListInv, Typed
<1>1. UNCHANGED <<BusConfigs, Inst_Bus_Config, configStatus, ToAuxPlayList, AuxToAuxPlayList,
                  ToOutPlayList, parserPc, call, default, visited, todo, rev, pending, sinks,
                  auxP, calls, accepted, refused>>
  BY DEF AudioStep, BeginSlice, PlayBus, NextClass, EndSlice, graph, playlists, locals,
         history, notes
<1>2. /\ started' \cup playing' \subseteq started \cup playing
      /\ audioPc' \in {"idle", "walk", "send"} /\ qStatus' \in Classes
      /\ playBus' \in 0 .. BusCount
  <2>1. BusCount \in Nat
    BY BusesFinite
  <2>2. CASE BeginSlice
    BY <2>1, <2>2 DEF BeginSlice, TypeOK, Classes
  <2>3. CASE PlayBus
    BY <2>1, <2>3 DEF PlayBus, TypeOK, notes
  <2>4. CASE NextClass
    BY <2>1, <2>4 DEF NextClass, TypeOK, notes, Classes
  <2>5. CASE EndSlice
    BY <2>1, <2>5 DEF EndSlice, TypeOK, notes
  <2> QED
    BY <2>2, <2>3, <2>4, <2>5 DEF AudioStep
<1>3. walk' \in Seq(Classes \X Buses)
  <2>0. walk \in Seq(Classes \X Buses)
    BY DEF TypeOK
  <2>1. CASE PlayBus
    <3>1. playBus \in Buses /\ CurrentList[playBus] # -1 /\ qStatus \in Classes
      BY <2>1, BusesFinite DEF PlayBus, TypeOK, Buses
    <3>2. CurrentList \in PlaylistType
      BY DEF CurrentList, TypeOK
    <3>3. CurrentList[playBus] \in Buses
      BY <3>1, <3>2 DEF PlaylistType
    <3>4. <<qStatus, CurrentList[playBus]>> \in Classes \X Buses
      BY <3>1, <3>3
    <3> DEFINE T == Classes \X Buses
               e == <<qStatus, CurrentList[playBus]>>
    <3>5. walk' = Append(walk, e) /\ e \in T /\ walk \in Seq(T)
      BY <2>0, <2>1, <3>4 DEF PlayBus
    <3> HIDE DEF T, e
    <3>6. walk' \in Seq(T)
      BY <3>5
    <3> QED
      BY <3>6 DEF T
  <2>2. CASE BeginSlice \/ NextClass \/ EndSlice
    <3>1. walk' = walk \/ walk' = <<>>
      BY <2>2 DEF BeginSlice, NextClass, EndSlice
    <3> DEFINE T == Classes \X Buses
    <3>2. walk \in Seq(T)
      BY <2>0
    <3> HIDE DEF T
    <3>3. <<>> \in Seq(T)
      OBVIOUS
    <3>4. walk' \in Seq(T)
      BY <3>1, <3>2, <3>3, Zenon
    <3> QED
      BY <3>4 DEF T
  <2> QED
    BY <2>1, <2>2 DEF AudioStep
<1>4. TypeOK'
  BY <1>1, <1>2, <1>3 DEF TypeOK
<1>5. Flat'
  BY <1>1, FlatSame
<1>6. Ordered'
  BY <1>1 DEF Ordered, Ordering, Written, Unwritten
<1>7. ~Ordering' => Solid(AuxToAuxPlayList)'
  BY <1>1 DEF Ordering, Solid
<1> QED
  BY <1>1, <1>4, <1>5, <1>6, <1>7

LEMMA InitLists == Init => ListInv
<1> SUFFICES ASSUME Init PROVE ListInv
  OBVIOUS
<1>1. /\ INTERACTIVE \in BOOLEAN /\ MaxCalls[INTERACTIVE] \in Nat
      /\ BusCount \in Nat /\ BusCount >= 1
  BY ModeAssumption, CallsAssumption, BusesFinite DEF Init
<1>2. /\ NoBus \in BusConfigType /\ NoBus.inConfig = <<>> /\ ~NoBus.outInUse
      /\ \A b \in Buses : BusConfigs[b] = NoBus
  BY DEF NoBus, BusConfigType, Init
<1>3. /\ ToAuxPlayList = Playlist(<<>>) /\ AuxToAuxPlayList = Playlist(<<>>)
      /\ ToOutPlayList = Playlist(<<>>) /\ parserPc = "idle"
  BY DEF Init
<1>4. TypeOK
  <2>1. /\ BusConfigs \in [Buses -> BusConfigType]
        /\ \A b \in Buses : Len(BusConfigs[b].inConfig) < BusCount
    BY <1>1, <1>2 DEF Init
  <2>2. {ToAuxPlayList, AuxToAuxPlayList, ToOutPlayList} \subseteq PlaylistType
    BY <1>3, EmptyList
  <2>3. /\ Inst_Bus_Config \in [Names -> Slots \cup {NoSlot, DefaultSlot}]
        /\ {configStatus, default} \subseteq BOOLEAN
        /\ parserPc \in {"idle", "default", "check", "write", "traverse", "done", "failed"}
        /\ call = <<>> /\ visited \subseteq Buses
    BY DEF Init
  <2>6. \A list \in {todo, rev, pending, sinks} : list \in Seq(Buses)
    <3>1. <<>> \in Seq(Buses)
      OBVIOUS
    <3> QED
      BY <3>1 DEF Init
  <2>4. /\ auxP \in 0 .. BusCount /\ calls \in 0 .. MaxCalls[INTERACTIVE]
        /\ started \cup playing \cup accepted \subseteq Slots \cup {DefaultSlot}
        /\ audioPc \in {"idle", "walk", "send"}
        /\ qStatus \in Classes /\ playBus \in 0 .. BusCount
        /\ refused \in Slots \cup {NoSlot}
    BY <1>1 DEF Init, Classes
  <2>5. walk \in Seq(Classes \X Buses)
    <3> DEFINE T == Classes \X Buses
    <3> HIDE DEF T
    <3>1. walk \in Seq(T)
      BY DEF Init
    <3> QED
      BY <3>1 DEF T
  <2> QED
    BY <1>1, <2>1, <2>2, <2>3, <2>4, <2>5, <2>6 DEF TypeOK
<1>5. Flat
  BY <1>2, <1>3, EmptyList DEF Flat
<1> QED
  BY <1>3, <1>4, <1>5, EmptyList DEF ListInv, Typed, Ordered, Ordering

LEMMA NoteLists ==
  ASSUME ListInv, UNCHANGED INTERACTIVE, (\E n \in Names : StartNote(n)) \/ ScoreEnds
  PROVE  ListInv'
<1> USE DEF ListInv, Typed
<1>1. /\ UNCHANGED <<BusConfigs, Inst_Bus_Config, configStatus, ToAuxPlayList,
                     AuxToAuxPlayList, ToOutPlayList, call, default, visited, todo, rev,
                     pending, sinks, auxP, calls, playing, audioPc, qStatus, playBus, walk,
                     accepted, refused>>
      /\ parserPc = "idle" /\ parserPc' \in {"idle", "done"}
  BY DEF StartNote, ScoreEnds, graph, playlists, locals, history, notes, audio
<1>2. started' \subseteq Slots \cup {DefaultSlot}
  <2>1. CASE ScoreEnds
    BY <2>1 DEF ScoreEnds, notes, TypeOK
  <2>2. CASE \E n \in Names : StartNote(n)
    BY <2>2 DEF StartNote, TypeOK
  <2> QED
    BY <2>1, <2>2
<1>3. TypeOK'
  BY <1>1, <1>2 DEF TypeOK
<1>4. Flat'
  BY <1>1, FlatSame
<1>5. Ordered' /\ Solid(AuxToAuxPlayList)'
  BY <1>1 DEF Ordered, Ordering, Solid
<1> QED
  BY <1>1, <1>3, <1>4, <1>5

\* The flat lists are rewritten from the flags.
LEMMA BeginCheckLists ==
  ASSUME ListInv, ~Ordering,
         UNCHANGED <<INTERACTIVE, Inst_Bus_Config, AuxToAuxPlayList, rev, pending, sinks,
                     auxP, notes, audio, accepted>>,
         calls' \in 0 .. MaxCalls[INTERACTIVE], default' \in BOOLEAN,
         refused' \in {NoSlot, refused},
         NEW n \in Names, NEW s \in Slots \cup {DefaultSlot},
         NEW configs \in [Buses -> BusConfigType], BeginCheck(n, s, configs),
         \A b \in Buses : /\ configs[b].inConfig = BusConfigs[b].inConfig
                          /\ configs[b].outInUse => b < NCHANS
  PROVE  ListInv'
<1> USE DEF ListInv, Typed
<1> DEFINE O == {b \in Buses : configs[b].outInUse}
           A == {b \in Buses : configs[b].auxOutInUse}
<1>1. /\ BusConfigs' = configs /\ configStatus' = TRUE
      /\ ToOutPlayList' = Playlist(Ascending(O)) /\ ToAuxPlayList' = Playlist(Ascending(A))
      /\ call' = [name |-> n, slot |-> s] /\ todo' = s.auxin /\ visited' = {}
      /\ parserPc' = "check"
  BY DEF BeginCheck
<1>2. O \subseteq Buses /\ A \subseteq Buses
  OBVIOUS
<1>3. /\ \A b \in O : configs[b].outInUse
      /\ \A b \in A : configs[b].auxOutInUse
  OBVIOUS
<1> HIDE DEF O, A
<1>4. /\ ToOutPlayList' \in PlaylistType /\ Contents(ToOutPlayList') = O
      /\ Scanned(ToOutPlayList')
  BY <1>1, <1>2, PlaylistFacts
<1>5. /\ ToAuxPlayList' \in PlaylistType /\ Contents(ToAuxPlayList') = A
      /\ Scanned(ToAuxPlayList')
  BY <1>1, <1>2, PlaylistFacts
<1>6. s.auxin \in Seq(Buses) /\ call' \in CallType
  BY <1>1, SlotTypes DEF CallType
<1>7. TypeOK'
  BY <1>1, <1>4, <1>5, <1>6 DEF TypeOK, notes, audio, CallType
<1>8. Flat'
  BY <1>1, <1>3, <1>4, <1>5 DEF Flat
<1>9. Ordered'
  BY <1>1 DEF Ordered, Ordering
<1>10. Solid(AuxToAuxPlayList)'
  BY DEF Solid
<1> QED
  BY <1>1, <1>6, <1>7, <1>8, <1>9, <1>10

LEMMA BusConfigLists ==
  ASSUME ListInv, UNCHANGED INTERACTIVE, INTERACTIVE \in DOMAIN ModeSlots,
         NEW n \in Names, NEW s \in ModeSlots[INTERACTIVE], BusConfig(n, s)
  PROVE  ListInv'
<1> DEFINE configs == Flagged(BusConfigs, s)
<1>1. s \in Slots \cup {DefaultSlot}
  BY ModeSlotsAreSlots
<1>2. BusConfigs \in [Buses -> BusConfigType]
  BY DEF ListInv, Typed, TypeOK
<1>3. /\ configs \in [Buses -> BusConfigType]
      /\ \A b \in Buses : configs[b].inConfig = BusConfigs[b].inConfig
  BY <1>2, FlaggedKeeps
<1>4. ASSUME NEW b \in Buses, configs[b].outInUse PROVE b < NCHANS
  <2>1. BusConfigs[b].outInUse \/ b \in ToSet(s.out)
    BY <1>2, <1>4, FlaggedFlags
  <2>2. ToSet(s.out) \subseteq 0 .. NCHANS - 1 /\ NCHANS \in Nat
    BY <1>1, SlotOuts, BusCountAssumption
  <2> QED
    BY <2>1, <2>2 DEF ListInv, Flat
<1> HIDE DEF configs
<1>5. calls' \in 0 .. MaxCalls[INTERACTIVE]
  BY CallsAssumption DEF BusConfig, ListInv, Typed, TypeOK
<1>6. /\ BeginCheck(n, s, configs) /\ parserPc = "idle" /\ default' = FALSE
      /\ refused' = NoSlot
      /\ UNCHANGED <<Inst_Bus_Config, AuxToAuxPlayList, rev, pending, sinks, auxP,
                     notes, audio, accepted>>
  BY DEF BusConfig, configs
<1> QED
  BY <1>1, <1>3, <1>4, <1>5, <1>6, BeginCheckLists DEF Ordering

LEMMA CheckDefaultLists ==
  ASSUME ListInv, UNCHANGED INTERACTIVE, CheckDefault
  PROVE  ListInv'
<1>1. /\ BusConfigs \in [Buses -> BusConfigType] /\ default \in BOOLEAN
      /\ calls \in 0 .. MaxCalls[INTERACTIVE] /\ parserPc = "default"
      /\ \A b \in Buses : BusConfigs[b].outInUse => b < NCHANS
  BY DEF ListInv, Typed, TypeOK, Flat, CheckDefault
<1>2. call.name \in Names /\ call.slot \in Slots \cup {DefaultSlot}
  BY <1>1 DEF ListInv, Typed, CallType
<1>3. /\ BeginCheck(call.name, call.slot, BusConfigs)
      /\ UNCHANGED <<Inst_Bus_Config, AuxToAuxPlayList, default, rev, pending, sinks,
                     auxP, calls, notes, audio, accepted, refused>>
  BY DEF CheckDefault, history
<1> QED
  BY <1>1, <1>2, <1>3, BeginCheckLists DEF Ordering

LEMMA DefaultConfigLists ==
  ASSUME ListInv, UNCHANGED INTERACTIVE, NEW n \in Names, DefaultConfig(n)
  PROVE  ListInv'
<1> USE DEF ListInv, Typed
<1> DEFINE clean == IF configStatus THEN BusConfigs
                    ELSE [b \in Buses |-> [BusConfigs[b] EXCEPT !.outInUse = FALSE]]
           lists == IF configStatus THEN playlists
                    ELSE <<Playlist(<<>>), Playlist(<<>>), Playlist(<<>>)>>
<1>1. /\ parserPc = "idle" /\ parserPc' = "default"
      /\ BusConfigs' = Flagged(clean, DefaultSlot)
      /\ ToAuxPlayList' = lists[1] /\ AuxToAuxPlayList' = lists[2]
      /\ ToOutPlayList' = [b \in Buses |-> IF b < NCHANS THEN b ELSE lists[3][b]]
      /\ call' = [name |-> n, slot |-> DefaultSlot] /\ default' = TRUE /\ configStatus' = TRUE
      /\ UNCHANGED <<Inst_Bus_Config, visited, todo, rev, pending, sinks, auxP, calls,
                     started, playing, audioPc, qStatus, playBus, walk, accepted, refused>>
  BY DEF DefaultConfig, notes, audio, history
<1>2. /\ BusConfigs \in [Buses -> BusConfigType]
      /\ {ToAuxPlayList, AuxToAuxPlayList, ToOutPlayList} \subseteq PlaylistType
      /\ Solid(AuxToAuxPlayList)
  BY <1>1 DEF TypeOK, Ordering
<1>3. ASSUME NEW b \in Buses
      PROVE  /\ clean[b] \in BusConfigType
             /\ clean[b].inConfig = BusConfigs[b].inConfig
             /\ clean[b].auxOutInUse <=> BusConfigs[b].auxOutInUse
             /\ clean[b].outInUse <=> BusConfigs[b].outInUse /\ configStatus
  <2>1. BusConfigs[b] \in BusConfigType
    BY <1>2
  <2> QED
    BY <2>1 DEF BusConfigType
<1>4. clean \in [Buses -> BusConfigType]
  BY <1>2, <1>3
<1>5. /\ lists[1] \in PlaylistType /\ lists[2] \in PlaylistType /\ lists[3] \in PlaylistType
      /\ Scanned(lists[1]) /\ Scanned(lists[3]) /\ Solid(lists[2])
      /\ \A b \in Contents(lists[1]) : BusConfigs[b].auxOutInUse
      /\ \A b \in Contents(lists[3]) : BusConfigs[b].outInUse
  <2>1. CASE configStatus
    <3>1. lists[1] = ToAuxPlayList /\ lists[2] = AuxToAuxPlayList /\ lists[3] = ToOutPlayList
      BY <2>1 DEF playlists
    <3> HIDE DEF lists
    <3> QED
      BY <1>2, <3>1 DEF Flat
  <2>2. CASE ~configStatus
    <3>1. \A k \in 1 .. 3 : lists[k] = Playlist(<<>>)
      BY <2>2
    <3> HIDE DEF lists
    <3> QED
      BY <3>1, EmptyList
  <2> QED
    BY <2>1, <2>2
<1> HIDE DEF lists
<1> DEFINE outs == lists[3]
<1>6. outs \in PlaylistType /\ Scanned(outs) /\ Contents(outs) \subseteq 0 .. NCHANS - 1
  <2>1. Contents(outs) \subseteq Buses /\ Buses \subseteq Nat /\ NCHANS \in Nat
    BY <1>5, BusesFinite, BusCountAssumption DEF Contents, PlaylistType
  <2>2. \A b \in Contents(outs) : b < NCHANS
    BY <1>5, <2>1 DEF Flat
  <2>3. ASSUME NEW b \in Contents(outs) PROVE b \in 0 .. NCHANS - 1
    <3>1. b \in Nat /\ NCHANS \in Nat /\ b < NCHANS
      BY <2>1, <2>2
    <3> QED
      BY <3>1
  <2> QED
    BY <1>5, <2>3
<1>7. ToOutPlayList' = [b \in Buses |-> IF b < NCHANS THEN b ELSE outs[b]]
  BY <1>1
<1> HIDE DEF outs, clean
<1>8. /\ ToOutPlayList' \in PlaylistType /\ Contents(ToOutPlayList') = 0 .. NCHANS - 1
      /\ Scanned(ToOutPlayList')
  BY <1>6, <1>7, DefaultList
<1>9. ASSUME NEW b \in Buses
      PROVE  /\ BusConfigs'[b].inConfig = BusConfigs[b].inConfig
             /\ BusConfigs[b].auxOutInUse => BusConfigs'[b].auxOutInUse
             /\ b \in 0 .. NCHANS - 1 => BusConfigs'[b].outInUse
             /\ BusConfigs'[b].outInUse => b < NCHANS
  <2> DEFINE c == Flagged(clean, DefaultSlot)[b]
  <2>1. /\ c.outInUse <=> clean[b].outInUse \/ b \in ToSet(DefaultSlot.out)
        /\ c.auxOutInUse <=> clean[b].auxOutInUse \/ b \in ToSet(DefaultSlot.auxout)
        /\ c.inConfig = clean[b].inConfig
    BY <1>4, FlaggedFlags
  <2>2. ToSet(DefaultSlot.out) = 0 .. NCHANS - 1 /\ NCHANS \in Nat
    BY DefaultOuts, BusCountAssumption
  <2>3. BusConfigs'[b] = c
    BY <1>1
  <2>4. BusConfigs[b].outInUse => b < NCHANS
    BY DEF Flat
  <2> HIDE DEF c
  <2> QED
    BY <1>3, <2>1, <2>2, <2>3, <2>4
<1>10. BusConfigs' \in [Buses -> BusConfigType]
  BY <1>1, <1>4, FlaggedKeeps
<1>11. call' \in CallType
  BY <1>1 DEF CallType
<1>12. TypeOK'
  BY <1>1, <1>5, <1>8, <1>9, <1>10, <1>11 DEF TypeOK, CallType
<1>13. Flat'
  <2>1. Contents(ToAuxPlayList') \subseteq Buses
    BY <1>1, <1>5 DEF Contents, PlaylistType
  <2>2. \A b \in Contents(ToAuxPlayList') : BusConfigs'[b].auxOutInUse
    BY <1>1, <1>5, <1>9, <2>1
  <2>3. \A b \in Contents(ToOutPlayList') : BusConfigs'[b].outInUse
    <3>1. 0 .. NCHANS - 1 \subseteq Buses
      BY SlotOuts
    <3> QED
      BY <1>8, <1>9, <3>1
  <2> QED
    BY <1>1, <1>5, <1>8, <1>9, <2>2, <2>3 DEF Flat
<1> QED
  BY <1>1, <1>5, <1>11, <1>12, <1>13 DEF Ordered, Ordering

LEMMA MixedLists ==
  ASSUME ListInv, UNCHANGED INTERACTIVE, INTERACTIVE \in DOMAIN ModeSlots,
         NEW s \in ModeSlots[INTERACTIVE], MixedOutputs(s)
  PROVE  ListInv'
<1> USE DEF ListInv, Typed
<1>1. /\ parserPc = "idle" /\ parserPc' \in {"idle", "failed"}
      /\ calls' = calls + 1 /\ calls < MaxCalls[INTERACTIVE]
      /\ UNCHANGED <<Inst_Bus_Config, configStatus, ToAuxPlayList, AuxToAuxPlayList,
                     ToOutPlayList, call, default, visited, todo, rev, pending, sinks, auxP,
                     started, playing, audioPc, qStatus, playBus, walk, accepted, refused>>
  BY DEF MixedOutputs, playlists, locals, notes, audio, history, Failed
<1>2. PICK first \in {[s EXCEPT !.out = <<>>], [s EXCEPT !.auxout = <<>>]} :
        BusConfigs' = Flagged(BusConfigs, first)
  BY DEF MixedOutputs
<1>3. BusConfigs \in [Buses -> BusConfigType]
  BY DEF TypeOK
<1>4. s \in Slots /\ DOMAIN s = {"auxin", "auxout", "out"}
  BY ModeSlotsAreSlots, SlotAssumption
<1>5. ToSet(first.out) \subseteq 0 .. NCHANS - 1 /\ NCHANS \in Nat
  <2>1. first.out = s.out \/ first.out = <<>>
    BY <1>4
  <2>2. ToSet(s.out) \subseteq 0 .. NCHANS - 1 /\ NCHANS \in Nat
    BY <1>4, SlotOuts, BusCountAssumption
  <2>3. ToSet(<<>>) = {}
    BY DEF ToSet
  <2> QED
    BY <2>1, <2>2, <2>3
<1> DEFINE configs == Flagged(BusConfigs, first)
<1>6. /\ configs \in [Buses -> BusConfigType]
      /\ \A b \in Buses : configs[b].inConfig = BusConfigs[b].inConfig
  BY <1>3, FlaggedKeeps
<1>7. ASSUME NEW b \in Buses
      PROVE  /\ configs[b].outInUse <=> BusConfigs[b].outInUse \/ b \in ToSet(first.out)
             /\ configs[b].auxOutInUse <=> BusConfigs[b].auxOutInUse \/ b \in ToSet(first.auxout)
  BY <1>3, FlaggedFlags
<1>8. BusConfigs' = configs
  BY <1>2
<1> HIDE DEF configs
<1>9. TypeOK'
  <2>1. calls' \in 0 .. MaxCalls[INTERACTIVE]
    BY <1>1, CallsAssumption DEF TypeOK
  <2> QED
    BY <1>1, <1>6, <1>8, <2>1 DEF TypeOK
<1>10. Flat'
  <2>1. ToAuxPlayList \in PlaylistType /\ ToOutPlayList \in PlaylistType
    BY DEF TypeOK
  <2>2. \A b \in Buses :
          /\ BusConfigs[b].auxOutInUse => BusConfigs'[b].auxOutInUse
          /\ BusConfigs[b].outInUse => BusConfigs'[b].outInUse
          /\ BusConfigs'[b].outInUse => BusConfigs[b].outInUse \/ b < NCHANS
    BY <1>5, <1>7, <1>8
  <2> QED
    BY <1>1, <2>1, <2>2, FlatKept
<1>11. Ordered' /\ Solid(AuxToAuxPlayList)'
  BY <1>1 DEF Ordered, Ordering, Solid
<1> QED
  BY <1>1, <1>9, <1>10, <1>11

LEMMA AppendFacts ==
  ASSUME NEW q \in Seq(Buses), NEW b \in Buses, NEW r, r = Append(q, b)
  PROVE  /\ r \in Seq(Buses) /\ Len(r) = Len(q) + 1 /\ r[Len(r)] = b
         /\ \A n \in 1 .. Len(q) : r[n] = q[n]
         /\ ToSet(r) = ToSet(q) \cup {b}
         /\ IsInjective(q) /\ b \notin ToSet(q) => IsInjective(r)
<1>1. /\ r \in Seq(Buses) /\ Len(r) = Len(q) + 1 /\ r[Len(q) + 1] = b
      /\ Len(q) \in Nat /\ DOMAIN q = 1 .. Len(q) /\ DOMAIN r = 1 .. Len(q) + 1
      /\ \A n \in 1 .. Len(q) : r[n] = q[n]
  OBVIOUS
<1>2. ToSet(r) \subseteq ToSet(q) \cup {b}
  BY <1>1 DEF ToSet
<1>3. ToSet(q) \subseteq ToSet(r) /\ b \in ToSet(r)
  BY <1>1 DEF ToSet
<1>4. ASSUME IsInjective(q), b \notin ToSet(q), NEW m \in DOMAIN r, NEW n \in DOMAIN r,
             r[m] = r[n]
      PROVE  m = n
  <2>1. \A k \in 1 .. Len(q) : r[k] \in ToSet(q)
    BY <1>1 DEF ToSet
  <2>2. m \in 1 .. Len(q) \/ m = Len(q) + 1
    BY <1>1
  <2>3. n \in 1 .. Len(q) \/ n = Len(q) + 1
    BY <1>1
  <2> QED
    BY <1>1, <1>4, <2>1, <2>2, <2>3 DEF IsInjective
<1>5. IsInjective(q) /\ b \notin ToSet(q) => IsInjective(r)
  BY <1>4 DEF IsInjective
<1> QED
  BY <1>1, <1>2, <1>3, <1>5

LEMMA TailFacts ==
  ASSUME NEW q \in Seq(Buses), q # <<>>, NEW b, b = Head(q), NEW r, r = Tail(q)
  PROVE  /\ b \in Buses /\ r \in Seq(Buses) /\ ToSet(q) = {b} \cup ToSet(r)
         /\ b = q[1] /\ Len(r) = Len(q) - 1 /\ Len(q) >= 1
         /\ \A n \in 1 .. Len(r) : n + 1 \in 1 .. Len(q) /\ r[n] = q[n + 1]
         /\ IsInjective(q) => IsInjective(r) /\ b \notin ToSet(r)
<1>1. b \in Buses /\ r \in Seq(Buses) /\ ToSet(q) = {b} \cup ToSet(r)
  BY HeadAndTail
<1>2. /\ b = q[1] /\ Len(r) = Len(q) - 1 /\ Len(q) \in Nat /\ Len(q) >= 1
      /\ \A n \in 1 .. Len(r) : n + 1 \in 1 .. Len(q) /\ r[n] = q[n + 1]
  OBVIOUS
<1>3. DOMAIN q = 1 .. Len(q) /\ DOMAIN r = 1 .. Len(r)
  BY <1>1
<1>4. ASSUME IsInjective(q), NEW m \in 1 .. Len(r), NEW n \in 1 .. Len(r), r[m] = r[n]
      PROVE  m = n
  <2>1. m + 1 = n + 1
    BY <1>2, <1>3, <1>4 DEF IsInjective
  <2> QED
    BY <2>1
<1>5. ASSUME IsInjective(q), NEW n \in 1 .. Len(r) PROVE r[n] # b
  <2>1. 1 \in 1 .. Len(q) /\ n + 1 # 1
    BY <1>2
  <2> QED
    BY <1>2, <1>3, <1>5, <2>1 DEF IsInjective
<1> QED
  BY <1>1, <1>2, <1>3, <1>4, <1>5 DEF IsInjective, ToSet

\* One bus of the search.
LEMMA VisitFacts ==
  ASSUME BusConfigs \in [Buses -> BusConfigType], visited \subseteq Buses,
         todo \in Seq(Buses), todo # <<>>, rev \in Seq(Buses),
         NEW t, t = Head(todo), Visit(Head(todo))
  PROVE  /\ t \in Buses /\ Tail(todo) \in Seq(Buses) /\ In(t) \in Seq(Buses)
         /\ ToSet(todo) = {t} \cup ToSet(Tail(todo))
         /\ visited' \subseteq Buses /\ todo' \in Seq(Buses) /\ rev' \in Seq(Buses)
         /\ GoesOn(t) => /\ In(t) # <<>> /\ t \notin visited /\ visited' = visited \cup {t}
                         /\ todo' = Tail(todo) \o In(t)
                         /\ ToSet(todo') = ToSet(Tail(todo)) \cup ToSet(In(t))
         /\ ~GoesOn(t) => /\ In(t) = <<>> \/ t \in visited
                          /\ visited' = visited /\ todo' = Tail(todo) /\ rev' = rev
         /\ BusConfigs[t].hasParent /\ GoesOn(t) => rev' = Append(rev, t)
         /\ ~BusConfigs[t].hasParent => rev' = rev
<1> DEFINE q == Tail(todo)
           ins == BusConfigs[t].inConfig
<1>1. t \in Buses /\ q \in Seq(Buses) /\ ToSet(todo) = {t} \cup ToSet(q)
  BY TailFacts
<1>2. ins \in Seq(Buses) /\ In(t) = ins
  BY <1>1 DEF BusConfigType, In
<1>3. q \o ins \in Seq(Buses) /\ ToSet(q \o ins) = ToSet(q) \cup ToSet(ins)
  BY <1>1, <1>2, ConcatBuses
<1>4. q \o <<>> = q /\ Append(rev, t) \in Seq(Buses)
  BY <1>1
<1>5. GoesOn(t) <=> ins # <<>> /\ t \notin visited
  BY DEF GoesOn
<1>6. /\ visited' = IF GoesOn(t) THEN visited \cup {t} ELSE visited
      /\ todo' = q \o (IF GoesOn(t) THEN ins ELSE <<>>)
      /\ rev' = IF GoesOn(t) /\ BusConfigs[t].hasParent THEN Append(rev, t) ELSE rev
  BY DEF Visit
<1> HIDE DEF q, ins
<1>7. CASE GoesOn(t)
  <2>1. /\ visited' = visited \cup {t} /\ todo' = q \o ins
        /\ rev' = IF BusConfigs[t].hasParent THEN Append(rev, t) ELSE rev
    BY <1>6, <1>7
  <2>2. ToSet(todo') = ToSet(q) \cup ToSet(ins) /\ todo' \in Seq(Buses)
    BY <1>3, <2>1
  <2> QED
    BY <1>1, <1>2, <1>4, <1>5, <1>7, <2>1, <2>2 DEF q
<1>8. CASE ~GoesOn(t)
  <2>1. visited' = visited /\ todo' = q /\ rev' = rev
    BY <1>4, <1>6, <1>8
  <2> QED
    BY <1>1, <1>2, <1>5, <1>8, <2>1 DEF q
<1> QED
  BY <1>7, <1>8

LEMMA CheckStepLists ==
  ASSUME ListInv, UNCHANGED INTERACTIVE, CheckStep
  PROVE  ListInv'
<1> USE DEF ListInv, Typed
<1>1. /\ parserPc = "check" /\ parserPc' = "check" /\ todo # <<>> /\ Visit(Head(todo))
      /\ UNCHANGED <<BusConfigs, Inst_Bus_Config, configStatus, ToAuxPlayList,
                     AuxToAuxPlayList, ToOutPlayList, call, default, pending, sinks, auxP,
                     calls, started, playing, audioPc, qStatus, playBus, walk, accepted,
                     refused>>
  BY DEF CheckStep, graph, playlists, history, notes, audio
<1>2. /\ BusConfigs \in [Buses -> BusConfigType] /\ visited \subseteq Buses
      /\ todo \in Seq(Buses) /\ rev \in Seq(Buses)
  BY DEF TypeOK
<1>3. visited' \subseteq Buses /\ todo' \in Seq(Buses) /\ rev' \in Seq(Buses)
  BY <1>1, <1>2, VisitFacts
<1>4. TypeOK'
  BY <1>1, <1>3 DEF TypeOK
<1>5. Flat'
  BY <1>1, FlatSame
<1>6. Ordered' /\ Solid(AuxToAuxPlayList)'
  BY <1>1 DEF Ordered, Ordering, Solid
<1> QED
  BY <1>1, <1>4, <1>5, <1>6

LEMMA LoopFoundLists ==
  ASSUME ListInv, UNCHANGED INTERACTIVE, LoopFound
  PROVE  ListInv'
<1> USE DEF ListInv, Typed
<1>1. /\ parserPc = "check" /\ parserPc' \in {"idle", "failed"} /\ todo # <<>>
      /\ Head(todo) \in ToSet(call.slot.auxout) /\ refused' = call.slot
      /\ call' = <<>> /\ default' = FALSE /\ visited' = {} /\ todo' = <<>> /\ rev' = <<>>
      /\ pending' = <<>> /\ sinks' = <<>>
      /\ UNCHANGED <<BusConfigs, Inst_Bus_Config, configStatus, ToAuxPlayList,
                     AuxToAuxPlayList, ToOutPlayList, auxP, calls, started, playing,
                     audioPc, qStatus, playBus, walk, accepted>>
  BY DEF LoopFound, Return, Failed, graph, playlists, notes, audio
<1>2. refused' \in Slots
  <2>1. call.slot \in Slots \cup {DefaultSlot}
    BY <1>1 DEF CallType
  <2>2. call.slot # DefaultSlot
    BY <1>1, DefaultHasNoEdges DEF ToSet
  <2> QED
    BY <1>1, <2>1, <2>2
<1>3. TypeOK'
  <2>1. <<>> \in Seq(Buses)
    OBVIOUS
  <2> QED
    BY <1>1, <1>2, <2>1 DEF TypeOK
<1>4. Flat'
  BY <1>1, FlatSame
<1>5. Ordered' /\ Solid(AuxToAuxPlayList)'
  BY <1>1 DEF Ordered, Ordering, Solid
<1> QED
  BY <1>1, <1>3, <1>4, <1>5

LEMMA InsertLists ==
  ASSUME ListInv, UNCHANGED INTERACTIVE, Insert
  PROVE  ListInv'
<1> USE DEF ListInv, Typed
<1> DEFINE s == call.slot
           configs == Connected(BusConfigs, s)
<1>1. /\ parserPc = "check" /\ todo = <<>> /\ BusConfigs' = configs
      /\ Inst_Bus_Config' = [Inst_Bus_Config EXCEPT ![call.name] = s]
      /\ accepted' = accepted \cup {s} /\ auxP' = 0
      /\ UNCHANGED <<configStatus, ToAuxPlayList, AuxToAuxPlayList, ToOutPlayList, calls,
                     started, playing, audioPc, qStatus, playBus, walk, refused>>
  BY DEF Insert, playlists, notes, audio
<1>2. /\ s \in Slots \cup {DefaultSlot} /\ call.name \in Names
      /\ BusConfigs \in [Buses -> BusConfigType]
      /\ \A b \in Buses : Len(BusConfigs[b].inConfig) < BusCount
  BY <1>1 DEF CallType, TypeOK
<1>3. /\ configs \in [Buses -> BusConfigType]
      /\ \A b \in Buses : Len(configs[b].inConfig) < BusCount
  BY <1>2, ConnectedFacts
<1>4. \A b \in Buses : /\ configs[b].outInUse <=> BusConfigs[b].outInUse
                       /\ configs[b].auxOutInUse <=> BusConfigs[b].auxOutInUse
  BY <1>2, ConnectedFlags
<1>5. /\ default' \in BOOLEAN /\ visited' = {} /\ rev' \in Seq(Buses) /\ todo' = <<>>
      /\ pending' \in Seq(Buses) /\ sinks' \in Seq(Buses)
      /\ parserPc' \in {"idle", "write"} /\ call' \in CallType \cup {<<>>}
      /\ parserPc' = "write" =>
           IsInjective(pending') /\ ToSet(pending') = Parents(BusConfigs')
  <2>1. CASE default
    <3>1. Return("idle")
      BY <2>1 DEF Insert
    <3>2. <<>> \in Seq(Buses)
      OBVIOUS
    <3> QED
      BY <3>1, <3>2 DEF Return
  <2>2. CASE ~default
    <3>1. BeginOrder
      BY <2>2 DEF Insert
    <3>2. PICK P \in SUBSET Buses : P = Parents(BusConfigs')
      BY DEF Parents
    <3>3. PICK S \in SUBSET Buses : S = Sinks(BusConfigs')
      BY DEF Sinks
    <3>4. /\ pending' = Ascending(P) /\ sinks' = Ascending(S) /\ visited' = {}
          /\ parserPc' = "write" /\ UNCHANGED <<call, default, todo, rev>>
      BY <3>1, <3>2, <3>3 DEF BeginOrder
    <3>5. Ascending(P) \in Seq(Buses) /\ ToSet(Ascending(P)) = P /\ IsInjective(Ascending(P))
      BY AscendingFacts
    <3>6. Ascending(S) \in Seq(Buses)
      BY AscendingFacts
    <3>7. rev \in Seq(Buses) /\ default \in BOOLEAN /\ call \in CallType
      BY <1>1 DEF TypeOK
    <3> QED
      BY <1>1, <3>2, <3>4, <3>5, <3>6, <3>7
  <2> QED
    BY <2>1, <2>2
<1> HIDE DEF configs, s
<1>6. TypeOK'
  <2>1. <<>> \in Seq(Buses) /\ BusCount \in Nat /\ visited' \subseteq Buses
        /\ todo' \in Seq(Buses)
    BY <1>5, BusesFinite
  <2>2. Inst_Bus_Config' \in [Names -> Slots \cup {NoSlot, DefaultSlot}]
    BY <1>1, <1>2 DEF TypeOK
  <2>3. accepted' \subseteq Slots \cup {DefaultSlot}
    BY <1>1, <1>2 DEF TypeOK
  <2>4. auxP' \in 0 .. BusCount
    BY <1>1, <2>1
  <2>5. call' = <<>> \/ call' \in [name : Names, slot : Slots \cup {DefaultSlot}]
    BY <1>5 DEF CallType
  <2> QED
    BY <1>1, <1>3, <1>5, <2>1, <2>2, <2>3, <2>4, <2>5 DEF TypeOK
<1>7. Flat'
  <2>1. ToAuxPlayList \in PlaylistType /\ ToOutPlayList \in PlaylistType
    BY DEF TypeOK
  <2> QED
    BY <1>1, <1>4, <2>1, FlatKept
<1>8. Ordered'
  <2> SUFFICES ASSUME parserPc' = "write" PROVE Ordered'
    BY <1>5 DEF Ordered, Ordering
  <2>1. Written' = {} /\ Unwritten' = Parents(BusConfigs)'
    BY <1>1, <1>5 DEF Written, Unwritten
  <2>2. auxP' <= BusCount
    BY <1>1, BusesFinite
  <2>3. \A m, n \in 0 .. auxP' - 1 : AuxToAuxPlayList'[m] = AuxToAuxPlayList'[n] => m = n
    BY <1>1
  <2> QED
    BY <1>5, <2>1, <2>2, <2>3 DEF Ordered
<1>9. ~Ordering' => Solid(AuxToAuxPlayList)'
  BY <1>1 DEF Ordering, Solid
<1> QED
  BY <1>5, <1>6, <1>7, <1>8, <1>9

\* One entry of the third list is written.
LEMMA WriteFacts ==
  ASSUME TypeOK, Ordered, WriteEntry, NEW b, b = Head(pending)
  PROVE  /\ auxP \in Buses /\ auxP' = auxP + 1
         /\ b \in Buses /\ b \notin Written /\ Written' = Written \cup {b}
         /\ \A n \in 0 .. auxP - 1 :
              AuxToAuxPlayList'[n] = AuxToAuxPlayList[n] /\ n \in Buses
         /\ AuxToAuxPlayList'[auxP] = b /\ AuxToAuxPlayList' \in PlaylistType
         /\ pending' \in Seq(Buses) /\ b \notin ToSet(pending') /\ IsInjective(pending')
         /\ ToSet(pending) = {b} \cup ToSet(pending')
<1>1. /\ parserPc = "write" /\ pending # <<>> /\ pending' = Tail(pending)
      /\ AuxToAuxPlayList' = [AuxToAuxPlayList EXCEPT ![auxP] = b]
      /\ auxP' = auxP + 1
  BY DEF WriteEntry
<1>2. /\ pending \in Seq(Buses) /\ AuxToAuxPlayList \in PlaylistType /\ auxP \in Nat
  BY BusesFinite DEF TypeOK
<1>3. /\ IsInjective(pending) /\ Written \subseteq Buses /\ Written \cap ToSet(pending) = {}
      /\ \A m, n \in 0 .. auxP - 1 : AuxToAuxPlayList[m] = AuxToAuxPlayList[n] => m = n
  BY <1>1 DEF Ordered, Ordering, Unwritten
<1>4. /\ b \in Buses /\ pending' \in Seq(Buses) /\ ToSet(pending) = {b} \cup ToSet(pending')
      /\ IsInjective(pending') /\ b \notin ToSet(pending')
  BY <1>1, <1>2, <1>3, TailFacts
<1>5. b \notin Written
  BY <1>3, <1>4
<1>6. BusCount \in Nat /\ Buses = 0 .. BusCount - 1
  BY BusesFinite DEF Buses
<1>7. auxP < BusCount
  <2>1. auxP < Cardinality(Buses)
    BY <1>2, <1>3, <1>4, <1>5, Room
  <2> QED
    BY <2>1, BusesFinite
<1>8. auxP \in Buses
  BY <1>2, <1>6, <1>7
<1>9. \A n \in 0 .. auxP - 1 : n \in Buses /\ n # auxP
  BY <1>2, <1>6, <1>7
<1>10. DOMAIN AuxToAuxPlayList = Buses
  BY <1>2 DEF PlaylistType
<1>11. /\ \A n \in 0 .. auxP - 1 : AuxToAuxPlayList'[n] = AuxToAuxPlayList[n]
       /\ AuxToAuxPlayList'[auxP] = b /\ AuxToAuxPlayList' \in PlaylistType
  BY <1>1, <1>2, <1>4, <1>8, <1>9, <1>10 DEF PlaylistType
<1>12. 0 .. auxP' - 1 = 0 .. auxP - 1 \cup {auxP}
  BY <1>1, <1>2
<1>13. Written' = Written \cup {b}
  <2>1. Written' = {AuxToAuxPlayList'[n] : n \in 0 .. auxP' - 1}
    BY DEF Written
  <2>2. ASSUME NEW n \in 0 .. auxP' - 1 PROVE AuxToAuxPlayList'[n] \in Written \cup {b}
    BY <1>11, <1>12 DEF Written
  <2>3. ASSUME NEW n \in 0 .. auxP - 1 PROVE AuxToAuxPlayList[n] \in Written'
    BY <1>11, <1>12, <2>1
  <2>4. b \in Written'
    BY <1>11, <1>12, <2>1
  <2>5. \A c \in Written : c \in Written'
    BY <2>3 DEF Written
  <2> QED
    BY <2>1, <2>2, <2>4, <2>5
<1> QED
  BY <1>1, <1>4, <1>5, <1>8, <1>9, <1>11, <1>13

LEMMA WriteLists ==
  ASSUME ListInv, UNCHANGED INTERACTIVE, WriteEntry
  PROVE  ListInv'
<1> USE DEF ListInv, Typed
<1> DEFINE b == Head(pending)
<1>1. /\ parserPc = "write" /\ parserPc' = "write"
      /\ UNCHANGED <<BusConfigs, Inst_Bus_Config, configStatus, ToAuxPlayList,
                     ToOutPlayList, call, default, visited, todo, rev, sinks, calls,
                     started, playing, audioPc, qStatus, playBus, walk, accepted, refused>>
  BY DEF WriteEntry, graph, history, notes, audio
<1>2. /\ auxP \in Buses /\ auxP' = auxP + 1
      /\ b \in Buses /\ b \notin Written /\ Written' = Written \cup {b}
      /\ \A n \in 0 .. auxP - 1 : AuxToAuxPlayList'[n] = AuxToAuxPlayList[n]
      /\ AuxToAuxPlayList'[auxP] = b /\ AuxToAuxPlayList' \in PlaylistType
      /\ pending' \in Seq(Buses) /\ b \notin ToSet(pending') /\ IsInjective(pending')
      /\ ToSet(pending) = {b} \cup ToSet(pending')
  BY WriteFacts
<1>3. auxP \in Nat /\ auxP' \in 0 .. BusCount /\ BusCount \in Nat
  BY <1>2, BusesFinite DEF Buses
<1> HIDE DEF b
<1>4. TypeOK'
  BY <1>1, <1>2, <1>3 DEF TypeOK
<1>5. Flat'
  BY <1>1, FlatSame
<1>6. /\ Written \subseteq Buses /\ Written \cap ToSet(pending) = {} /\ todo = <<>>
      /\ \A m, n \in 0 .. auxP - 1 : AuxToAuxPlayList[m] = AuxToAuxPlayList[n] => m = n
      /\ Written \cup ToSet(pending) =
           Parents(BusConfigs) \cup {c \in visited : BusConfigs[c].hasParent}
  BY <1>1 DEF Ordered, Ordering, Unwritten
<1>7. ASSUME NEW m \in 0 .. auxP' - 1, NEW n \in 0 .. auxP' - 1,
             AuxToAuxPlayList'[m] = AuxToAuxPlayList'[n]
      PROVE  m = n
  <2>1. \A k \in 0 .. auxP - 1 : AuxToAuxPlayList[k] \in Written
    BY DEF Written
  <2>2. (m \in 0 .. auxP - 1 \/ m = auxP) /\ (n \in 0 .. auxP - 1 \/ n = auxP)
    BY <1>2, <1>3
  <2> QED
    BY <1>2, <1>6, <1>7, <2>1, <2>2
<1>8. Ordered'
  <2>1. Unwritten' = ToSet(pending') /\ Unwritten = ToSet(pending)
    BY <1>1 DEF Unwritten
  <2>2. Written' \subseteq Buses /\ Written' \cap ToSet(pending') = {}
        /\ Written' \cup ToSet(pending') = Written \cup ToSet(pending)
    BY <1>2, <1>6
  <2>3. auxP' <= BusCount
    BY <1>3
  <2>4. Written' \cup Unwritten' =
          Parents(BusConfigs') \cup {c \in visited' : BusConfigs'[c].hasParent}
    BY <1>1, <1>6, <2>1, <2>2
  <2> QED
    BY <1>1, <1>2, <1>6, <1>7, <2>1, <2>2, <2>3, <2>4 DEF Ordered
<1> QED
  BY <1>1, <1>4, <1>5, <1>8 DEF Ordering

LEMMA NextSinkLists ==
  ASSUME ListInv, UNCHANGED INTERACTIVE, NextSink
  PROVE  ListInv'
<1> USE DEF ListInv, Typed
<1>1. /\ parserPc = "write" /\ parserPc' = "traverse" /\ pending = <<>> /\ sinks # <<>>
      /\ todo' = <<Head(sinks)>> /\ rev' = <<>> /\ sinks' = Tail(sinks)
      /\ UNCHANGED <<BusConfigs, Inst_Bus_Config, configStatus, ToAuxPlayList,
                     AuxToAuxPlayList, ToOutPlayList, call, default, visited, pending, auxP,
                     calls, started, playing, audioPc, qStatus, playBus, walk, accepted,
                     refused>>
  BY DEF NextSink, graph, playlists, history, notes, audio
<1>2. todo' \in Seq(Buses) /\ sinks' \in Seq(Buses) /\ rev' \in Seq(Buses)
  <2>1. Head(sinks) \in Buses /\ Tail(sinks) \in Seq(Buses)
    BY <1>1, TailFacts DEF TypeOK
  <2>2. <<Head(sinks)>> \in Seq(Buses) /\ <<>> \in Seq(Buses)
    BY <2>1
  <2> QED
    BY <1>1, <2>1, <2>2
<1>3. TypeOK'
  BY <1>1, <1>2 DEF TypeOK
<1>4. Flat'
  BY <1>1, FlatSame
<1>5. Ordered'
  <2>1. ToSet(<<>>) = {} /\ IsInjective(<<>>)
    BY DEF ToSet, IsInjective
  <2>2. Written' = Written /\ Unwritten' = {} /\ Unwritten = {}
    BY <1>1, <2>1 DEF Written, Unwritten
  <2>3. /\ auxP <= BusCount /\ Written \subseteq Buses
        /\ \A m, n \in 0 .. auxP - 1 : AuxToAuxPlayList[m] = AuxToAuxPlayList[n] => m = n
        /\ Written = Parents(BusConfigs) \cup {b \in visited : BusConfigs[b].hasParent}
    BY <1>1, <2>2 DEF Ordered, Ordering
  <2> QED
    BY <1>1, <2>1, <2>2, <2>3 DEF Ordered
<1> QED
  BY <1>1, <1>3, <1>4, <1>5 DEF Ordering

LEMMA TraverseLists ==
  ASSUME ListInv, UNCHANGED INTERACTIVE, TraverseStep
  PROVE  ListInv'
<1> USE DEF ListInv, Typed
<1> DEFINE t == Head(todo)
<1>1. /\ parserPc = "traverse" /\ parserPc' = "traverse" /\ todo # <<>> /\ Visit(Head(todo))
      /\ UNCHANGED <<BusConfigs, Inst_Bus_Config, configStatus, ToAuxPlayList,
                     AuxToAuxPlayList, ToOutPlayList, call, default, pending, sinks, auxP,
                     calls, started, playing, audioPc, qStatus, playBus, walk, accepted,
                     refused>>
  BY DEF TraverseStep, graph, playlists, history, notes, audio
<1>2. /\ BusConfigs \in [Buses -> BusConfigType] /\ visited \subseteq Buses
      /\ todo \in Seq(Buses) /\ rev \in Seq(Buses)
  BY DEF TypeOK
<1>3. /\ t \in Buses
      /\ visited' \subseteq Buses /\ todo' \in Seq(Buses) /\ rev' \in Seq(Buses)
      /\ GoesOn(t) => t \notin visited /\ visited' = visited \cup {t}
      /\ ~GoesOn(t) => visited' = visited /\ rev' = rev
      /\ BusConfigs[t].hasParent /\ GoesOn(t) => rev' = Append(rev, t)
      /\ ~BusConfigs[t].hasParent => rev' = rev
  BY <1>1, <1>2, VisitFacts
<1> HIDE DEF t
<1>4. TypeOK'
  BY <1>1, <1>3 DEF TypeOK
<1>5. Flat'
  BY <1>1, FlatSame
<1>6. /\ auxP <= BusCount /\ Written \subseteq Buses /\ pending = <<>>
      /\ \A m, n \in 0 .. auxP - 1 : AuxToAuxPlayList[m] = AuxToAuxPlayList[n] => m = n
      /\ IsInjective(pending) /\ IsInjective(rev) /\ Written \cap ToSet(rev) = {}
      /\ Written \cup ToSet(rev) =
           Parents(BusConfigs) \cup {b \in visited : BusConfigs[b].hasParent}
  BY <1>1 DEF Ordered, Ordering, Unwritten
<1>7. Written' = Written /\ Unwritten' = ToSet(rev')
  BY <1>1 DEF Written, Unwritten
<1>8. /\ IsInjective(rev') /\ Written \cap ToSet(rev') = {}
      /\ Written \cup ToSet(rev') =
           Parents(BusConfigs) \cup {b \in visited' : BusConfigs[b].hasParent}
  <2>1. CASE GoesOn(t) /\ BusConfigs[t].hasParent
    <3>1. t \notin Parents(BusConfigs)
      BY <2>1 DEF Parents
    <3>2. t \notin Written \cup ToSet(rev)
      BY <1>3, <1>6, <2>1, <3>1
    <3>3. ToSet(rev') = ToSet(rev) \cup {t} /\ IsInjective(rev')
      BY <1>2, <1>3, <1>6, <2>1, <3>2, AppendFacts
    <3> QED
      BY <1>3, <1>6, <2>1, <3>2, <3>3
  <2>2. CASE ~(GoesOn(t) /\ BusConfigs[t].hasParent)
    <3>1. rev' = rev
      BY <1>3, <2>2
    <3>2. {b \in visited' : BusConfigs[b].hasParent} = {b \in visited : BusConfigs[b].hasParent}
      BY <1>3, <2>2
    <3> QED
      BY <1>6, <3>1, <3>2
  <2> QED
    BY <2>1, <2>2
<1>9. Ordered'
  BY <1>1, <1>6, <1>7, <1>8 DEF Ordered
<1> QED
  BY <1>1, <1>4, <1>5, <1>9 DEF Ordering

LEMMA TraverseDoneLists ==
  ASSUME ListInv, UNCHANGED INTERACTIVE, TraverseDone
  PROVE  ListInv'
<1> USE DEF ListInv, Typed
<1>1. /\ parserPc = "traverse" /\ parserPc' = "write" /\ todo = <<>>
      /\ pending' = Reverse(rev)
      /\ UNCHANGED <<BusConfigs, Inst_Bus_Config, configStatus, ToAuxPlayList,
                     AuxToAuxPlayList, ToOutPlayList, call, default, visited, todo, rev,
                     sinks, auxP, calls, started, playing, audioPc, qStatus, playBus, walk,
                     accepted, refused>>
  BY DEF TraverseDone, Order, graph, playlists, history, notes, audio
<1>2. /\ auxP <= BusCount /\ Written \subseteq Buses
      /\ \A m, n \in 0 .. auxP - 1 : AuxToAuxPlayList[m] = AuxToAuxPlayList[n] => m = n
      /\ IsInjective(rev) /\ Written \cap ToSet(rev) = {}
      /\ Written \cup ToSet(rev) =
           Parents(BusConfigs) \cup {b \in visited : BusConfigs[b].hasParent}
  BY <1>1 DEF Ordered, Ordering, Unwritten
<1>3. pending' \in Seq(Buses) /\ ToSet(pending') = ToSet(rev) /\ IsInjective(pending')
  BY <1>1, <1>2, ReverseFacts DEF TypeOK
<1>4. TypeOK'
  BY <1>1, <1>3 DEF TypeOK
<1>5. Flat'
  BY <1>1, FlatSame
<1>6. Written' = Written /\ Unwritten' = ToSet(rev)
  BY <1>1, <1>3 DEF Written, Unwritten
<1>7. Ordered'
  BY <1>1, <1>2, <1>3, <1>6 DEF Ordered
<1> QED
  BY <1>1, <1>4, <1>5, <1>7 DEF Ordering

\* The rest of the list is cleared when all that was met has been written.
LEMMA ClearLists ==
  ASSUME ListInv, UNCHANGED INTERACTIVE, ClearRest
  PROVE  ListInv'
<1> USE DEF ListInv, Typed
<1>1. /\ parserPc = "write" /\ parserPc' = "idle"
      /\ AuxToAuxPlayList' = [b \in Buses |-> IF b < auxP THEN AuxToAuxPlayList[b] ELSE -1]
      /\ call' = <<>> /\ default' = FALSE /\ visited' = {} /\ todo' = <<>> /\ rev' = <<>>
      /\ pending' = <<>> /\ sinks' = <<>>
      /\ UNCHANGED <<BusConfigs, Inst_Bus_Config, configStatus, ToAuxPlayList, ToOutPlayList,
                     auxP, calls, started, playing, audioPc, qStatus, playBus, walk,
                     accepted, refused>>
  BY DEF ClearRest, Return, graph, history, notes, audio
<1>2. /\ AuxToAuxPlayList \in PlaylistType /\ auxP \in Nat /\ Buses \subseteq Nat
      /\ -1 \notin Buses
  BY BusesFinite DEF TypeOK
<1>3. /\ Written \subseteq Buses
      /\ \A m, n \in 0 .. auxP - 1 : AuxToAuxPlayList[m] = AuxToAuxPlayList[n] => m = n
  BY <1>1 DEF Ordered, Ordering
<1>4. AuxToAuxPlayList' \in PlaylistType
  BY <1>1, <1>2 DEF PlaylistType
<1>5. TypeOK'
  <2>1. <<>> \in Seq(Buses)
    OBVIOUS
  <2> QED
    BY <1>1, <1>4, <2>1 DEF TypeOK
<1>6. Flat'
  BY <1>1, FlatSame
<1>7. Solid(AuxToAuxPlayList)'
  <2> SUFFICES ASSUME NEW n \in Buses, AuxToAuxPlayList'[n] # -1, NEW m \in Buses, m < n
               PROVE  AuxToAuxPlayList'[m] # -1 /\ AuxToAuxPlayList'[m] # AuxToAuxPlayList'[n]
    BY DEF Solid
  <2>1. n < auxP /\ AuxToAuxPlayList'[n] = AuxToAuxPlayList[n]
    BY <1>1
  <2>2. m < auxP /\ AuxToAuxPlayList'[m] = AuxToAuxPlayList[m]
    BY <1>1, <1>2, <2>1
  <2>3. m \in 0 .. auxP - 1 /\ n \in 0 .. auxP - 1 /\ m # n
    BY <1>2, <2>1, <2>2
  <2>4. AuxToAuxPlayList[m] \in Buses
    BY <1>3, <2>3 DEF Written
  <2> QED
    BY <1>2, <1>3, <2>1, <2>2, <2>3, <2>4
<1>8. Ordered'
  BY <1>1 DEF Ordered, Ordering
<1> QED
  BY <1>1, <1>5, <1>6, <1>7, <1>8

LEMMA NextLists ==
  ASSUME ListInv, INTERACTIVE \in DOMAIN ModeSlots, [Next]_vars
  PROVE  ListInv'
<1>1. CASE Next
  <2>1. UNCHANGED INTERACTIVE
    BY <1>1 DEF Next
  <2>2. CASE \E n \in Names, s \in ModeSlots[INTERACTIVE] : BusConfig(n, s)
    BY <2>1, <2>2, BusConfigLists
  <2>3. CASE \/ \E n \in Names : DefaultConfig(n)
             \/ \E s \in ModeSlots[INTERACTIVE] : MixedOutputs(s)
    BY <2>1, <2>3, DefaultConfigLists, MixedLists
  <2>4. CASE CheckDefault \/ CheckStep \/ LoopFound \/ Insert
    BY <2>1, <2>4, CheckDefaultLists, CheckStepLists, LoopFoundLists, InsertLists
  <2>5. CASE WriteEntry \/ NextSink \/ TraverseStep \/ TraverseDone \/ ClearRest
    BY <2>1, <2>5, WriteLists, NextSinkLists, TraverseLists, TraverseDoneLists, ClearLists
  <2>6. CASE (\E n \in Names : StartNote(n)) \/ ScoreEnds \/ AudioStep
    BY <2>1, <2>6, NoteLists, AudioLists
  <2> QED
    BY <1>1, <2>2, <2>3, <2>4, <2>5, <2>6 DEF Next, ParserStep
<1>2. CASE UNCHANGED vars
  <2>1. UNCHANGED <<INTERACTIVE, BusConfigs, Inst_Bus_Config, configStatus, ToAuxPlayList,
                    AuxToAuxPlayList, ToOutPlayList, parserPc, call, default, visited, todo,
                    rev, pending, sinks, auxP, calls, started, playing, audioPc, qStatus,
                    playBus, walk, accepted, refused>>
    BY <1>2 DEF vars, graph, playlists, locals, notes, audio, history
  <2>2. TypeOK'
    BY <2>1 DEF ListInv, Typed, TypeOK
  <2>3. Flat'
    BY <2>1, FlatSame DEF ListInv
  <2>4. Ordered'
    BY <2>1 DEF ListInv, Ordered, Ordering, Written, Unwritten
  <2>5. ~Ordering' => Solid(AuxToAuxPlayList)'
    BY <2>1 DEF ListInv, Ordering, Solid
  <2> QED
    BY <2>1, <2>2, <2>3, <2>4, <2>5 DEF ListInv, Typed
<1> QED
  BY <1>1, <1>2

\* No list of a bus's inputs and no playlist is written beyond its busCount
\* entries, and every entry is a bus (bus_config, insert_bus_slot, create_play_order).
THEOREM ListsAreInBounds == Spec => []TypeOK
<1>1. Init => ListInv /\ SoundInv
  BY InitLists, InitSound
<1>2. ListInv /\ SoundInv /\ [Next]_vars => (ListInv /\ SoundInv)'
  <2>1. SoundInv => INTERACTIVE \in DOMAIN ModeSlots
    BY DEF SoundInv, Types
  <2> QED
    BY <2>1, NextLists, NextSound
<1>3. ListInv => TypeOK
  BY DEF ListInv, Typed
<1> QED
  BY <1>1, <1>2, <1>3, PTL DEF Spec

-----------------------------------------------------------------------------
(* The walk.                                                               *)

\* Either thread leaves what belongs to the other alone; a score that is done is
\* not read any further.
LEMMA OneThread ==
  ASSUME [Next]_vars
  PROVE  /\ UNCHANGED INTERACTIVE
         /\ \/ AudioStep /\ UNCHANGED <<graph, playlists, parserPc, locals, calls, history>>
            \/ /\ UNCHANGED <<audioPc, qStatus, playBus, walk, playing>>
               /\ parserPc = "done" => UNCHANGED <<graph, playlists, parserPc, history>>
<1> USE DEF graph, playlists, locals, history, notes, audio
<1>1. UNCHANGED INTERACTIVE
  BY DEF Next, vars
<1>2. CASE UNCHANGED vars
  BY <1>1, <1>2 DEF vars
<1>3. CASE AudioStep
  <2>1. UNCHANGED <<graph, playlists, parserPc, locals, calls, history>>
    BY <1>3 DEF AudioStep, BeginSlice, PlayBus, NextClass, EndSlice
  <2> QED
    BY <1>1, <1>3, <2>1
<1>4. CASE ParserStep
  <2>1. parserPc # "done"
    BY <1>4 DEF ParserStep, BusConfig, DefaultConfig, StartNote, MixedOutputs, CheckDefault,
         CheckStep, LoopFound, Insert, WriteEntry, NextSink, TraverseStep, TraverseDone,
         ClearRest, ScoreEnds
  <2>2. UNCHANGED <<audioPc, qStatus, playBus, walk, playing>>
    <3>1. CASE \E n \in Names, s \in ModeSlots[INTERACTIVE] : BusConfig(n, s)
      BY <3>1 DEF BusConfig
    <3>2. CASE (\E n \in Names : DefaultConfig(n) \/ StartNote(n)) \/ ScoreEnds
      BY <3>2 DEF DefaultConfig, StartNote, ScoreEnds
    <3>3. CASE \E s \in ModeSlots[INTERACTIVE] : MixedOutputs(s)
      BY <3>3 DEF MixedOutputs
    <3>4. CASE CheckDefault \/ CheckStep \/ LoopFound \/ Insert
      BY <3>4 DEF CheckDefault, CheckStep, LoopFound, Insert
    <3>5. CASE WriteEntry \/ NextSink \/ TraverseStep \/ TraverseDone \/ ClearRest
      BY <3>5 DEF WriteEntry, NextSink, TraverseStep, TraverseDone, ClearRest
    <3> QED
      BY <1>4, <3>1, <3>2, <3>3, <3>4, <3>5 DEF ParserStep
  <2> QED
    BY <1>1, <2>1, <2>2
<1> QED
  BY <1>1, <1>2, <1>3, <1>4 DEF Next

LEMMA CurrentIsList == qStatus \in Classes => CurrentList = ListOf(qStatus)
BY DEF CurrentList, ListOf, Classes

\* One queue is visited.
LEMMA PlayFacts ==
  ASSUME TypeOK, PlayBus, NEW b, b = ListOf(qStatus)[playBus]
  PROVE  /\ playBus \in Buses /\ b \in Buses /\ walk' = Append(walk, <<qStatus, b>>)
         /\ Len(walk) \in Nat /\ DOMAIN walk = 1 .. Len(walk) /\ DOMAIN walk' = 1 .. Len(walk) + 1
         /\ \A n \in 1 .. Len(walk) : walk'[n] = walk[n]
         /\ walk'[Len(walk) + 1] = <<qStatus, b>>
         /\ ToSet(walk') = ToSet(walk) \cup {<<qStatus, b>>}
         /\ audioPc = "walk" /\ playBus' = playBus + 1 /\ UNCHANGED <<audioPc, qStatus>>
<1>1. /\ playBus \in Buses /\ qStatus \in Classes /\ CurrentList[playBus] # -1
      /\ walk' = Append(walk, <<qStatus, CurrentList[playBus]>>)
      /\ audioPc = "walk" /\ playBus' = playBus + 1 /\ UNCHANGED <<audioPc, qStatus>>
  BY BusesFinite DEF PlayBus, TypeOK, Buses
<1>2. CurrentList = ListOf(qStatus) /\ ListOf(qStatus) \in PlaylistType
  BY <1>1, CurrentIsList DEF ListOf, TypeOK
<1>3. b \in Buses /\ walk' = Append(walk, <<qStatus, b>>)
  BY <1>1, <1>2 DEF PlaylistType
<1> DEFINE e == <<qStatus, b>>
           T == Classes \X Buses
<1>4. walk \in Seq(T) /\ e \in T /\ walk' = Append(walk, e)
  BY <1>1, <1>3 DEF TypeOK
<1> HIDE DEF e, T
<1>5. /\ Len(walk) \in Nat /\ DOMAIN walk = 1 .. Len(walk) /\ DOMAIN walk' = 1 .. Len(walk) + 1
      /\ \A n \in 1 .. Len(walk) : walk'[n] = walk[n]
      /\ walk'[Len(walk) + 1] = e
  BY <1>4
<1>6. ToSet(walk') = ToSet(walk) \cup {e}
  <2>1. ToSet(walk') \subseteq ToSet(walk) \cup {e}
    BY <1>5 DEF ToSet
  <2>2. ToSet(walk) \subseteq ToSet(walk') /\ e \in ToSet(walk')
    BY <1>5 DEF ToSet
  <2> QED
    BY <2>1, <2>2
<1> QED
  BY <1>1, <1>3, <1>5, <1>6 DEF e

LEMMA InitWalk == Init => WalkInv
BY DEF Init, WalkInv, ScoreIsRead, ByClass, Along

LEMMA AudioWalk ==
  ASSUME TypeOK, WalkInv, AudioStep,
         UNCHANGED <<INTERACTIVE, graph, playlists, parserPc, locals, calls, history>>
  PROVE  WalkInv'
<1> USE DEF WalkInv
<1>1. UNCHANGED <<INTERACTIVE, ToAuxPlayList, AuxToAuxPlayList, ToOutPlayList, parserPc>>
  BY DEF playlists
<1>2. \A c : ListOf(c)' = ListOf(c)
  BY <1>1 DEF ListOf
<1>3. CASE BeginSlice
  <2>1. walk' = <<>> /\ (INTERACTIVE \/ parserPc = "done")
    BY <1>3 DEF BeginSlice
  <2> QED
    BY <1>1, <2>1 DEF ScoreIsRead, ByClass, Along
<1>4. CASE PlayBus
  <2> DEFINE b == ListOf(qStatus)[playBus]
             N == Len(walk)
  <2>1. /\ playBus \in Buses /\ b \in Buses
        /\ N \in Nat /\ DOMAIN walk = 1 .. N /\ DOMAIN walk' = 1 .. N + 1
        /\ \A n \in 1 .. N : walk'[n] = walk[n]
        /\ walk'[N + 1] = <<qStatus, b>>
        /\ audioPc = "walk" /\ playBus' = playBus + 1 /\ UNCHANGED <<audioPc, qStatus>>
    BY <1>4, PlayFacts
  <2>2. ListOf(qStatus)[playBus] = b
    OBVIOUS
  <2> HIDE DEF b, N
  <2>3. ScoreIsRead'
    BY <1>1, <2>1 DEF ScoreIsRead
  <2>4. \A n \in DOMAIN walk' : n \in 1 .. N \/ n = N + 1
    BY <2>1
  <2>5. \A n \in 1 .. N : n \in DOMAIN walk /\ n < N + 1
    BY <2>1
  <2>6. ByClass'
    <3>1. ASSUME NEW n \in DOMAIN walk'
          PROVE  walk'[n][1] \in Earlier(qStatus') \cup {qStatus'}
      BY <2>1, <2>4 DEF ByClass
    <3>2. ASSUME NEW m \in DOMAIN walk', NEW n \in DOMAIN walk', m < n
          PROVE  walk'[m][1] \in Earlier(walk'[n][1]) \cup {walk'[n][1]}
      <4>1. m \in 1 .. N
        BY <2>1, <2>4, <3>2
      <4>2. CASE n \in 1 .. N
        BY <2>1, <3>2, <4>1, <4>2 DEF ByClass
      <4>3. CASE n = N + 1
        BY <2>1, <4>1, <4>3 DEF ByClass
      <4> QED
        BY <2>4, <4>2, <4>3
    <3> QED
      BY <3>1, <3>2 DEF ByClass
  <2>7. ASSUME ~INTERACTIVE, NEW n \in DOMAIN walk', walk'[n][1] = qStatus
        PROVE  \E k \in Buses : k < playBus' /\ ListOf(qStatus)[k] = walk'[n][2]
    <3>0. playBus \in Nat
      BY <2>1, BusesFinite
    <3>1. CASE n \in 1 .. N
      <4>1. PICK k \in Buses : k < playBus /\ ListOf(qStatus)[k] = walk[n][2]
        BY <2>1, <2>7, <3>1 DEF Along
      <4>2. k \in Nat /\ k < playBus'
        BY <2>1, <3>0, <4>1, BusesFinite
      <4> QED
        BY <2>1, <3>1, <4>1, <4>2
    <3>2. CASE n = N + 1
      BY <2>1, <2>2, <3>0, <3>2
    <3> QED
      BY <2>4, <3>1, <3>2
  <2>8. ASSUME ~INTERACTIVE, NEW m \in DOMAIN walk', NEW n \in DOMAIN walk', m < n,
               walk'[m][1] = walk'[n][1]
        PROVE  \E j, k \in Buses : j < k /\ ListOf(walk'[m][1])[j] = walk'[m][2]
                                         /\ ListOf(walk'[n][1])[k] = walk'[n][2]
    <3>1. m \in 1 .. N
      BY <2>1, <2>4, <2>8
    <3>2. CASE n \in 1 .. N
      BY <2>1, <2>8, <3>1, <3>2 DEF Along
    <3>3. CASE n = N + 1
      <4>1. walk'[m] = walk[m] /\ walk[m][1] = qStatus /\ walk'[n][1] = qStatus
            /\ walk'[n][2] = b
        BY <2>1, <2>8, <3>1, <3>3
      <4>2. PICK j \in Buses : j < playBus /\ ListOf(qStatus)[j] = walk[m][2]
        BY <2>1, <2>8, <3>1, <4>1 DEF Along
      <4> QED
        BY <2>1, <2>2, <4>1, <4>2
    <3> QED
      BY <2>4, <3>2, <3>3
  <2>9. Along'
    BY <1>1, <1>2, <2>1, <2>7, <2>8 DEF Along
  <2> QED
    BY <2>3, <2>6, <2>9
<1>5. CASE NextClass
  <2>1. /\ audioPc = "walk" /\ UNCHANGED walk
        /\ qStatus' = IF qStatus = "TO_AUX" THEN "AUX_TO_AUX" ELSE "TO_OUT"
        /\ audioPc' = IF qStatus = "TO_OUT" THEN "send" ELSE "walk"
    BY <1>5 DEF NextClass
  <2>2. ScoreIsRead'
    BY <1>1, <2>1 DEF ScoreIsRead
  <2>3. /\ Earlier(qStatus) \cup {qStatus} \subseteq Earlier(qStatus') \cup {qStatus'}
        /\ audioPc' = "walk" => qStatus' \notin Earlier(qStatus) \cup {qStatus}
    BY <2>1 DEF Earlier, TypeOK, Classes
  <2>4. ByClass'
    BY <2>1, <2>3 DEF ByClass
  <2>5. Along'
    BY <1>1, <1>2, <2>1, <2>3 DEF Along, ByClass
  <2> QED
    BY <2>2, <2>4, <2>5
<1>6. CASE EndSlice
  <2>1. audioPc = "send" /\ audioPc' = "idle" /\ UNCHANGED <<qStatus, playBus, walk>>
    BY <1>6 DEF EndSlice
  <2> QED
    BY <1>1, <1>2, <2>1 DEF ScoreIsRead, ByClass, Along
<1> QED
  BY <1>3, <1>4, <1>5, <1>6 DEF AudioStep

LEMMA NextWalk ==
  ASSUME TypeOK, WalkInv, [Next]_vars
  PROVE  WalkInv'
<1> USE DEF WalkInv
<1>1. UNCHANGED INTERACTIVE
  BY OneThread
<1>2. CASE AudioStep /\ UNCHANGED <<graph, playlists, parserPc, locals, calls, history>>
  BY <1>1, <1>2, AudioWalk
<1>3. CASE /\ UNCHANGED <<audioPc, qStatus, playBus, walk, playing>>
           /\ parserPc = "done" => UNCHANGED <<graph, playlists, parserPc, history>>
  <2>1. ByClass'
    BY <1>3 DEF ByClass
  <2>2. ScoreIsRead'
    BY <1>1, <1>3 DEF ScoreIsRead
  <2>3. CASE parserPc = "done"
    <3>1. \A c : ListOf(c)' = ListOf(c)
      BY <1>3, <2>3 DEF ListOf, playlists
    <3> QED
      BY <1>1, <1>3, <2>1, <2>2, <3>1 DEF Along
  <2>4. CASE parserPc # "done"
    <3>1. INTERACTIVE \/ walk = <<>>
      BY <2>4 DEF ScoreIsRead
    <3> QED
      BY <1>1, <1>3, <2>1, <2>2, <3>1 DEF Along
  <2> QED
    BY <2>3, <2>4
<1> QED
  BY <1>2, <1>3, OneThread

\* In a score no queue is visited twice in a slice: its notes would run twice
\* (inTraverse, create_play_order).
THEOREM NoQueueIsPlayedTwice == Spec => []NoBusPlayedTwice
<1>1. ListInv /\ WalkInv => NoBusPlayedTwice
  <2> SUFFICES ASSUME ListInv, WalkInv, ~INTERACTIVE,
                      NEW m \in DOMAIN walk, NEW n \in DOMAIN walk, walk[m] = walk[n],
                      m < n
               PROVE  FALSE
    <3>1. walk \in Seq(Classes \X Buses) => DOMAIN walk \subseteq Nat
      OBVIOUS
    <3>2. ListInv => DOMAIN walk \subseteq Nat
      BY <3>1 DEF ListInv, Typed, TypeOK
    <3>3. \A m, n \in Nat : m < n \/ n < m \/ m = n
      OBVIOUS
    <3> QED
      BY <3>2, <3>3 DEF NoBusPlayedTwice, IsInjective
  <2> USE DEF ListInv, Typed
  <2>1. walk[n] \in Classes \X Buses
    <3> DEFINE T == Classes \X Buses
    <3>1. walk \in Seq(T)
      BY DEF TypeOK
    <3> HIDE DEF T
    <3>2. walk[n] \in T
      BY <3>1
    <3> QED
      BY <3>2 DEF T
  <2>2. PICK c \in Classes : c = walk[m][1] /\ c = walk[n][1]
    BY <2>1
  <2>3. PICK j, k \in Buses : j < k /\ ListOf(c)[j] = walk[m][2] /\ ListOf(c)[k] = walk[n][2]
    BY <2>2 DEF WalkInv, Along
  <2>4. parserPc = "done"
    BY DEF WalkInv, ScoreIsRead
  <2>5. Solid(ListOf(c))
    BY <2>4, ScannedSolid DEF ListOf, Flat, Ordering, TypeOK
  <2>6. walk[n][2] # -1
    BY <2>1, BusesFinite
  <2> QED
    BY <2>3, <2>5, <2>6 DEF Solid
<1>2. Init => ListInv /\ SoundInv /\ WalkInv
  BY InitLists, InitSound, InitWalk
<1>3. ListInv /\ SoundInv /\ WalkInv /\ [Next]_vars => (ListInv /\ SoundInv /\ WalkInv)'
  <2>1. SoundInv => INTERACTIVE \in DOMAIN ModeSlots
    BY DEF SoundInv, Types
  <2>2. ListInv => TypeOK
    BY DEF ListInv, Typed
  <2> QED
    BY <2>1, <2>2, NextLists, NextSound, NextWalk
<1> QED
  BY <1>1, <1>2, <1>3, PTL DEF Spec

-----------------------------------------------------------------------------
(* The end of the lists.                                                   *)

\* All but insert_bus_slot leave the graph of aux buses alone; an aux output is
\* flagged for a slot of the score.
GraphKept ==
  /\ UNCHANGED accepted
  /\ \A b \in Buses : /\ BusConfigs'[b].hasParent <=> BusConfigs[b].hasParent
                      /\ BusConfigs'[b].hasChild <=> BusConfigs[b].hasChild
                      /\ BusConfigs'[b].auxInUse <=> BusConfigs[b].auxInUse
                      /\ BusConfigs'[b].inConfig = BusConfigs[b].inConfig
AuxOutsOfSlots ==
  \A b \in Buses : BusConfigs'[b].auxOutInUse =>
    BusConfigs[b].auxOutInUse \/ \E s \in Slots : b \in ToSet(s.auxout)

LEMMA FlaggedGraph ==
  ASSUME NEW configs \in [Buses -> BusConfigType], NEW s, BusConfigs' = Flagged(configs, s),
         UNCHANGED accepted,
         \A b \in ToSet(s.auxout) : \E r \in Slots : b \in ToSet(r.auxout),
         \A b \in Buses :
           /\ configs[b].hasParent <=> BusConfigs[b].hasParent
           /\ configs[b].hasChild <=> BusConfigs[b].hasChild
           /\ configs[b].auxInUse <=> BusConfigs[b].auxInUse
           /\ configs[b].inConfig = BusConfigs[b].inConfig
           /\ configs[b].auxOutInUse <=> BusConfigs[b].auxOutInUse
  PROVE  GraphKept /\ AuxOutsOfSlots
<1>1. ASSUME NEW b \in Buses, NEW c, c = BusConfigs'[b]
      PROVE  /\ c.auxOutInUse <=> configs[b].auxOutInUse \/ b \in ToSet(s.auxout)
             /\ c.inConfig = configs[b].inConfig
             /\ c.hasParent <=> configs[b].hasParent
             /\ c.hasChild <=> configs[b].hasChild
             /\ c.auxInUse <=> configs[b].auxInUse
  BY <1>1, FlaggedFlags
<1>2. GraphKept
  BY <1>1 DEF GraphKept
<1>3. AuxOutsOfSlots
  BY <1>1 DEF AuxOutsOfSlots
<1> QED
  BY <1>2, <1>3

LEMMA GraphStep ==
  ASSUME TypeOK, INTERACTIVE \in DOMAIN ModeSlots, [Next]_vars
  PROVE  (Insert \/ GraphKept) /\ AuxOutsOfSlots
<1> USE DEF graph, history
<1>1. BusConfigs \in [Buses -> BusConfigType]
  BY DEF TypeOK
<1>2. UNCHANGED <<BusConfigs, accepted>> => GraphKept /\ AuxOutsOfSlots
  BY DEF GraphKept, AuxOutsOfSlots
<1>3. CASE \E n \in Names, s \in ModeSlots[INTERACTIVE] : BusConfig(n, s)
  <2>1. PICK n \in Names, s \in ModeSlots[INTERACTIVE] : BusConfig(n, s)
    BY <1>3
  <2>2. s \in Slots
    BY ModeSlotsAreSlots
  <2>3. BusConfigs' = Flagged(BusConfigs, s) /\ UNCHANGED accepted
    BY <2>1 DEF BusConfig, BeginCheck
  <2> QED
    BY <1>1, <2>2, <2>3, FlaggedGraph
<1>4. CASE \E n \in Names : DefaultConfig(n)
  <2>1. PICK n \in Names : DefaultConfig(n)
    BY <1>4
  <2> DEFINE clean == IF configStatus THEN BusConfigs
                      ELSE [b \in Buses |-> [BusConfigs[b] EXCEPT !.outInUse = FALSE]]
  <2>2. BusConfigs' = Flagged(clean, DefaultSlot) /\ UNCHANGED accepted
    BY <2>1 DEF DefaultConfig
  <2>3. ASSUME NEW b \in Buses
        PROVE  /\ clean[b] \in BusConfigType
               /\ clean[b].hasParent <=> BusConfigs[b].hasParent
               /\ clean[b].hasChild <=> BusConfigs[b].hasChild
               /\ clean[b].auxInUse <=> BusConfigs[b].auxInUse
               /\ clean[b].inConfig = BusConfigs[b].inConfig
               /\ clean[b].auxOutInUse <=> BusConfigs[b].auxOutInUse
    <3>1. BusConfigs[b] \in BusConfigType
      BY <1>1
    <3> QED
      BY <3>1 DEF BusConfigType
  <2>4. clean \in [Buses -> BusConfigType]
    BY <1>1, <2>3
  <2>5. ToSet(DefaultSlot.auxout) = {}
    BY DefaultHasNoEdges DEF ToSet
  <2> HIDE DEF clean
  <2> QED
    BY <2>2, <2>3, <2>4, <2>5, FlaggedGraph
<1>5. CASE \E s \in ModeSlots[INTERACTIVE] : MixedOutputs(s)
  <2>1. PICK s \in ModeSlots[INTERACTIVE] : MixedOutputs(s)
    BY <1>5
  <2>2. PICK first \in {[s EXCEPT !.out = <<>>], [s EXCEPT !.auxout = <<>>]} :
          BusConfigs' = Flagged(BusConfigs, first)
    BY <2>1 DEF MixedOutputs
  <2>3. s \in Slots /\ DOMAIN s = {"auxin", "auxout", "out"} /\ UNCHANGED accepted
    BY <2>1, ModeSlotsAreSlots, SlotAssumption DEF MixedOutputs
  <2>4. first.auxout = s.auxout \/ first.auxout = <<>>
    BY <2>3
  <2>5. \A b \in ToSet(first.auxout) : \E r \in Slots : b \in ToSet(r.auxout)
    BY <2>3, <2>4 DEF ToSet
  <2> QED
    BY <1>1, <2>2, <2>3, <2>5, FlaggedGraph
<1>6. CASE CheckDefault
  BY <1>2, <1>6 DEF CheckDefault, BeginCheck
<1>7. CASE CheckStep \/ LoopFound \/ WriteEntry \/ NextSink \/ TraverseStep \/ TraverseDone
  BY <1>2, <1>7 DEF CheckStep, LoopFound, WriteEntry, NextSink, TraverseStep, TraverseDone
<1>8. CASE ClearRest \/ (\E n \in Names : StartNote(n)) \/ ScoreEnds \/ AudioStep
  BY <1>2, <1>8 DEF ClearRest, StartNote, ScoreEnds, AudioStep, BeginSlice, PlayBus,
       NextClass, EndSlice
<1>9. CASE Insert
  <2>1. BusConfigs' = Connected(BusConfigs, call.slot)
    BY <1>9 DEF Insert
  <2> QED
    BY <1>1, <1>9, <2>1, ConnectedFlags DEF AuxOutsOfSlots
<1>10. CASE UNCHANGED vars
  BY <1>2, <1>10 DEF vars
<1> QED
  BY <1>3, <1>4, <1>5, <1>6, <1>7, <1>8, <1>9, <1>10 DEF Next, ParserStep

\* Who writes the third list.
LEMMA ThirdListStep ==
  ASSUME [Next]_vars
  PROVE  \/ UNCHANGED AuxToAuxPlayList \/ WriteEntry \/ ClearRest
         \/ AuxToAuxPlayList' = Playlist(<<>>) /\ ~configStatus
<1> USE DEF playlists
<1>1. CASE \E n \in Names : DefaultConfig(n)
  <2>1. PICK n \in Names : DefaultConfig(n)
    BY <1>1
  <2> DEFINE lists == IF configStatus THEN playlists
                      ELSE <<Playlist(<<>>), Playlist(<<>>), Playlist(<<>>)>>
  <2>2. AuxToAuxPlayList' = lists[2]
    BY <2>1 DEF DefaultConfig
  <2> QED
    BY <2>2
<1>2. CASE (\E n \in Names, s \in ModeSlots[INTERACTIVE] : BusConfig(n, s)) \/ CheckDefault
  BY <1>2 DEF BusConfig, CheckDefault
<1>3. CASE \E s \in ModeSlots[INTERACTIVE] : MixedOutputs(s)
  BY <1>3 DEF MixedOutputs
<1>4. CASE CheckStep \/ LoopFound \/ Insert \/ NextSink \/ TraverseStep \/ TraverseDone
  BY <1>4 DEF CheckStep, LoopFound, Insert, NextSink, TraverseStep, TraverseDone
<1>5. CASE (\E n \in Names : StartNote(n)) \/ ScoreEnds \/ AudioStep
  BY <1>5 DEF StartNote, ScoreEnds, AudioStep, BeginSlice, PlayBus, NextClass, EndSlice
<1>6. CASE UNCHANGED vars
  BY <1>6 DEF vars
<1> QED
  BY <1>1, <1>2, <1>3, <1>4, <1>5, <1>6 DEF Next, ParserStep

\* The bus spare is in no list, and the last entry of the third is free.
Unused(spare) ==
  /\ ~BusConfigs[spare].auxOutInUse /\ ~BusConfigs[spare].auxInUse
  /\ \A b \in Buses : BusConfigs[b].hasParent => BusConfigs[b].auxInUse
LastFree == AuxToAuxPlayList[BusCount - 1] = -1
SpareInv(spare) == Unused(spare) /\ LastFree /\ WalkStaysInList

LEMMA LastIsFree ==
  ASSUME NEW list \in PlaylistType, Scanned(list), NEW spare \in Buses,
         spare \notin Contents(list)
  PROVE  list[BusCount - 1] = -1
<1>1. SUFFICES ASSUME list[BusCount - 1] # -1 PROVE FALSE
  OBVIOUS
<1>2. /\ BusCount \in Nat /\ BusCount - 1 \in Buses
      /\ IsFiniteSet(Buses) /\ Cardinality(Buses) = BusCount
  BY BusesFinite DEF Buses
<1>3. PICK S \in SUBSET Buses : S = Contents(list)
  BY DEF Contents, PlaylistType
<1>4. /\ list[BusCount - 1] \in S
      /\ Cardinality(Below(S, list[BusCount - 1])) = BusCount - 1
  BY <1>1, <1>2, <1>3 DEF Contents, Scanned
<1>5. BusCount - 1 \in 0 .. Cardinality(S) - 1
  BY <1>4, RanksOnto
<1>6. Cardinality(S) = BusCount
  BY <1>2, <1>5, SubsetCounts
<1>7. S = Buses
  BY <1>2, <1>6, FS_Subset
<1> QED
  BY <1>3, <1>7

LEMMA ListsEnd ==
  ASSUME ListInv, NCHANS < BusCount, NEW spare \in Buses, Unused(spare), LastFree,
         NEW c \in Classes
  PROVE  ListOf(c)[BusCount - 1] = -1
<1> USE DEF ListInv, Typed
<1>1. ToAuxPlayList[BusCount - 1] = -1
  <2>1. spare \notin Contents(ToAuxPlayList)
    BY DEF Flat, Unused
  <2> QED
    BY <2>1, LastIsFree DEF TypeOK, Flat
<1>2. ToOutPlayList[BusCount - 1] = -1
  <2>1. /\ BusCount \in Nat /\ NCHANS \in Nat /\ BusCount - 1 \in Buses
    BY BusCountAssumption, BusesFinite DEF Buses
  <2>2. BusCount - 1 \notin Contents(ToOutPlayList)
    <3>1. BusConfigs[BusCount - 1].outInUse => BusCount - 1 < NCHANS
      BY <2>1 DEF Flat
    <3>2. ~(BusCount - 1 < NCHANS)
      BY <2>1
    <3> QED
      BY <3>1, <3>2 DEF Flat
  <2> QED
    BY <2>1, <2>2, LastIsFree DEF TypeOK, Flat
<1> QED
  BY <1>1, <1>2 DEF ListOf, LastFree

LEMMA NextSpare ==
  ASSUME ListInv, INTERACTIVE \in DOMAIN ModeSlots, [Next]_vars,
         NCHANS < BusCount, NEW spare \in Buses,
         \A s \in Slots : spare \notin ToSet(s.auxin) \cup ToSet(s.auxout),
         SpareInv(spare)
  PROVE  SpareInv(spare)'
<1> USE DEF ListInv, Typed, SpareInv
<1>1. BusCount \in Nat /\ BusCount >= 1 /\ BusCount - 1 \in Buses /\ Buses = 0 .. BusCount - 1
  BY BusesFinite DEF Buses
<1>2. AuxOutsOfSlots /\ (Insert \/ GraphKept)
  BY GraphStep
<1>3. Unused(spare)'
  <2>1. ~BusConfigs'[spare].auxOutInUse
    BY <1>2 DEF AuxOutsOfSlots, Unused
  <2>2. CASE GraphKept
    BY <2>1, <2>2 DEF GraphKept, Unused
  <2>3. CASE Insert
    <3> DEFINE s == call.slot
    <3>1. BusConfigs' = Connected(BusConfigs, s) /\ parserPc = "check"
      BY <2>3 DEF Insert
    <3>2. s \in Slots \cup {DefaultSlot} /\ BusConfigs \in [Buses -> BusConfigType]
      BY <3>1 DEF CallType, TypeOK
    <3>3. spare \notin ToSet(s.auxin) /\ spare \notin ToSet(s.auxout)
      <4>1. ToSet(DefaultSlot.auxin) = {} /\ ToSet(DefaultSlot.auxout) = {}
        BY DefaultHasNoEdges DEF ToSet
      <4> QED
        BY <3>2, <4>1
    <3> HIDE DEF s
    <3>4. ASSUME NEW b \in Buses
          PROVE  /\ BusConfigs'[b].hasParent <=>
                      BusConfigs[b].hasParent \/ (b \in ToSet(s.auxout) /\ s.auxin # <<>>)
                 /\ BusConfigs'[b].auxInUse <=>
                      \/ BusConfigs[b].auxInUse \/ b \in ToSet(s.auxout)
                      \/ b \in ToSet(s.auxin) /\ s.auxout # <<>>
      BY <3>1, <3>2, ConnectedFlags
    <3> QED
      BY <2>1, <3>3, <3>4 DEF Unused
  <2> QED
    BY <1>2, <2>2, <2>3
<1>4. LastFree'
  <2>1. CASE UNCHANGED AuxToAuxPlayList
    BY <2>1 DEF LastFree
  <2>2. CASE AuxToAuxPlayList' = Playlist(<<>>)
    BY <1>1, <2>2, EmptyList DEF LastFree
  <2>3. CASE ClearRest
    BY <1>1, <2>3 DEF ClearRest, LastFree
  <2>4. CASE WriteEntry
    <3> DEFINE b == Head(pending)
               U == Buses \ {spare}
    <3>1. /\ parserPc = "write" /\ AuxToAuxPlayList' = [AuxToAuxPlayList EXCEPT ![auxP] = b]
          /\ AuxToAuxPlayList \in PlaylistType /\ auxP \in Nat
      BY <2>4, <1>1 DEF WriteEntry, TypeOK
    <3>2. b \in Buses /\ b \notin Written /\ ToSet(pending) = {b} \cup ToSet(pending')
      BY <2>4, WriteFacts
    <3>3. Written \cup ToSet(pending) \subseteq U
      <4>1. Written \cup ToSet(pending) =
              Parents(BusConfigs) \cup {c \in visited : BusConfigs[c].hasParent}
        BY <3>1 DEF Ordered, Ordering, Unwritten
      <4>2. visited \subseteq Buses
        BY DEF TypeOK
      <4> QED
        BY <4>1, <4>2 DEF Parents, Unused
    <3>4. \A m, n \in 0 .. auxP - 1 : AuxToAuxPlayList[m] = AuxToAuxPlayList[n] => m = n
      BY <3>1 DEF Ordered, Ordering
    <3>5. auxP < Cardinality(U)
      <4>1. U \subseteq Buses /\ Written \subseteq U /\ b \in U
        BY <3>2, <3>3
      <4> HIDE DEF U, b
      <4> QED
        BY <3>1, <3>2, <3>4, <4>1, Room
    <3>6. Cardinality(U) = BusCount - 1
      BY BusesFinite, FS_RemoveElement
    <3>7. BusCount - 1 # auxP
      BY <1>1, <3>1, <3>5, <3>6
    <3> QED
      BY <1>1, <3>1, <3>7 DEF LastFree, PlaylistType
  <2> QED
    BY <2>1, <2>2, <2>3, <2>4, ThirdListStep
<1>5. WalkStaysInList'
  <2>1. CASE UNCHANGED <<audioPc, playBus>>
    BY <2>1 DEF WalkStaysInList
  <2>2. CASE BeginSlice \/ NextClass
    BY <1>1, <2>2 DEF BeginSlice, NextClass, WalkStaysInList
  <2>3. CASE EndSlice
    BY <2>3 DEF EndSlice, WalkStaysInList
  <2>4. CASE PlayBus
    <3>1. /\ playBus \in Buses /\ playBus' = playBus + 1
          /\ ListOf(qStatus)[playBus] \in Buses /\ qStatus \in Classes
      BY <2>4, PlayFacts DEF TypeOK
    <3>2. ListOf(qStatus)[BusCount - 1] = -1
      BY <3>1, ListsEnd
    <3>3. playBus # BusCount - 1
      BY <3>1, <3>2, BusesFinite
    <3> QED
      BY <1>1, <3>1, <3>3 DEF WalkStaysInList
  <2> QED
    BY <2>1, <2>2, <2>3, <2>4, OneThread DEF AudioStep
<1> QED
  BY <1>3, <1>4, <1>5

LEMMA InitSpare ==
  ASSUME NEW spare \in Buses, Init
  PROVE  SpareInv(spare)
<1>1. \A b \in Buses : BusConfigs[b] = NoBus
  BY DEF Init
<1>2. ~NoBus.auxOutInUse /\ ~NoBus.auxInUse /\ ~NoBus.hasParent
  BY DEF NoBus
<1>3. BusCount - 1 \in Buses /\ AuxToAuxPlayList = Playlist(<<>>) /\ audioPc = "idle"
  BY BusesFinite DEF Init, Buses
<1> QED
  BY <1>1, <1>2, <1>3, EmptyList DEF SpareInv, Unused, LastFree, WalkStaysInList

\* The walk never runs off a list (inTraverse: assert(play_bus < busCount)), provided
\* that one bus is no output and one is in no instrument's aux buses.
THEOREM WalkStaysInBounds ==
  ASSUME NCHANS < BusCount, NEW spare \in Buses,
         \A s \in Slots : spare \notin ToSet(s.auxin) \cup ToSet(s.auxout)
  PROVE  Spec => []WalkStaysInList
<1>1. Init => ListInv /\ SoundInv /\ SpareInv(spare)
  BY InitLists, InitSound, InitSpare
<1>2. ListInv /\ SoundInv /\ SpareInv(spare) /\ [Next]_vars
        => (ListInv /\ SoundInv /\ SpareInv(spare))'
  <2>1. SoundInv => INTERACTIVE \in DOMAIN ModeSlots
    BY DEF SoundInv, Types
  <2> QED
    BY <2>1, NextLists, NextSound, NextSpare
<1>3. SpareInv(spare) => WalkStaysInList
  BY DEF SpareInv
<1> QED
  BY <1>1, <1>2, <1>3, PTL DEF Spec

-----------------------------------------------------------------------------
(* Accepted slots are in the lists.                                        *)

\* The flat lists only grow, but for the first default configuration of all.
ListsGrow ==
  /\ Contents(ToAuxPlayList) \subseteq Contents(ToAuxPlayList)'
  /\ Contents(ToOutPlayList) \subseteq Contents(ToOutPlayList)'

LEMMA BeginCheckContents ==
  ASSUME NEW n, NEW s, NEW configs, BeginCheck(n, s, configs)
  PROVE  /\ Contents(ToOutPlayList)' = {b \in Buses : configs[b].outInUse}
         /\ Contents(ToAuxPlayList)' = {b \in Buses : configs[b].auxOutInUse}
<1> DEFINE O == {b \in Buses : configs[b].outInUse}
           A == {b \in Buses : configs[b].auxOutInUse}
<1>1. O \subseteq Buses /\ A \subseteq Buses
  OBVIOUS
<1>2. ToOutPlayList' = Playlist(Ascending(O)) /\ ToAuxPlayList' = Playlist(Ascending(A))
  BY DEF BeginCheck
<1> HIDE DEF O, A
<1>3. Contents(ToOutPlayList') = O /\ Contents(ToAuxPlayList') = A
  BY <1>1, <1>2, PlaylistFacts
<1> QED
  BY <1>3 DEF O, A

\* bus_config flags the slot's buses, and its lists hold them.
LEMMA BeginCheckListed ==
  ASSUME TypeOK, Flat, NEW n, NEW s \in Slots \cup {DefaultSlot}, NEW configs,
         BeginCheck(n, s, configs),
         \A b \in Buses :
           /\ BusConfigs[b].outInUse \/ b \in ToSet(s.out) => configs[b].outInUse
           /\ BusConfigs[b].auxOutInUse \/ b \in ToSet(s.auxout) => configs[b].auxOutInUse
  PROVE  ListsGrow /\ Listed(s)'
<1>1. /\ Contents(ToOutPlayList)' = {b \in Buses : configs[b].outInUse}
      /\ Contents(ToAuxPlayList)' = {b \in Buses : configs[b].auxOutInUse}
  BY BeginCheckContents
<1>2. Contents(ToAuxPlayList) \subseteq Buses /\ Contents(ToOutPlayList) \subseteq Buses
  BY DEF TypeOK, Contents, PlaylistType
<1>3. ListsGrow
  BY <1>1, <1>2 DEF ListsGrow, Flat
<1>4. ToSet(s.out) \subseteq Buses /\ ToSet(s.auxout) \subseteq Buses
  BY SlotOuts, SlotTypes
<1>5. Listed(s)'
  BY <1>1, <1>4 DEF Listed
<1> QED
  BY <1>3, <1>5

\* Listed slots stay listed.
LEMMA ListedKept ==
  ASSUME ListsGrow, NEW s, Listed(s)
  PROVE  Listed(s)'
BY DEF ListsGrow, Listed

LEMMA InitAccepting == Init => Accepting
BY DEF Init, Accepting

\* Steps that neither configure nor accept.
LEMMA AcceptingKept ==
  ASSUME Accepting,
         UNCHANGED <<BusConfigs, Inst_Bus_Config, configStatus, ToAuxPlayList,
                     ToOutPlayList, accepted>>,
         parserPc' \notin {"default", "check"} \/ UNCHANGED <<parserPc, call>>,
         started' \cup playing' \subseteq accepted
  PROVE  Accepting'
<1>1. \A s : Listed(s)' <=> Listed(s)
  BY DEF Listed, Contents
<1>2. parserPc' = "check" => Listed(call.slot)'
  BY <1>1 DEF Accepting
<1>3. parserPc' = "default" => \A c \in 0 .. NCHANS - 1 : BusConfigs'[c].outInUse
  BY DEF Accepting
<1>4. accepted' # {} \/ parserPc' \in {"default", "check"} => configStatus'
  BY DEF Accepting
<1>5. \A s \in accepted' : Listed(s)'
  BY <1>1 DEF Accepting
<1>6. \A n \in Names : Inst_Bus_Config'[n] \in accepted' \cup {NoSlot}
  BY DEF Accepting
<1> QED
  BY <1>2, <1>3, <1>4, <1>5, <1>6 DEF Accepting

LEMMA NextAccepting ==
  ASSUME ListInv, SoundInv, Accepting, [Next]_vars
  PROVE  Accepting' /\ (ListsGrow \/ accepted = {})
<1> USE DEF ListInv, Typed
<1>1. BusConfigs \in [Buses -> BusConfigType] /\ INTERACTIVE \in DOMAIN ModeSlots
  BY DEF TypeOK, SoundInv, Types
<1>2. UNCHANGED <<ToAuxPlayList, ToOutPlayList>> => ListsGrow
  BY DEF ListsGrow, Contents
<1>3. CASE \E n \in Names, s \in ModeSlots[INTERACTIVE] : BusConfig(n, s)
  <2>1. PICK n \in Names, s \in ModeSlots[INTERACTIVE] : BusConfig(n, s)
    BY <1>3
  <2>2. /\ BeginCheck(n, s, Flagged(BusConfigs, s))
        /\ UNCHANGED <<Inst_Bus_Config, started, playing, accepted>>
    BY <2>1 DEF BusConfig, notes
  <2>3. s \in Slots \cup {DefaultSlot}
    BY <1>1, ModeSlotsAreSlots
  <2>4. ASSUME NEW b \in Buses, NEW c, c = Flagged(BusConfigs, s)[b]
        PROVE  /\ c.outInUse <=> BusConfigs[b].outInUse \/ b \in ToSet(s.out)
               /\ c.auxOutInUse <=> BusConfigs[b].auxOutInUse \/ b \in ToSet(s.auxout)
    BY <1>1, <2>4, FlaggedFlags
  <2>5. PICK configs : configs = Flagged(BusConfigs, s)
    OBVIOUS
  <2>6. \A b \in Buses :
          /\ BusConfigs[b].outInUse \/ b \in ToSet(s.out) => configs[b].outInUse
          /\ BusConfigs[b].auxOutInUse \/ b \in ToSet(s.auxout) => configs[b].auxOutInUse
    BY <2>4, <2>5
  <2>7. BeginCheck(n, s, configs)
    BY <2>2, <2>5
  <2>8. ListsGrow /\ Listed(s)'
    BY <2>3, <2>6, <2>7, BeginCheckListed
  <2>9. configStatus' = TRUE /\ call' = [name |-> n, slot |-> s] /\ parserPc' = "check"
    BY <2>7 DEF BeginCheck
  <2>10. \A r \in accepted' : Listed(r)'
    BY <2>2, <2>8, ListedKept DEF Accepting
  <2>11. Accepting'
    BY <2>2, <2>8, <2>9, <2>10 DEF Accepting
  <2> QED
    BY <2>8, <2>11
<1>4. CASE CheckDefault
  <2>1. /\ BeginCheck(call.name, call.slot, BusConfigs) /\ parserPc = "default"
        /\ UNCHANGED <<Inst_Bus_Config, started, playing, accepted>>
    BY <1>4 DEF CheckDefault, notes, history
  <2>2. call.slot = DefaultSlot
    BY <2>1 DEF SoundInv, Types
  <2>3. /\ ToSet(call.slot.out) = 0 .. NCHANS - 1 /\ ToSet(call.slot.auxout) = {}
    BY <2>2, DefaultOuts, DefaultHasNoEdges DEF ToSet
  <2>4. \A b \in Buses :
          /\ BusConfigs[b].outInUse \/ b \in ToSet(call.slot.out) => BusConfigs[b].outInUse
          /\ BusConfigs[b].auxOutInUse \/ b \in ToSet(call.slot.auxout) => BusConfigs[b].auxOutInUse
    BY <2>1, <2>3 DEF Accepting
  <2>5. PICK s \in Slots \cup {DefaultSlot} : s = call.slot
    BY <2>2
  <2>6. ListsGrow /\ Listed(s)'
    BY <2>1, <2>4, <2>5, BeginCheckListed
  <2>7. configStatus' = TRUE /\ call'.slot = s /\ parserPc' = "check"
    BY <2>1, <2>5 DEF BeginCheck
  <2>8. \A r \in accepted' : Listed(r)'
    BY <2>1, <2>6, ListedKept DEF Accepting
  <2>9. Accepting'
    BY <2>1, <2>6, <2>7, <2>8 DEF Accepting
  <2> QED
    BY <2>6, <2>9
<1>5. CASE \E n \in Names : DefaultConfig(n)
  <2>1. PICK n \in Names : DefaultConfig(n)
    BY <1>5
  <2> DEFINE clean == IF configStatus THEN BusConfigs
                      ELSE [b \in Buses |-> [BusConfigs[b] EXCEPT !.outInUse = FALSE]]
             lists == IF configStatus THEN playlists
                      ELSE <<Playlist(<<>>), Playlist(<<>>), Playlist(<<>>)>>
  <2>2. /\ BusConfigs' = Flagged(clean, DefaultSlot)
        /\ ToAuxPlayList' = lists[1]
        /\ ToOutPlayList' = [b \in Buses |-> IF b < NCHANS THEN b ELSE lists[3][b]]
        /\ configStatus' = TRUE /\ parserPc' = "default"
        /\ UNCHANGED <<Inst_Bus_Config, started, playing, accepted>>
    BY <2>1 DEF DefaultConfig, notes, history
  <2>3. ASSUME NEW c \in 0 .. NCHANS - 1 PROVE BusConfigs'[c].outInUse
    <3>1. c \in Buses /\ c \in ToSet(DefaultSlot.out)
      BY SlotOuts, DefaultOuts
    <3>2. clean \in [Buses -> BusConfigType]
      BY <1>1 DEF BusConfigType
    <3> HIDE DEF clean
    <3> QED
      BY <2>2, <3>1, <3>2, FlaggedFlags
  <2>4. ListsGrow \/ accepted = {}
    <3>1. CASE ~configStatus
      BY <3>1 DEF Accepting
    <3>2. CASE configStatus
      <4>1. lists[1] = ToAuxPlayList /\ lists[3] = ToOutPlayList
        BY <3>2 DEF playlists
      <4> HIDE DEF lists, clean
      <4>2. ToOutPlayList' = [b \in Buses |-> IF b < NCHANS THEN b ELSE ToOutPlayList[b]]
        BY <2>2, <4>1
      <4>3. ToOutPlayList \in PlaylistType /\ Scanned(ToOutPlayList)
        BY DEF TypeOK, Flat
      <4>4. Contents(ToOutPlayList) \subseteq 0 .. NCHANS - 1
        <5>1. Contents(ToOutPlayList) \subseteq Buses /\ Buses \subseteq Nat /\ NCHANS \in Nat
          BY <4>3, BusesFinite, BusCountAssumption DEF Contents, PlaylistType
        <5>2. ASSUME NEW b \in Contents(ToOutPlayList) PROVE b \in 0 .. NCHANS - 1
          <6>1. b \in Nat /\ b < NCHANS
            BY <5>1 DEF Flat
          <6> QED
            BY <5>1, <6>1
        <5> QED
          BY <5>2
      <4>5. Contents(ToOutPlayList') = 0 .. NCHANS - 1
        BY <4>2, <4>3, <4>4, DefaultList
      <4>6. UNCHANGED ToAuxPlayList
        BY <2>2, <4>1
      <4>7. Contents(ToAuxPlayList)' = Contents(ToAuxPlayList)
        BY <4>6 DEF Contents
      <4> QED
        BY <4>4, <4>5, <4>7 DEF ListsGrow
    <3> QED
      BY <3>1, <3>2
  <2>5. \A r \in accepted' : Listed(r)'
    BY <2>2, <2>4, ListedKept DEF Accepting
  <2> HIDE DEF clean, lists
  <2>6. Accepting'
    BY <2>2, <2>3, <2>5 DEF Accepting
  <2> QED
    BY <2>4, <2>6
<1>6. CASE \E s \in ModeSlots[INTERACTIVE] : MixedOutputs(s)
  <2>1. /\ parserPc' \in {"idle", "failed"}
        /\ UNCHANGED <<Inst_Bus_Config, configStatus, ToAuxPlayList, ToOutPlayList, started,
                       playing, accepted>>
    BY <1>6 DEF MixedOutputs, Failed, playlists, notes, history
  <2>2. \A s : Listed(s)' <=> Listed(s)
    BY <2>1 DEF Listed, Contents
  <2>3. Accepting'
    BY <2>1, <2>2 DEF Accepting
  <2> QED
    BY <1>2, <2>1, <2>3
<1>7. CASE Insert
  <2>1. /\ parserPc = "check" /\ parserPc' \in {"idle", "write"}
        /\ Inst_Bus_Config' = [Inst_Bus_Config EXCEPT ![call.name] = call.slot]
        /\ accepted' = accepted \cup {call.slot}
        /\ UNCHANGED <<configStatus, ToAuxPlayList, ToOutPlayList, started, playing>>
    BY <1>7 DEF Insert, Return, BeginOrder, playlists, notes
  <2>2. \A s : Listed(s)' <=> Listed(s)
    BY <2>1 DEF Listed, Contents
  <2>3. \A s \in accepted' : Listed(s)'
    BY <2>1, <2>2 DEF Accepting
  <2>4. \A n \in Names : Inst_Bus_Config'[n] \in accepted' \cup {NoSlot}
    BY <2>1 DEF Accepting, TypeOK
  <2>5. configStatus' /\ started' \cup playing' \subseteq accepted'
    BY <2>1 DEF Accepting
  <2>6. Accepting'
    BY <2>1, <2>3, <2>4, <2>5 DEF Accepting
  <2> QED
    BY <1>2, <2>1, <2>6
<1>8. CASE CheckStep \/ LoopFound \/ WriteEntry \/ NextSink \/ TraverseStep \/ TraverseDone
           \/ ClearRest \/ (\E n \in Names : StartNote(n)) \/ ScoreEnds \/ AudioStep
           \/ UNCHANGED vars
  <2> USE DEF graph, playlists, locals, notes, audio, history
  <2>1. UNCHANGED <<BusConfigs, Inst_Bus_Config, configStatus, ToAuxPlayList, ToOutPlayList,
                    accepted>>
    <3>1. CASE CheckStep \/ LoopFound \/ WriteEntry \/ NextSink \/ TraverseStep \/ TraverseDone
      BY <3>1 DEF CheckStep, LoopFound, WriteEntry, NextSink, TraverseStep, TraverseDone
    <3>2. CASE ClearRest \/ (\E n \in Names : StartNote(n)) \/ ScoreEnds \/ AudioStep
               \/ UNCHANGED vars
      BY <3>2 DEF ClearRest, StartNote, ScoreEnds, AudioStep, BeginSlice, PlayBus,
           NextClass, EndSlice, vars
    <3> QED
      BY <1>8, <3>1, <3>2
  <2>2. parserPc' \notin {"default", "check"} \/ UNCHANGED <<parserPc, call>>
    <3>1. CASE CheckStep \/ LoopFound \/ WriteEntry \/ NextSink \/ TraverseStep \/ TraverseDone
      BY <3>1 DEF CheckStep, LoopFound, Return, Failed, WriteEntry, NextSink, TraverseStep,
           TraverseDone
    <3>2. CASE ClearRest \/ (\E n \in Names : StartNote(n)) \/ ScoreEnds \/ AudioStep
               \/ UNCHANGED vars
      BY <3>2 DEF ClearRest, Return, StartNote, ScoreEnds, AudioStep, BeginSlice, PlayBus,
           NextClass, EndSlice, vars
    <3> QED
      BY <1>8, <3>1, <3>2
  <2>3. started' \cup playing' \subseteq accepted
    <3>1. CASE CheckStep \/ LoopFound \/ WriteEntry \/ NextSink \/ TraverseStep \/ TraverseDone
      BY <3>1 DEF CheckStep, LoopFound, WriteEntry, NextSink, TraverseStep, TraverseDone,
           Accepting
    <3>2. CASE \E n \in Names : StartNote(n)
      BY <3>2 DEF StartNote, Accepting
    <3>3. CASE BeginSlice
      BY <3>3 DEF BeginSlice, Accepting
    <3>4. CASE ClearRest \/ ScoreEnds \/ PlayBus \/ NextClass \/ EndSlice \/ UNCHANGED vars
      BY <3>4 DEF ClearRest, ScoreEnds, PlayBus, NextClass, EndSlice, vars, Accepting
    <3> QED
      BY <1>8, <3>1, <3>2, <3>3, <3>4 DEF AudioStep
  <2>4. Accepting'
    BY <2>1, <2>2, <2>3, AcceptingKept
  <2> QED
    BY <1>2, <2>1, <2>4
<1> QED
  BY <1>3, <1>4, <1>5, <1>6, <1>7, <1>8 DEF Next, ParserStep

-----------------------------------------------------------------------------
(* The search for the play order meets every bus that has a parent.        *)

LEMMA EdgeOfSlot ==
  ASSUME NEW s \in Slots \cup {DefaultSlot}, NEW b \in Buses
  PROVE  /\ b \in ToSet(s.auxout) /\ s.auxin # <<>> <=>
              \E a \in Buses : <<a, b>> \in EdgesOf(s)
         /\ b \in ToSet(s.auxin) /\ s.auxout # <<>> <=>
              \E c \in Buses : <<b, c>> \in EdgesOf(s)
<1>1. /\ s.auxin \in Seq(Buses) /\ s.auxout \in Seq(Buses)
      /\ ToSet(s.auxin) \subseteq Buses /\ ToSet(s.auxout) \subseteq Buses
  BY SlotTypes
<1>2. ASSUME NEW q \in Seq(Buses), ToSet(q) \subseteq Buses
      PROVE  q # <<>> <=> \E a \in Buses : a \in ToSet(q)
  <2>1. CASE q = <<>>
    BY <2>1 DEF ToSet
  <2>2. CASE q # <<>>
    <3>1. Head(q) \in ToSet(q)
      BY <2>2, HeadAndTail
    <3> QED
      BY <1>2, <2>2, <3>1
  <2> QED
    BY <2>1, <2>2
<1>3. \A a, c : <<a, c>> \in EdgesOf(s) <=> a \in ToSet(s.auxin) /\ c \in ToSet(s.auxout)
  BY DEF EdgesOf
<1> QED
  BY <1>1, <1>2, <1>3

LEMMA InitFlags == Init => Flags /\ Closure
<1> SUFFICES ASSUME Init PROVE Flags /\ Closure
  OBVIOUS
<1>1. /\ \A b \in Buses : BusConfigs[b] = NoBus
      /\ accepted = {} /\ parserPc = "idle"
  BY DEF Init
<1>2. ~NoBus.hasParent /\ ~NoBus.hasChild
  BY DEF NoBus
<1>3. Edges(accepted) = {}
  BY <1>1 DEF Edges
<1> QED
  BY <1>1, <1>2, <1>3 DEF Flags, Closure, Ordering

LEMMA NextFlags ==
  ASSUME ListInv, INTERACTIVE \in DOMAIN ModeSlots, Flags, [Next]_vars
  PROVE  Flags'
<1> USE DEF ListInv, Typed
<1>1. CASE GraphKept
  <2>1. Edges(accepted)' = Edges(accepted)
    BY <1>1 DEF GraphKept, Edges
  <2> QED
    BY <1>1, <2>1 DEF GraphKept, Flags
<1>2. CASE Insert
  <2> DEFINE s == call.slot
  <2>1. /\ BusConfigs' = Connected(BusConfigs, s) /\ parserPc = "check"
        /\ accepted' = accepted \cup {s}
    BY <1>2 DEF Insert
  <2>2. s \in Slots \cup {DefaultSlot} /\ BusConfigs \in [Buses -> BusConfigType]
    BY <2>1 DEF CallType, TypeOK
  <2> HIDE DEF s
  <2>3. ASSUME NEW b \in Buses, NEW c, c = BusConfigs'[b]
        PROVE  /\ c.hasParent <=>
                    BusConfigs[b].hasParent \/ (b \in ToSet(s.auxout) /\ s.auxin # <<>>)
               /\ c.hasChild <=>
                    BusConfigs[b].hasChild \/ (b \in ToSet(s.auxin) /\ s.auxout # <<>>)
               /\ c.auxInUse <=> \/ BusConfigs[b].auxInUse \/ b \in ToSet(s.auxout)
                                 \/ b \in ToSet(s.auxin) /\ s.auxout # <<>>
    BY <2>1, <2>2, <2>3, ConnectedFlags
  <2>4. PICK E : E = Edges(accepted)
    OBVIOUS
  <2>5. Edges(accepted)' = E \cup EdgesOf(s)
    BY <2>1, <2>4, EdgesAdd
  <2>6. ASSUME NEW b \in Buses
        PROVE  /\ BusConfigs'[b].hasParent <=> \E a \in Buses : <<a, b>> \in E \cup EdgesOf(s)
               /\ BusConfigs'[b].hasChild <=> \E c \in Buses : <<b, c>> \in E \cup EdgesOf(s)
               /\ BusConfigs'[b].hasParent \/ BusConfigs'[b].hasChild => BusConfigs'[b].auxInUse
    <3>1. /\ BusConfigs[b].hasParent <=> \E a \in Buses : <<a, b>> \in E
          /\ BusConfigs[b].hasChild <=> \E c \in Buses : <<b, c>> \in E
          /\ BusConfigs[b].hasParent \/ BusConfigs[b].hasChild => BusConfigs[b].auxInUse
      BY <2>4 DEF Flags
    <3>2. /\ b \in ToSet(s.auxout) /\ s.auxin # <<>> <=>
                \E a \in Buses : <<a, b>> \in EdgesOf(s)
          /\ b \in ToSet(s.auxin) /\ s.auxout # <<>> <=>
                \E c \in Buses : <<b, c>> \in EdgesOf(s)
      BY <2>2, EdgeOfSlot
    <3> QED
      BY <2>3, <3>1, <3>2
  <2> QED
    BY <2>5, <2>6 DEF Flags
<1> QED
  BY <1>1, <1>2, GraphStep

\* Outside create_play_order the search's state is not used.
LEMMA OutsideOrder ==
  ASSUME [Next]_vars
  PROVE  \/ Insert \/ WriteEntry \/ NextSink \/ TraverseStep \/ TraverseDone \/ ClearRest
         \/ UNCHANGED <<BusConfigs, accepted, AuxToAuxPlayList, parserPc, visited, todo, rev,
                        pending, sinks, auxP>>
         \/ ~Ordering /\ ~Ordering'
<1> USE DEF graph, playlists, locals, history, Ordering
<1>1. CASE \E n \in Names, s \in ModeSlots[INTERACTIVE] : BusConfig(n, s)
  BY <1>1 DEF BusConfig, BeginCheck
<1>2. CASE \E n \in Names : DefaultConfig(n)
  BY <1>2 DEF DefaultConfig
<1>3. CASE \E s \in ModeSlots[INTERACTIVE] : MixedOutputs(s)
  BY <1>3 DEF MixedOutputs, Failed
<1>4. CASE CheckDefault \/ CheckStep \/ LoopFound
  BY <1>4 DEF CheckDefault, BeginCheck, CheckStep, LoopFound, Return, Failed
<1>5. CASE (\E n \in Names : StartNote(n)) \/ ScoreEnds
  BY <1>5 DEF StartNote, ScoreEnds
<1>6. CASE AudioStep \/ UNCHANGED vars
  BY <1>6 DEF AudioStep, BeginSlice, PlayBus, NextClass, EndSlice, vars
<1> QED
  BY <1>1, <1>2, <1>3, <1>4, <1>5, <1>6 DEF Next, ParserStep

\* When nothing is left to be met, no bus that has a parent was missed: those that
\* were would form a loop.
LEMMA NoneMissed ==
  ASSUME TypeOK, Flags, Complete, NoFeedback,
         \A t \in visited : \A a \in ToSet(In(t)) : In(a) # <<>> => a \in visited,
         \A t \in Sinks(BusConfigs) : In(t) # <<>> => t \in visited,
         NEW b \in Buses, BusConfigs[b].hasParent
  PROVE  b \in visited
<1> DEFINE X == {x \in Buses : BusConfigs[x].hasParent /\ x \notin visited}
<1>1. SUFFICES ASSUME b \notin visited PROVE FALSE
  OBVIOUS
<1>2. X \in (SUBSET Buses) \ {{}}
  BY <1>1
<1>3. PICK x \in X : \A c \in X : <<x, c>> \notin Edges(accepted)
  BY <1>2 DEF NoFeedback, Acyclic
<1>4. x \in Buses /\ BusConfigs[x].hasParent /\ x \notin visited
  OBVIOUS
<1>5. In(x) # <<>>
  <2>1. PICK a \in Buses : <<a, x>> \in Edges(accepted)
    BY <1>4 DEF Flags
  <2>2. a \in ToSet(In(x))
    BY <1>4, <2>1 DEF Complete, In
  <2> QED
    BY <2>2 DEF ToSet
<1>6. CASE BusConfigs[x].hasChild
  <2>1. PICK c \in Buses : <<x, c>> \in Edges(accepted)
    BY <1>4, <1>6 DEF Flags
  <2>2. BusConfigs[c].hasParent
    BY <1>4, <2>1 DEF Flags
  <2>3. c \in visited
    BY <1>3, <2>1, <2>2
  <2>4. x \in ToSet(In(c))
    BY <2>1 DEF Complete, In
  <2> QED
    BY <1>4, <1>5, <2>3, <2>4
<1>7. CASE ~BusConfigs[x].hasChild
  <2>1. x \in Sinks(BusConfigs)
    BY <1>4, <1>7 DEF Flags, Sinks
  <2> QED
    BY <1>4, <1>5, <2>1
<1> QED
  BY <1>6, <1>7

LEMMA NextClosure ==
  ASSUME ListInv, SoundInv, Accepting, Flags, Complete, NoFeedback, Closure, [Next]_vars
  PROVE  Closure'
<1> USE DEF ListInv, Typed
<1>1. /\ BusConfigs \in [Buses -> BusConfigType] /\ visited \subseteq Buses
      /\ todo \in Seq(Buses) /\ rev \in Seq(Buses) /\ sinks \in Seq(Buses)
      /\ INTERACTIVE \in DOMAIN ModeSlots
  BY DEF TypeOK, SoundInv, Types
<1>2. ToSet(<<>>) = {}
  BY DEF ToSet
<1>3. CASE Insert
  <2>1. /\ parserPc = "check" /\ todo = <<>> /\ BusConfigs' = Connected(BusConfigs, call.slot)
        /\ UNCHANGED AuxToAuxPlayList
    BY <1>3 DEF Insert, playlists
  <2>2. CASE default
    <3>1. parserPc' = "idle"
      BY <1>3, <2>2 DEF Insert, Return
    <3>2. call.slot = DefaultSlot
      BY <2>1, <2>2 DEF SoundInv, Types
    <3>3. \A b \in Buses : BusConfigs'[b].hasParent <=> BusConfigs[b].hasParent
      BY <1>1, <1>2, <2>1, <3>2, ConnectedFlags, DefaultHasNoEdges
    <3>4. Contents(AuxToAuxPlayList)' = Contents(AuxToAuxPlayList)
      BY <2>1 DEF Contents
    <3> QED
      BY <2>1, <3>1, <3>3, <3>4 DEF Closure, Ordering
  <2>3. CASE ~default
    <3>1. /\ parserPc' = "write" /\ visited' = {} /\ sinks' = Ascending(Sinks(BusConfigs'))
      BY <1>3, <2>3 DEF Insert, BeginOrder
    <3>2. PICK S \in SUBSET Buses : S = Sinks(BusConfigs')
      BY DEF Sinks
    <3>3. ToSet(Ascending(S)) = S
      BY AscendingFacts
    <3>4. ToSet(sinks') = Sinks(BusConfigs')
      BY <3>1, <3>2, <3>3
    <3> QED
      BY <3>1, <3>4 DEF Closure, Ordering
  <2> QED
    BY <2>2, <2>3
<1>4. CASE WriteEntry \/ TraverseDone
  <2>1. /\ Ordering /\ Ordering' /\ UNCHANGED <<BusConfigs, visited, todo, sinks>>
    BY <1>4 DEF WriteEntry, TraverseDone, Ordering, graph
  <2> QED
    BY <2>1 DEF Closure, In
<1>5. CASE NextSink
  <2>1. /\ parserPc = "write" /\ parserPc' = "traverse" /\ sinks # <<>>
        /\ todo' = <<Head(sinks)>> /\ sinks' = Tail(sinks)
        /\ UNCHANGED <<BusConfigs, visited>>
    BY <1>5 DEF NextSink, graph
  <2>2. todo = <<>>
    BY <2>1 DEF Ordered, Ordering
  <2>3. ToSet(sinks) = {Head(sinks)} \cup ToSet(Tail(sinks))
    <3>1. sinks \in Seq(Buses) /\ sinks # <<>>
      BY <1>1, <2>1
    <3> QED
      BY <3>1, HeadAndTail
  <2>4. ToSet(todo') = {Head(sinks)}
    <3>1. \A b : ToSet(<<b>>) = {b}
      BY DEF ToSet
    <3> QED
      BY <2>1, <3>1
  <2>5. ToSet(sinks) \cup ToSet(todo) = ToSet(sinks') \cup ToSet(todo')
    BY <1>2, <2>1, <2>2, <2>3, <2>4
  <2>6. Ordering /\ Ordering' /\ Sinks(BusConfigs') = Sinks(BusConfigs)
    BY <2>1 DEF Ordering
  <2>7. ASSUME NEW t \in visited, NEW a \in ToSet(In(t)), In(a) # <<>> PROVE a \in visited
    BY <1>2, <2>2, <2>6, <2>7 DEF Closure
  <2>8. ASSUME NEW t \in Sinks(BusConfigs), In(t) # <<>>
        PROVE  t \in visited \cup ToSet(sinks') \cup ToSet(todo')
    BY <2>5, <2>6, <2>8 DEF Closure
  <2> QED
    BY <2>1, <2>6, <2>7, <2>8 DEF Closure, In
<1>6. CASE TraverseStep
  <2> DEFINE t == Head(todo)
  <2>1. /\ parserPc = "traverse" /\ parserPc' = "traverse" /\ todo # <<>> /\ Visit(Head(todo))
        /\ UNCHANGED <<BusConfigs, sinks>>
    BY <1>6 DEF TraverseStep, graph
  <2>2. /\ t \in Buses /\ ToSet(todo) = {t} \cup ToSet(Tail(todo))
        /\ GoesOn(t) => /\ visited' = visited \cup {t}
                        /\ ToSet(todo') = ToSet(Tail(todo)) \cup ToSet(In(t))
        /\ ~GoesOn(t) => /\ In(t) = <<>> \/ t \in visited
                         /\ visited' = visited /\ todo' = Tail(todo)
    BY <1>1, <2>1, VisitFacts
  <2>3. \A a : In(a)' = In(a)
    BY <2>1 DEF In
  <2> HIDE DEF t
  <2>4. \A a : In(a) # <<>> /\ a \in visited \cup ToSet(todo) => a \in visited' \cup ToSet(todo')
    BY <2>2
  <2>5. ASSUME NEW r \in visited', NEW a \in ToSet(In(r)), In(a) # <<>>
        PROVE  a \in visited' \cup ToSet(todo')
    <3>1. CASE r \in visited
      BY <2>1, <2>4, <2>5, <3>1 DEF Closure, Ordering
    <3>2. CASE r \notin visited
      BY <2>2, <2>5, <3>2
    <3> QED
      BY <3>1, <3>2
  <2>6. ASSUME NEW r \in Sinks(BusConfigs), In(r) # <<>>
        PROVE  r \in visited' \cup ToSet(sinks) \cup ToSet(todo')
    BY <2>1, <2>4, <2>6 DEF Closure, Ordering
  <2> QED
    BY <2>1, <2>3, <2>5, <2>6 DEF Closure, Ordering
<1>7. CASE ClearRest
  <2>1. /\ parserPc = "write" /\ parserPc' = "idle" /\ pending = <<>> /\ sinks = <<>>
        /\ AuxToAuxPlayList' = [b \in Buses |-> IF b < auxP THEN AuxToAuxPlayList[b] ELSE -1]
        /\ UNCHANGED BusConfigs
    BY <1>7 DEF ClearRest, Return, graph
  <2>2. /\ todo = <<>> /\ auxP <= BusCount /\ Written \subseteq Buses
        /\ Written = Parents(BusConfigs) \cup {b \in visited : BusConfigs[b].hasParent}
    BY <1>2, <2>1 DEF Ordered, Ordering, Unwritten
  <2>3. ASSUME NEW b \in Buses, BusConfigs[b].hasParent
        PROVE  b \in Contents(AuxToAuxPlayList')
    <3>1. /\ \A t \in visited : \A a \in ToSet(In(t)) : In(a) # <<>> => a \in visited
          /\ \A t \in Sinks(BusConfigs) : In(t) # <<>> => t \in visited
      BY <1>2, <2>1, <2>2 DEF Closure, Ordering
    <3>2. b \in visited
      BY <2>3, <3>1, NoneMissed
    <3>3. b \in Written
      BY <2>2, <2>3, <3>2
    <3>4. PICK n \in 0 .. auxP - 1 : AuxToAuxPlayList[n] = b
      BY <3>3 DEF Written
    <3>5. n \in Buses /\ n < auxP
      BY <2>2, <3>4, BusesFinite DEF Buses, TypeOK
    <3>6. AuxToAuxPlayList'[n] = b /\ b # -1
      BY <2>1, <3>4, <3>5, BusesFinite
    <3> QED
      BY <3>5, <3>6 DEF Contents
  <2> QED
    BY <2>1, <2>3 DEF Closure, Ordering
<1>8. CASE UNCHANGED <<BusConfigs, accepted, AuxToAuxPlayList, parserPc, visited, todo, rev,
                       pending, sinks, auxP>>
  BY <1>8 DEF Closure, Ordering, In, Contents
<1>9. CASE ~Ordering /\ ~Ordering' /\ ~Insert
  <2>1. \A b \in Buses : BusConfigs'[b].hasParent <=> BusConfigs[b].hasParent
    BY <1>1, <1>9, GraphStep DEF GraphKept
  <2>2. CASE UNCHANGED AuxToAuxPlayList
    <3>1. Contents(AuxToAuxPlayList)' = Contents(AuxToAuxPlayList)
      BY <2>2 DEF Contents
    <3> QED
      BY <1>9, <2>1, <3>1 DEF Closure
  <2>3. CASE ~configStatus
    <3>1. Edges(accepted) = {}
      BY <2>3 DEF Accepting, Edges
    <3>2. \A b \in Buses : ~BusConfigs[b].hasParent
      BY <3>1 DEF Flags
    <3> QED
      BY <1>9, <2>1, <3>2 DEF Closure
  <2>4. CASE WriteEntry \/ ClearRest
    BY <1>9, <2>4 DEF WriteEntry, ClearRest, Ordering
  <2> QED
    BY <2>2, <2>3, <2>4, ThirdListStep
<1> QED
  BY <1>3, <1>4, <1>5, <1>6, <1>7, <1>8, <1>9, OutsideOrder

-----------------------------------------------------------------------------
(* Every queue is played.                                                  *)

\* No instrument of a session both reads and writes aux buses: create_play_order
\* rewrites the third list while the audio thread walks along it.
NoChainInSession ==
  TRUE \in DOMAIN ModeSlots =>
    \A s \in ModeSlots[TRUE] : s.auxin = <<>> \/ s.auxout = <<>>
Chainless == INTERACTIVE => \A s \in accepted : s.auxin = <<>> \/ s.auxout = <<>>

LEMMA NextChainless ==
  ASSUME NoChainInSession, TypeOK, SoundInv, Chainless, [Next]_vars
  PROVE  Chainless'
<1>1. UNCHANGED INTERACTIVE /\ INTERACTIVE \in DOMAIN ModeSlots /\ INTERACTIVE \in BOOLEAN
  BY OneThread DEF TypeOK, SoundInv, Types
<1>2. CASE GraphKept
  BY <1>1, <1>2 DEF GraphKept, Chainless
<1>3. CASE Insert
  <2>1. parserPc = "check" /\ accepted' = accepted \cup {call.slot}
    BY <1>3 DEF Insert
  <2>2. call.slot \in ModeSlots[INTERACTIVE] \cup {DefaultSlot}
    BY <2>1 DEF SoundInv, Types
  <2>3. INTERACTIVE => call.slot.auxin = <<>> \/ call.slot.auxout = <<>>
    BY <1>1, <2>2, DefaultHasNoEdges DEF NoChainInSession
  <2> QED
    BY <1>1, <2>1, <2>3 DEF Chainless
<1> QED
  BY <1>1, <1>2, <1>3, GraphStep

\* While the audio thread walks, the list of a note's class holds its buses.
LEMMA QueuesListed ==
  ASSUME ListInv, ScoreIsRead, Accepting, Flags, Closure, Chainless,
         audioPc # "idle", NEW s \in playing, NEW q \in QueuesOf(s)
  PROVE  /\ q[1] \in Classes /\ q = <<q[1], q[2]>>
         /\ q[2] \in Contents(ListOf(q[1])) /\ Solid(ListOf(q[1]))
         /\ INTERACTIVE => q[1] # "AUX_TO_AUX"
<1> USE DEF ListInv, Typed
<1>1. s \in accepted /\ Listed(s) /\ s \in Slots \cup {DefaultSlot}
  BY DEF Accepting, TypeOK
<1>2. PICK b \in ToSet(IF Class(s) = "TO_OUT" THEN s.out ELSE s.auxout) : q = <<Class(s), b>>
  BY DEF QueuesOf
<1>3. Solid(ToAuxPlayList) /\ Solid(ToOutPlayList)
  BY ScannedSolid DEF TypeOK, Flat
<1>4. CASE Class(s) = "TO_OUT"
  <2>1. b \in Contents(ToOutPlayList)
    BY <1>1, <1>2, <1>4 DEF Listed
  <2> QED
    BY <1>2, <1>3, <1>4, <2>1 DEF ListOf, Classes
<1>5. CASE Class(s) = "TO_AUX"
  <2>1. b \in Contents(ToAuxPlayList)
    BY <1>1, <1>2, <1>5 DEF Listed
  <2> QED
    BY <1>2, <1>3, <1>5, <2>1 DEF ListOf, Classes
<1>6. CASE Class(s) = "AUX_TO_AUX"
  <2>1. s.auxin # <<>> /\ s.auxout # <<>> /\ b \in ToSet(s.auxout)
    BY <1>2, <1>6 DEF Class
  <2>2. ~INTERACTIVE
    BY <1>1, <2>1 DEF Chainless
  <2>3. ~Ordering
    BY <2>2 DEF ScoreIsRead, Ordering
  <2>4. b \in Buses
    BY <1>1, <2>1, SlotTypes
  <2>5. \E a \in Buses : <<a, b>> \in EdgesOf(s)
    BY <1>1, <2>1, <2>4, EdgeOfSlot
  <2>6. \E a \in Buses : <<a, b>> \in Edges(accepted)
    BY <1>1, <2>5 DEF Edges
  <2>7. b \in Contents(AuxToAuxPlayList) /\ Solid(AuxToAuxPlayList)
    BY <2>3, <2>4, <2>6 DEF Flags, Closure
  <2> QED
    BY <1>2, <1>6, <2>2, <2>7 DEF ListOf, Classes
<1>7. Class(s) \in Classes
  BY DEF Class, Classes
<1> QED
  BY <1>4, <1>5, <1>6, <1>7 DEF Classes

\* A bus is only moved back in a scan that grows.
LEMMA MovesBack ==
  ASSUME NEW list \in PlaylistType, Scanned(list), NEW new \in PlaylistType, Scanned(new),
         Contents(list) \subseteq Contents(new),
         NEW n \in Buses, NEW b \in Contents(list), new[n] = b
  PROVE  \E k \in Buses : k <= n /\ list[k] = b
<1>1. PICK k \in Buses : list[k] = b /\ b # -1
  BY DEF Contents
<1>2. PICK S \in SUBSET Buses : S = Contents(list)
  BY DEF Contents, PlaylistType
<1>3. PICK T \in SUBSET Buses : T = Contents(new)
  BY DEF Contents, PlaylistType
<1>4. Cardinality(Below(S, b)) = k /\ Cardinality(Below(T, b)) = n
  BY <1>1, <1>2, <1>3 DEF Scanned
<1>5. Below(S, b) \subseteq Below(T, b) /\ Below(T, b) \subseteq Buses
  BY <1>2, <1>3 DEF Below
<1>6. k <= n
  BY <1>4, <1>5, SubsetCounts, FS_Subset
<1> QED
  BY <1>1, <1>6

LEMMA NextPassed ==
  ASSUME ListInv, ListInv', WalkInv, Accepting, Flags, Closure, Chainless, AllPassed,
         ListsGrow \/ accepted = {}, [Next]_vars
  PROVE  AllPassed'
<1> USE DEF ListInv, Typed, WalkInv
<1>1. CASE AudioStep /\ UNCHANGED <<graph, playlists, parserPc, locals, calls, history>>
  <2>1. \A c : ListOf(c)' = ListOf(c)
    BY <1>1 DEF ListOf, playlists
  <2>2. CASE BeginSlice
    <3>1. audioPc' = "walk" /\ qStatus' = "TO_AUX" /\ playBus' = 0
      BY <2>2 DEF BeginSlice
    <3>2. \A n \in Buses : ~(n < 0)
      BY BusesFinite
    <3> QED
      BY <3>1, <3>2 DEF AllPassed, Passed, Earlier
  <2>3. CASE PlayBus
    <3> DEFINE b == ListOf(qStatus)[playBus]
    <3>1. /\ playBus \in Buses /\ ToSet(walk') = ToSet(walk) \cup {<<qStatus, b>>}
          /\ audioPc = "walk" /\ playBus' = playBus + 1 /\ UNCHANGED <<audioPc, qStatus>>
      BY <2>3, PlayFacts
    <3>2. UNCHANGED playing
      BY <2>3 DEF PlayBus, notes
    <3>3. ListOf(qStatus)[playBus] = b
      OBVIOUS
    <3> HIDE DEF b
    <3>4. ASSUME NEW s \in playing, NEW q \in QueuesOf(s)
          PROVE  /\ q[1] \in Earlier(qStatus) => q \in ToSet(walk')
                 /\ q[1] = qStatus => \A n \in Buses :
                      n < playBus' /\ ListOf(qStatus)[n] = q[2] => q \in ToSet(walk')
      <4>1. Passed(q)
        BY <3>1 DEF AllPassed
      <4>2. q = <<q[1], q[2]>>
        BY <3>1, QueuesListed
      <4>3. ASSUME q[1] = qStatus, NEW n \in Buses, n < playBus', ListOf(qStatus)[n] = q[2]
            PROVE  q \in ToSet(walk')
        <5>1. n < playBus \/ n = playBus
          BY <3>1, <4>3, BusesFinite
        <5>2. CASE n < playBus
          BY <3>1, <4>1, <4>3, <5>2 DEF Passed
        <5>3. CASE n = playBus
          BY <3>1, <3>3, <4>2, <4>3, <5>3
        <5> QED
          BY <5>1, <5>2, <5>3
      <4>4. q[1] \in Earlier(qStatus) => q \in ToSet(walk')
        BY <3>1, <4>1 DEF Passed
      <4> QED
        BY <4>3, <4>4
    <3> QED
      BY <2>1, <3>1, <3>2, <3>4 DEF AllPassed, Passed
  <2>4. CASE NextClass
    <3>1. /\ audioPc = "walk" /\ playBus < BusCount /\ CurrentList[playBus] = -1
          /\ playBus' = 0 /\ UNCHANGED <<walk, playing>>
          /\ qStatus' = IF qStatus = "TO_AUX" THEN "AUX_TO_AUX" ELSE "TO_OUT"
          /\ audioPc' = IF qStatus = "TO_OUT" THEN "send" ELSE "walk"
      BY <2>4 DEF NextClass, notes
    <3>2. qStatus \in Classes /\ playBus \in Buses /\ ListOf(qStatus)[playBus] = -1
      BY <3>1, CurrentIsList, BusesFinite DEF TypeOK, Buses
    <3>3. ASSUME NEW s \in playing, NEW q \in QueuesOf(s),
                 q[1] \in Earlier(qStatus) \cup {qStatus}
          PROVE  q \in ToSet(walk)
      <4>1. Passed(q)
        BY <3>1 DEF AllPassed
      <4>2. CASE q[1] \in Earlier(qStatus)
        BY <4>1, <4>2 DEF Passed
      <4>3. CASE q[1] = qStatus
        <5>1. q[2] \in Contents(ListOf(qStatus)) /\ Solid(ListOf(qStatus))
          BY <3>1, <4>3, QueuesListed
        <5>2. PICK k \in Buses : ListOf(qStatus)[k] = q[2] /\ q[2] # -1
          BY <5>1 DEF Contents
        <5>3. ~(playBus < k) /\ playBus # k
          BY <3>2, <5>1, <5>2 DEF Solid
        <5>4. k < playBus
          BY <3>2, <5>3, BusesFinite
        <5> QED
          BY <4>1, <4>3, <5>2, <5>4 DEF Passed
      <4> QED
        BY <3>3, <4>2, <4>3
    <3>4. ASSUME NEW s \in playing, NEW q \in QueuesOf(s)
          PROVE  Passed(q)'
      <4>1. q[1] \in Classes
        BY <3>1, QueuesListed
      <4>2. q[1] \in Earlier(qStatus') \/ audioPc' = "send" =>
              q[1] \in Earlier(qStatus) \cup {qStatus}
        BY <3>1, <3>2, <4>1 DEF Earlier, Classes
      <4>3. \A n \in Buses : ~(n < playBus')
        BY <3>1, BusesFinite
      <4> QED
        BY <3>1, <3>3, <4>2, <4>3 DEF Passed
    <3> QED
      BY <3>1, <3>4 DEF AllPassed
  <2>5. CASE EndSlice
    BY <2>5 DEF EndSlice, AllPassed
  <2> QED
    BY <1>1, <2>2, <2>3, <2>4, <2>5 DEF AudioStep
<1>2. CASE /\ UNCHANGED <<audioPc, qStatus, playBus, walk, playing>>
           /\ parserPc = "done" => UNCHANGED <<graph, playlists, parserPc, history>>
  <2> SUFFICES ASSUME audioPc # "idle", NEW s \in playing, NEW q \in QueuesOf(s)
               PROVE  Passed(q)'
    BY <1>2 DEF AllPassed
  <2>1. Passed(q)
    BY DEF AllPassed
  <2>2. /\ q[1] \in Classes /\ q[2] \in Contents(ListOf(q[1]))
        /\ INTERACTIVE => q[1] # "AUX_TO_AUX"
    BY QueuesListed
  <2>3. CASE ~INTERACTIVE
    <3>1. \A c : ListOf(c)' = ListOf(c)
      BY <1>2, <2>3 DEF ListOf, playlists, ScoreIsRead
    <3> QED
      BY <1>2, <2>1, <3>1 DEF Passed
  <2>4. CASE INTERACTIVE
    <3>1. ListsGrow
      BY DEF Accepting
    <3>2. ASSUME q[1] = qStatus, NEW n \in Buses, n < playBus, ListOf(qStatus)'[n] = q[2]
          PROVE  q \in ToSet(walk)
      <4> DEFINE list == ListOf(qStatus)
                 new == ListOf(qStatus)'
      <4>1. list \in PlaylistType /\ new \in PlaylistType /\ Scanned(list) /\ Scanned(new)
            /\ Contents(list) \subseteq Contents(new) /\ q[2] \in Contents(list)
        <5>1. CASE qStatus = "TO_AUX"
          <6>1. list = ToAuxPlayList /\ new = ToAuxPlayList'
            BY <1>2, <5>1 DEF ListOf
          <6> QED
            BY <2>2, <3>1, <3>2, <6>1 DEF TypeOK, Flat, ListsGrow
        <5>2. CASE qStatus = "TO_OUT"
          <6>1. list = ToOutPlayList /\ new = ToOutPlayList'
            BY <1>2, <5>2 DEF ListOf
          <6> QED
            BY <2>2, <3>1, <3>2, <6>1 DEF TypeOK, Flat, ListsGrow
        <5> QED
          BY <2>2, <2>4, <3>2, <5>1, <5>2 DEF Classes
      <4>2. new[n] = q[2] /\ list = ListOf(qStatus)
        BY <3>2
      <4> HIDE DEF list, new
      <4>3. PICK k \in Buses : k <= n /\ list[k] = q[2]
        BY <4>1, <4>2, MovesBack
      <4>4. k < playBus
        <5>1. playBus \in 0 .. BusCount /\ BusCount \in Nat
          BY BusesFinite DEF TypeOK
        <5>2. k \in Nat /\ n \in Nat /\ playBus \in Nat /\ k <= n /\ n < playBus
          BY <3>2, <4>3, <5>1, BusesFinite
        <5> QED
          BY <5>2
      <4> QED
        BY <2>1, <3>2, <4>2, <4>3, <4>4 DEF Passed
    <3> QED
      BY <1>2, <2>1, <3>2 DEF Passed
  <2> QED
    BY <2>3, <2>4 DEF TypeOK
<1> QED
  BY <1>1, <1>2, OneThread

PlayedInv(K) ==
  /\ LoopInv(K) /\ ListInv /\ WalkInv
  /\ Accepting /\ Flags /\ Closure /\ Chainless /\ AllPassed

LEMMA NextPlayed ==
  ASSUME NEW K \in Nat, Suffices(K), NoChainInSession, PlayedInv(K), [Next]_vars
  PROVE  PlayedInv(K)'
<1>1. /\ SoundInv /\ Complete /\ NoFeedback /\ TypeOK /\ INTERACTIVE \in DOMAIN ModeSlots
  BY DEF PlayedInv, LoopInv, ListInv, Typed, SoundInv, Types
<1>2. LoopInv(K)'
  BY NextLoop DEF PlayedInv
<1>3. ListInv'
  BY <1>1, NextLists DEF PlayedInv
<1>4. WalkInv'
  BY <1>1, NextWalk DEF PlayedInv
<1>5. Accepting' /\ (ListsGrow \/ accepted = {})
  BY <1>1, NextAccepting DEF PlayedInv
<1>6. Flags'
  BY <1>1, NextFlags DEF PlayedInv
<1>7. Closure'
  BY <1>1, NextClosure DEF PlayedInv
<1>8. Chainless'
  BY <1>1, NextChainless DEF PlayedInv
<1>9. AllPassed'
  BY <1>3, <1>5, NextPassed DEF PlayedInv
<1> QED
  BY <1>2, <1>3, <1>4, <1>5, <1>6, <1>7, <1>8, <1>9 DEF PlayedInv

LEMMA InitPlayed ==
  ASSUME NEW K \in Nat, Init
  PROVE  PlayedInv(K)
<1>1. Chainless /\ AllPassed
  BY DEF Init, Chainless, AllPassed
<1> QED
  BY <1>1, InitLoop, InitLists, InitWalk, InitAccepting, InitFlags DEF PlayedInv

LEMMA PlayedAll ==
  ASSUME NEW K \in Nat, PlayedInv(K)
  PROVE  EveryBusPlayed
<1> SUFFICES ASSUME audioPc = "send", NEW s \in playing, NEW q \in QueuesOf(s)
             PROVE  q \in ToSet(walk)
  BY DEF EveryBusPlayed
<1> QED
  BY DEF PlayedInv, AllPassed, Passed

\* In every slice the walk comes to every queue that a note waits in, whatever the
\* graph of aux buses (inTraverse, create_play_order), if no list of inputs is
\* started again and no session configures chains.
THEOREM EveryQueueIsPlayed ==
  ASSUME NEW K \in Nat, Suffices(K), NoChainInSession
  PROVE  Spec => []EveryBusPlayed
<1>1. PlayedInv(K) => EveryBusPlayed
  BY PlayedAll
<1>2. Init => PlayedInv(K)
  BY InitPlayed
<1>3. PlayedInv(K) /\ [Next]_vars => PlayedInv(K)'
  BY NextPlayed
<1> QED
  BY <1>1, <1>2, <1>3, PTL DEF Spec

-----------------------------------------------------------------------------
(* Writers come before readers.                                            *)

LEMMA FrontMoves ==
  ASSUME NEW q \in Seq(Buses), q # <<>>, NEW ins \in Seq(Buses), NEW level \in Level,
         NEW t, t = Head(q), \A a \in ToSet(ins) : level[a] = level[t] + 1,
         TwoLevels(q, level), NEW r, r = Tail(q) \o ins
  PROVE  TwoLevels(r, level) /\ \A c \in ToSet(r) : level[t] <= level[c]
<1> DEFINE N == Len(q) - 1
           M == Len(ins)
           L == level[t]
           rest == Tail(q)
<1>1. /\ N \in Nat /\ M \in Nat /\ t = q[1] /\ t \in Buses
      /\ DOMAIN q = 1 .. N + 1 /\ DOMAIN ins = 1 .. M
      /\ rest \in Seq(Buses) /\ Len(rest) = N /\ \A i \in 1 .. N : rest[i] = q[i + 1]
      /\ \A i \in 1 .. N + 1 : q[i] \in Buses
  OBVIOUS
<1>2. \A b \in Buses : level[b] \in Nat
  BY BusesFinite DEF Level
<1>3. L \in Nat
  BY <1>1, <1>2
<1> HIDE DEF rest
<1>4. /\ r = rest \o ins /\ r \in Seq(Buses) /\ DOMAIN r = 1 .. N + M
      /\ \A i \in 1 .. N : r[i] = rest[i]
      /\ \A i \in N + 1 .. N + M : r[i] = ins[i - N]
  BY <1>1 DEF rest
<1>5. ASSUME NEW i \in 1 .. N
      PROVE  /\ r[i] = q[i + 1] /\ i + 1 \in DOMAIN q
             /\ L <= level[r[i]] /\ level[r[i]] <= L + 1
  <2>1. r[i] = q[i + 1] /\ i + 1 \in 1 .. N + 1 /\ 1 \in 1 .. N + 1 /\ 1 < i + 1
    BY <1>1, <1>4
  <2> QED
    BY <1>1, <2>1 DEF TwoLevels
<1>6. ASSUME NEW i \in N + 1 .. N + M PROVE level[r[i]] = L + 1
  <2>1. i - N \in 1 .. M /\ r[i] = ins[i - N]
    BY <1>1, <1>4
  <2>2. r[i] \in ToSet(ins)
    BY <1>1, <2>1 DEF ToSet
  <2> QED
    BY <2>2
<1>7. ASSUME NEW i \in DOMAIN r
      PROVE  (i \in 1 .. N \/ i \in N + 1 .. N + M) /\ i \in Nat /\ level[r[i]] \in Nat
  BY <1>1, <1>2, <1>4
<1>8. ASSUME NEW m \in DOMAIN r, NEW n \in DOMAIN r, m < n
      PROVE  level[r[m]] <= level[r[n]] /\ level[r[n]] <= level[r[m]] + 1
  <2>1. CASE m \in 1 .. N /\ n \in 1 .. N
    <3>1. m + 1 < n + 1
      BY <1>7, <1>8
    <3> QED
      BY <1>5, <2>1, <3>1 DEF TwoLevels
  <2>2. CASE m \in 1 .. N /\ n \in N + 1 .. N + M
    <3> DEFINE x == level[r[m]]
               y == level[r[n]]
    <3>1. L <= x /\ x <= L + 1 /\ y = L + 1 /\ x \in Nat
      BY <1>5, <1>6, <1>7, <2>2
    <3> HIDE DEF x, y, L
    <3>2. x <= y /\ y <= x + 1
      BY <1>3, <3>1
    <3> QED
      BY <3>2 DEF x, y
  <2>3. CASE m \in N + 1 .. N + M /\ n \in N + 1 .. N + M
    <3>1. level[r[m]] = L + 1 /\ level[r[n]] = L + 1
      BY <1>6, <2>3
    <3> HIDE DEF L
    <3> QED
      BY <1>3, <3>1
  <2>4. CASE m \in N + 1 .. N + M /\ n \in 1 .. N
    BY <1>1, <1>8, <2>4
  <2> QED
    BY <1>7, <2>1, <2>2, <2>3, <2>4
<1>9. ASSUME NEW i \in DOMAIN r PROVE L <= level[r[i]]
  <2>1. CASE i \in 1 .. N
    BY <1>5, <2>1
  <2>2. CASE i \in N + 1 .. N + M
    <3>1. level[r[i]] = L + 1
      BY <1>6, <2>2
    <3> HIDE DEF L
    <3> QED
      BY <1>3, <3>1
  <2> QED
    BY <1>7, <2>1, <2>2
<1>10. \A c \in ToSet(r) : L <= level[c]
  BY <1>9 DEF ToSet
<1> QED
  BY <1>8, <1>10 DEF TwoLevels

LEMMA FrontRest ==
  ASSUME NEW q \in Seq(Buses), q # <<>>, NEW level \in Level, TwoLevels(q, level)
  PROVE  /\ TwoLevels(Tail(q), level)
         /\ \A c \in ToSet(Tail(q)) : level[Head(q)] <= level[c]
<1> DEFINE r == Tail(q)
<1>1. r = Tail(q) \o <<>> /\ <<>> \in Seq(Buses) /\ ToSet(<<>>) = {}
  BY DEF ToSet
<1> HIDE DEF r
<1>2. PICK ins : ins = <<>>
  OBVIOUS
<1>3. r = Tail(q) \o ins /\ ins \in Seq(Buses) /\ ToSet(ins) = {}
  BY <1>1, <1>2
<1>4. PICK t : t = Head(q)
  OBVIOUS
<1>5. TwoLevels(r, level) /\ \A c \in ToSet(r) : level[t] <= level[c]
  BY <1>3, <1>4, FrontMoves
<1> QED
  BY <1>4, <1>5 DEF r

\* The inputs of a bus are one level up, and a bus that has a parent has inputs.
LEMMA InputFacts ==
  ASSUME Recorded, Complete, Flags, NEW t \in Buses, In(t) \in Seq(Buses)
  PROVE  /\ \A a \in ToSet(In(t)) : <<a, t>> \in Edges(accepted) /\ a \in Buses
         /\ \A a : <<a, t>> \in Edges(accepted) => a \in ToSet(In(t))
         /\ BusConfigs[t].hasParent <=> In(t) # <<>>
<1>1. \A a \in ToSet(In(t)) : <<a, t>> \in Edges(accepted) /\ a \in Buses
  BY DEF Recorded, In, ToSet
<1>2. \A a : <<a, t>> \in Edges(accepted) => a \in ToSet(In(t))
  BY DEF Complete, In
<1>3. ASSUME In(t) # <<>> PROVE BusConfigs[t].hasParent
  <2>1. Head(In(t)) \in ToSet(In(t))
    BY <1>3, HeadAndTail
  <2> QED
    BY <1>1, <2>1 DEF Flags
<1>4. ASSUME BusConfigs[t].hasParent PROVE In(t) # <<>>
  <2>1. PICK a \in Buses : <<a, t>> \in Edges(accepted)
    BY <1>4 DEF Flags
  <2>2. a \in ToSet(In(t))
    BY <1>2, <2>1
  <2>3. ToSet(<<>>) = {}
    BY DEF ToSet
  <2> QED
    BY <2>2, <2>3
<1> QED
  BY <1>1, <1>2, <1>3, <1>4

LEMMA InitReversed == Init => Reversed
<1> SUFFICES ASSUME Init PROVE Reversed
  OBVIOUS
<1>1. parserPc = "idle" /\ AuxToAuxPlayList = Playlist(<<>>)
  BY DEF Init
<1> QED
  BY <1>1, EmptyList DEF Reversed, ReversedBy, Levelled, Ordering, WritersInList

LEMMA TraverseReversed ==
  ASSUME TypeOK, Ordered, Recorded, Complete, Flags, NEW level \in Level, GradedBy(level),
         ReversedBy(level), TraverseStep
  PROVE  ReversedBy(level)'
<1> USE DEF ReversedBy
<1> DEFINE t == Head(todo)
<1>1. /\ parserPc = "traverse" /\ parserPc' = "traverse" /\ todo # <<>> /\ Visit(Head(todo))
      /\ UNCHANGED <<BusConfigs, AuxToAuxPlayList, auxP, accepted>>
  BY DEF TraverseStep, graph, playlists, history
<1>2. /\ BusConfigs \in [Buses -> BusConfigType] /\ visited \subseteq Buses
      /\ todo \in Seq(Buses) /\ rev \in Seq(Buses)
  BY DEF TypeOK
<1>3. /\ t \in Buses /\ Tail(todo) \in Seq(Buses) /\ In(t) \in Seq(Buses)
      /\ ToSet(todo) = {t} \cup ToSet(Tail(todo))
      /\ GoesOn(t) => /\ In(t) # <<>> /\ todo' = Tail(todo) \o In(t)
                      /\ ToSet(todo') = ToSet(Tail(todo)) \cup ToSet(In(t))
      /\ ~GoesOn(t) => /\ In(t) = <<>> \/ t \in visited
                       /\ todo' = Tail(todo) /\ rev' = rev
      /\ BusConfigs[t].hasParent /\ GoesOn(t) => rev' = Append(rev, t)
  BY <1>1, <1>2, VisitFacts
<1>4. /\ \A a \in ToSet(In(t)) : <<a, t>> \in Edges(accepted) /\ a \in Buses
      /\ \A a : <<a, t>> \in Edges(accepted) => a \in ToSet(In(t))
      /\ BusConfigs[t].hasParent <=> In(t) # <<>>
  BY <1>3, InputFacts
<1>5. \A a \in ToSet(In(t)) : level[a] = level[t] + 1
  BY <1>4 DEF GradedBy
<1>6. /\ Climbs(rev, level) /\ TwoLevels(todo, level)
      /\ \A b \in ToSet(rev), c \in ToSet(todo) : level[b] <= level[c]
  BY <1>1 DEF Levelled
<1>7. \A b \in Buses : level[b] \in Nat
  BY BusesFinite DEF Level
<1>8. Edges(accepted)' = Edges(accepted) /\ Written' = Written
  BY <1>1 DEF Edges, Written
<1>9. Len(rev) \in Nat /\ DOMAIN rev = 1 .. Len(rev) /\ \A n \in 1 .. Len(rev) : rev[n] \in Buses
  BY <1>2
<1>10. TwoLevels(Tail(todo), level) /\ \A c \in ToSet(Tail(todo)) : level[t] <= level[c]
  BY <1>1, <1>2, <1>6, FrontRest
<1>t. t = Head(todo)
  OBVIOUS
<1> HIDE DEF t
<1>11. CASE GoesOn(t)
  <2>1. /\ rev' = Append(rev, t) /\ todo' = Tail(todo) \o In(t)
        /\ ToSet(todo') = ToSet(Tail(todo)) \cup ToSet(In(t))
    BY <1>3, <1>4, <1>11
  <2>2. /\ rev' \in Seq(Buses) /\ Len(rev') = Len(rev) + 1 /\ rev'[Len(rev')] = t
        /\ \A n \in 1 .. Len(rev) : rev'[n] = rev[n]
        /\ ToSet(rev') = ToSet(rev) \cup {t}
    <3>1. PICK r : r = rev'
      OBVIOUS
    <3>2. r = Append(rev, t) /\ rev \in Seq(Buses) /\ t \in Buses
      BY <1>2, <1>3, <2>1, <3>1
    <3>3. /\ r \in Seq(Buses) /\ Len(r) = Len(rev) + 1 /\ r[Len(r)] = t
          /\ \A n \in 1 .. Len(rev) : r[n] = rev[n]
      BY <3>2
    <3>4. ToSet(r) = ToSet(rev) \cup {t}
      BY <3>2, AppendFacts
    <3> QED
      BY <3>1, <3>3, <3>4
  <2>3. DOMAIN rev' = 1 .. Len(rev) + 1 /\ rev'[Len(rev) + 1] = t
    BY <2>2
  <2>4. PICK r : r = todo'
    OBVIOUS
  <2>5. PICK ins : ins = In(t)
    OBVIOUS
  <2>6. r = Tail(todo) \o ins /\ ins \in Seq(Buses) /\ \A a \in ToSet(ins) : level[a] = level[t] + 1
    BY <1>3, <1>5, <2>1, <2>4, <2>5
  <2>7. TwoLevels(r, level) /\ \A c \in ToSet(r) : level[t] <= level[c]
    BY <1>1, <1>2, <1>6, <1>t, <2>6, FrontMoves
  <2>8. \A b \in ToSet(rev) : level[b] <= level[t]
    BY <1>3, <1>6
  <2>9. ASSUME NEW m \in DOMAIN rev', NEW n \in DOMAIN rev', m < n
        PROVE  level[rev'[m]] <= level[rev'[n]]
    <3>1. m \in 1 .. Len(rev) /\ rev[m] \in ToSet(rev)
      BY <1>9, <2>3, <2>9 DEF ToSet
    <3>2. CASE n \in 1 .. Len(rev)
      BY <1>6, <1>9, <2>2, <2>9, <3>1, <3>2 DEF Climbs
    <3>3. CASE n = Len(rev) + 1
      BY <2>2, <2>3, <2>8, <3>1, <3>3
    <3> QED
      BY <1>9, <2>3, <3>2, <3>3
  <2>10. ASSUME NEW b \in ToSet(rev'), NEW c \in ToSet(r) PROVE level[b] <= level[c]
    <3>1. b \in Buses /\ c \in Buses /\ level[b] <= level[t] /\ level[t] <= level[c]
      <4>1. b \in Buses
        BY <2>2 DEF ToSet
      <4>2. c \in Buses
        <5>1. r \in Seq(Buses)
          BY <1>3, <2>6
        <5> QED
          BY <5>1 DEF ToSet
      <4>3. level[b] <= level[t]
        BY <1>3, <1>7, <2>2, <2>8
      <4> QED
        BY <2>7, <4>1, <4>2, <4>3
    <3>2. level[b] \in Nat /\ level[c] \in Nat /\ level[t] \in Nat
      BY <1>3, <1>7, <3>1
    <3> QED
      BY <3>1, <3>2
  <2>11. Levelled(level)'
    BY <2>4, <2>7, <2>9, <2>10 DEF Levelled, Climbs
  <2>12. ASSUME NEW n \in DOMAIN rev', NEW b \in Buses,
                <<b, rev'[n]>> \in Edges(accepted), BusConfigs[b].hasParent
         PROVE  b \in Written \cup ToSet(todo') \/ \E m \in n + 1 .. Len(rev') : rev'[m] = b
    <3>1. CASE n \in 1 .. Len(rev)
      <4>1. b \in Written \cup ToSet(todo) \/ \E m \in n + 1 .. Len(rev) : rev[m] = b
        BY <1>1, <1>9, <2>2, <2>12, <3>1 DEF WritersMet
      <4>2. CASE b \in Written
        BY <4>2
      <4>3. CASE b \in ToSet(todo)
        <5>1. b = t \/ b \in ToSet(Tail(todo))
          BY <1>3, <4>3
        <5>2. Len(rev) + 1 \in n + 1 .. Len(rev')
          BY <1>9, <2>2, <3>1
        <5> QED
          BY <2>1, <2>3, <5>1, <5>2
      <4>4. CASE \E m \in n + 1 .. Len(rev) : rev[m] = b
        <5>1. PICK m \in n + 1 .. Len(rev) : rev[m] = b
          BY <4>4
        <5>2. m \in 1 .. Len(rev) /\ m \in n + 1 .. Len(rev')
          BY <1>9, <2>2, <3>1
        <5> QED
          BY <2>2, <5>1, <5>2
      <4> QED
        BY <4>1, <4>2, <4>3, <4>4
    <3>2. CASE n = Len(rev) + 1
      BY <1>4, <2>1, <2>3, <2>12, <3>2
    <3> QED
      BY <1>9, <2>3, <3>1, <3>2
  <2>13. WritersMet'
    BY <1>1, <1>8, <2>12 DEF WritersMet
  <2>14. WritersWritten'
    BY <1>1, <1>8 DEF WritersWritten, Ordering
  <2> QED
    BY <1>1, <2>11, <2>13, <2>14 DEF Ordering
<1>12. CASE ~GoesOn(t)
  <2>1. todo' = Tail(todo) /\ rev' = rev /\ (In(t) = <<>> \/ t \in visited)
    BY <1>3, <1>12
  <2>2. Levelled(level)'
    <3>1. \A b \in ToSet(rev), c \in ToSet(Tail(todo)) : level[b] <= level[c]
      BY <1>3, <1>6
    <3> QED
      BY <1>1, <1>6, <1>10, <2>1, <3>1 DEF Levelled
  <2>3. ASSUME NEW n \in DOMAIN rev, NEW b \in Buses,
               <<b, rev[n]>> \in Edges(accepted), BusConfigs[b].hasParent
        PROVE  b \in Written \cup ToSet(todo') \/ \E m \in n + 1 .. Len(rev) : rev[m] = b
    <3>1. b \in Written \cup ToSet(todo) \/ \E m \in n + 1 .. Len(rev) : rev[m] = b
      BY <1>1, <2>3 DEF WritersMet
    <3>2. CASE b = t
      <4>1. t \in visited
        BY <1>4, <2>1, <2>3, <3>2
      <4>2. t \in Written \cup ToSet(rev)
        BY <1>1, <1>3, <2>3, <3>2, <4>1 DEF Ordered, Ordering, Unwritten
      <4>3. CASE t \in ToSet(rev)
        <5>1. PICK m \in DOMAIN rev : rev[m] = t
          BY <4>3 DEF ToSet
        <5>2. level[rev[m]] = level[rev[n]] + 1
          BY <2>3, <3>2, <5>1 DEF GradedBy
        <5>3. level[rev[m]] \in Nat /\ level[rev[n]] \in Nat
          BY <1>7, <1>9
        <5>4. ~(m < n) /\ m # n
          BY <1>6, <5>2, <5>3 DEF Climbs
        <5>5. m \in n + 1 .. Len(rev)
          BY <1>9, <5>4
        <5> QED
          BY <3>2, <5>1, <5>5
      <4> QED
        BY <3>2, <4>2, <4>3
    <3>3. CASE b # t
      BY <1>3, <2>1, <3>1, <3>3
    <3> QED
      BY <3>2, <3>3
  <2>4. WritersMet'
    BY <1>1, <1>8, <2>1, <2>3 DEF WritersMet
  <2>5. WritersWritten'
    BY <1>1, <1>8 DEF WritersWritten, Ordering
  <2> QED
    BY <1>1, <2>2, <2>4, <2>5 DEF Ordering
<1> QED
  BY <1>11, <1>12

\* Every queue that a writer fills comes before its readers' while the order is built.
LEMMA NextReversed ==
  ASSUME ListInv, SoundInv, Complete, Accepting, Flags, Flags', NEW level \in Level,
         GradedBy(level), ReversedBy(level), [Next]_vars
  PROVE  ReversedBy(level)'
<1> USE DEF ReversedBy
<1>1. /\ TypeOK /\ Ordered /\ Recorded /\ INTERACTIVE \in DOMAIN ModeSlots
      /\ BusConfigs \in [Buses -> BusConfigType] /\ AuxToAuxPlayList \in PlaylistType
      /\ pending \in Seq(Buses) /\ rev \in Seq(Buses) /\ sinks \in Seq(Buses)
      /\ BusCount \in Nat /\ Buses = 0 .. BusCount - 1 /\ auxP \in Nat
  BY BusesFinite DEF ListInv, Typed, SoundInv, Types, TypeOK, Buses
<1>2. ToSet(<<>>) = {} /\ DOMAIN <<>> = {}
  BY DEF ToSet
<1>3. CASE Insert
  <2>1. /\ parserPc = "check" /\ BusConfigs' = Connected(BusConfigs, call.slot)
        /\ accepted' = accepted \cup {call.slot} /\ auxP' = 0 /\ UNCHANGED AuxToAuxPlayList
    BY <1>3 DEF Insert, playlists
  <2>2. CASE default
    <3>1. parserPc' = "idle"
      BY <1>3, <2>2 DEF Insert, Return
    <3>2. call.slot = DefaultSlot
      BY <2>1, <2>2 DEF SoundInv, Types
    <3>3. \A b \in Buses : BusConfigs'[b].hasParent <=> BusConfigs[b].hasParent
      BY <1>1, <1>2, <2>1, <3>2, ConnectedFlags, DefaultHasNoEdges
    <3>4. Edges(accepted)' = Edges(accepted)
      <4>1. Edges(accepted)' = Edges(accepted) \cup EdgesOf(DefaultSlot)
        BY <2>1, <3>2, EdgesAdd
      <4> QED
        BY <4>1, DefaultHasNoEdges
    <3>5. WritersInList'
      BY <2>1, <3>3, <3>4 DEF WritersInList, Ordering
    <3> QED
      BY <3>1, <3>5 DEF Levelled, Ordering
  <2>3. CASE ~default
    <3>1. parserPc' = "write" /\ pending' = Ascending(Parents(BusConfigs'))
      BY <1>3, <2>3 DEF Insert, BeginOrder
    <3>2. PICK S \in SUBSET Buses : S = Parents(BusConfigs')
      BY DEF Parents
    <3>3. ToSet(Ascending(S)) = S
      BY AscendingFacts
    <3>4. ToSet(pending') = Parents(BusConfigs')
      BY <3>1, <3>2, <3>3
    <3>5. ASSUME NEW n \in DOMAIN pending', NEW b \in Buses
          PROVE  <<b, pending'[n]>> \notin Edges(accepted)'
      <4>1. pending'[n] \in Parents(BusConfigs')
        BY <3>4 DEF ToSet
      <4>2. pending'[n] \in Buses /\ ~BusConfigs'[pending'[n]].hasParent
        BY <4>1 DEF Parents
      <4> QED
        BY <4>2 DEF Flags
    <3>6. WritersPending'
      BY <3>5 DEF WritersPending
    <3>7. WritersWritten'
      <4>1. 0 .. auxP' - 1 = {}
        BY <2>1
      <4> QED
        BY <4>1 DEF WritersWritten
    <3> QED
      BY <3>1, <3>6, <3>7 DEF Levelled, Ordering
  <2> QED
    BY <2>2, <2>3
<1>4. CASE WriteEntry
  <2> DEFINE b == Head(pending)
  <2>1. /\ parserPc = "write" /\ parserPc' = "write" /\ pending # <<>> /\ pending' = Tail(pending)
        /\ UNCHANGED <<BusConfigs, accepted>>
    BY <1>4 DEF WriteEntry, graph, history
  <2>2. /\ auxP' = auxP + 1 /\ Written' = Written \cup {b}
        /\ \A n \in 0 .. auxP - 1 : AuxToAuxPlayList'[n] = AuxToAuxPlayList[n]
        /\ AuxToAuxPlayList'[auxP] = b
    BY <1>1, <1>4, WriteFacts
  <2>3. /\ b = pending[1] /\ pending' \in Seq(Buses) /\ Len(pending') = Len(pending) - 1
        /\ \A n \in 1 .. Len(pending') : n + 1 \in 1 .. Len(pending) /\ pending'[n] = pending[n + 1]
        /\ Len(pending) \in Nat /\ Len(pending) >= 1
    <3>1. PICK r : r = pending'
      OBVIOUS
    <3>2. r = Tail(pending) /\ pending \in Seq(Buses) /\ pending # <<>>
      BY <1>1, <2>1, <3>1
    <3>3. /\ b = pending[1] /\ r \in Seq(Buses) /\ Len(r) = Len(pending) - 1 /\ Len(pending) >= 1
          /\ \A n \in 1 .. Len(r) : n + 1 \in 1 .. Len(pending) /\ r[n] = pending[n + 1]
      BY <3>2
    <3> QED
      BY <1>1, <3>1, <3>3
  <2> HIDE DEF b
  <2>4. Edges(accepted)' = Edges(accepted)
    BY <2>1 DEF Edges
  <2>5. WritersWritten /\ WritersPending
    BY <2>1 DEF Ordering
  <2>6. ASSUME NEW n \in 0 .. auxP' - 1, NEW w \in Buses,
               <<w, AuxToAuxPlayList'[n]>> \in Edges(accepted), BusConfigs[w].hasParent
        PROVE  \E m \in 0 .. n - 1 : AuxToAuxPlayList'[m] = w
    <3>1. CASE n \in 0 .. auxP - 1
      <4>1. PICK m \in 0 .. n - 1 : AuxToAuxPlayList[m] = w
        BY <2>2, <2>5, <2>6, <3>1 DEF WritersWritten
      <4>2. m \in 0 .. auxP - 1
        BY <1>1, <3>1
      <4> QED
        BY <2>2, <4>1, <4>2
    <3>2. CASE n = auxP
      <4>1. 1 \in DOMAIN pending /\ 1 .. 1 - 1 = {}
        BY <1>1, <2>3
      <4>2. <<w, pending[1]>> \in Edges(accepted)
        BY <2>2, <2>3, <2>6, <3>2
      <4>3. w \in Written
        BY <2>5, <2>6, <4>1, <4>2 DEF WritersPending
      <4>4. PICK m \in 0 .. auxP - 1 : AuxToAuxPlayList[m] = w
        BY <4>3 DEF Written
      <4> QED
        BY <2>2, <3>2, <4>4
    <3> QED
      BY <1>1, <2>2, <3>1, <3>2
  <2>7. ASSUME NEW n \in DOMAIN pending', NEW w \in Buses,
               <<w, pending'[n]>> \in Edges(accepted), BusConfigs[w].hasParent
        PROVE  w \in Written' \/ \E m \in 1 .. n - 1 : pending'[m] = w
    <3>1. n \in 1 .. Len(pending') /\ n + 1 \in DOMAIN pending /\ pending'[n] = pending[n + 1]
      <4>1. n \in 1 .. Len(pending')
        BY <2>3
      <4>2. DOMAIN pending = 1 .. Len(pending)
        BY <1>1
      <4> QED
        BY <2>3, <4>1, <4>2
    <3>2. w \in Written \/ \E m \in 1 .. n + 1 - 1 : pending[m] = w
      BY <2>5, <2>7, <3>1 DEF WritersPending
    <3>3. ASSUME NEW m \in 1 .. n + 1 - 1, pending[m] = w
          PROVE  w = b \/ \E k \in 1 .. n - 1 : pending'[k] = w
      <4>1. CASE m = 1
        BY <2>3, <3>3, <4>1
      <4>2. CASE m # 1
        <5>1. m - 1 \in 1 .. n - 1 /\ m - 1 \in 1 .. Len(pending') /\ m - 1 + 1 = m
          BY <2>3, <3>1, <4>2
        <5> QED
          BY <2>3, <3>3, <5>1
      <4> QED
        BY <4>1, <4>2
    <3> QED
      BY <2>2, <3>2, <3>3
  <2>8. WritersWritten'
    BY <2>1, <2>4, <2>6 DEF WritersWritten
  <2>9. WritersPending'
    BY <2>1, <2>4, <2>7 DEF WritersPending
  <2> QED
    BY <2>1, <2>8, <2>9 DEF Levelled, Ordering
<1>5. CASE NextSink
  <2>1. /\ parserPc = "write" /\ parserPc' = "traverse" /\ rev' = <<>> /\ todo' = <<Head(sinks)>>
        /\ UNCHANGED <<BusConfigs, accepted, AuxToAuxPlayList, auxP>>
    BY <1>5 DEF NextSink, graph, playlists, history
  <2>2. DOMAIN todo' = {1} /\ ToSet(rev') = {} /\ DOMAIN rev' = {}
    BY <1>2, <2>1
  <2>3. Levelled(level)'
    BY <2>2 DEF Levelled, Climbs, TwoLevels
  <2>4. WritersWritten'
    BY <2>1 DEF WritersWritten, Ordering, Edges
  <2>5. WritersMet'
    BY <2>2 DEF WritersMet
  <2> QED
    BY <2>1, <2>3, <2>4, <2>5 DEF Ordering
<1>6. CASE TraverseStep
  BY <1>1, <1>6, TraverseReversed
<1>7. CASE TraverseDone
  <2>1. /\ parserPc = "traverse" /\ parserPc' = "write" /\ todo = <<>> /\ pending' = Reverse(rev)
        /\ UNCHANGED <<BusConfigs, accepted, AuxToAuxPlayList, auxP>>
    BY <1>7 DEF TraverseDone, Order, graph, playlists, history
  <2> DEFINE N == Len(rev)
  <2>2. /\ N \in Nat /\ DOMAIN pending' = 1 .. N /\ DOMAIN rev = 1 .. N
        /\ \A n \in 1 .. N : N - n + 1 \in 1 .. N /\ pending'[n] = rev[N - n + 1]
    <3>1. PICK r : r = pending'
      OBVIOUS
    <3>2. r = Reverse(rev) /\ rev \in Seq(Buses)
      BY <1>1, <2>1, <3>1
    <3>3. /\ r \in Seq(Buses) /\ Len(r) = Len(rev)
          /\ \A n \in 1 .. Len(rev) : Len(rev) - n + 1 \in 1 .. Len(rev) /\ r[n] = rev[Len(rev) - n + 1]
      BY <3>2, ReverseFacts
    <3> QED
      BY <3>1, <3>2, <3>3
  <2> HIDE DEF N
  <2>3. Written' = Written /\ Edges(accepted)' = Edges(accepted)
    BY <2>1 DEF Written, Edges
  <2>4. ASSUME NEW n \in DOMAIN pending', NEW w \in Buses,
               <<w, pending'[n]>> \in Edges(accepted), BusConfigs[w].hasParent
        PROVE  w \in Written \/ \E m \in 1 .. n - 1 : pending'[m] = w
    <3> DEFINE k == N - n + 1
    <3>1. n \in 1 .. N /\ k \in 1 .. N /\ pending'[n] = rev[k]
      BY <2>2
    <3>2. w \in Written \/ \E m \in k + 1 .. N : rev[m] = w
      BY <1>2, <2>1, <2>2, <2>4, <3>1 DEF WritersMet, N
    <3>3. ASSUME NEW m \in k + 1 .. N, rev[m] = w PROVE \E j \in 1 .. n - 1 : pending'[j] = w
      <4>1. N - m + 1 \in 1 .. n - 1 /\ N - m + 1 \in 1 .. N /\ N - (N - m + 1) + 1 = m
        BY <2>2, <3>1
      <4>2. pending'[N - m + 1] = rev[m]
        BY <2>2, <4>1
      <4> QED
        BY <3>3, <4>1, <4>2
    <3> QED
      BY <3>2, <3>3
  <2>5. WritersPending'
    BY <2>1, <2>3, <2>4 DEF WritersPending
  <2>6. WritersWritten'
    BY <2>1, <2>3 DEF WritersWritten, Ordering
  <2> QED
    BY <2>1, <2>5, <2>6 DEF Levelled, Ordering
<1>8. CASE ClearRest
  <2>1. /\ parserPc = "write" /\ parserPc' = "idle"
        /\ AuxToAuxPlayList' = [b \in Buses |-> IF b < auxP THEN AuxToAuxPlayList[b] ELSE -1]
        /\ UNCHANGED <<BusConfigs, accepted>>
    BY <1>8 DEF ClearRest, Return, graph, history
  <2>2. WritersWritten
    BY <2>1 DEF Ordering
  <2>3. ASSUME NEW n \in Buses, NEW w \in Buses, AuxToAuxPlayList'[n] # -1,
               BusConfigs[w].hasParent, <<w, AuxToAuxPlayList'[n]>> \in Edges(accepted)
        PROVE  \E m \in 0 .. n - 1 : AuxToAuxPlayList'[m] = w
    <3>1. n < auxP /\ AuxToAuxPlayList'[n] = AuxToAuxPlayList[n]
      BY <2>1, <2>3
    <3>2. n \in 0 .. auxP - 1
      BY <1>1, <3>1
    <3>3. PICK m \in 0 .. n - 1 : AuxToAuxPlayList[m] = w
      BY <2>2, <2>3, <3>1, <3>2 DEF WritersWritten
    <3>4. m \in Buses /\ m < auxP
      BY <1>1, <3>1
    <3> QED
      BY <2>1, <3>3, <3>4
  <2>4. WritersInList'
    BY <2>1, <2>3 DEF WritersInList, Edges
  <2> QED
    BY <2>1, <2>4 DEF Levelled, Ordering
<1>9. CASE UNCHANGED <<BusConfigs, accepted, AuxToAuxPlayList, parserPc, visited, todo, rev,
                       pending, sinks, auxP>>
  <2>1. Levelled(level)' /\ Ordering' = Ordering
    BY <1>9 DEF Levelled, Climbs, TwoLevels, Ordering
  <2>2. Written' = Written /\ Edges(accepted)' = Edges(accepted)
    BY <1>9 DEF Written, Edges
  <2>3. /\ WritersWritten => WritersWritten'
        /\ WritersPending => WritersPending'
    BY <1>9, <2>2 DEF WritersWritten, WritersPending
  <2>4. /\ WritersMet => WritersMet'
        /\ WritersInList => WritersInList'
    BY <1>9, <2>2 DEF WritersMet, WritersInList
  <2> QED
    BY <1>9, <2>1, <2>3, <2>4
<1>10. CASE ~Ordering /\ ~Ordering' /\ ~Insert
  <2>1. /\ \A b \in Buses : BusConfigs'[b].hasParent <=> BusConfigs[b].hasParent
        /\ accepted' = accepted
    BY <1>1, <1>10, GraphStep DEF GraphKept
  <2>2. Edges(accepted)' = Edges(accepted)
    BY <2>1 DEF Edges
  <2>3. CASE UNCHANGED AuxToAuxPlayList
    BY <1>10, <2>1, <2>2, <2>3 DEF WritersInList, Levelled, Ordering
  <2>4. CASE ~configStatus
    <3>1. Edges(accepted) = {}
      BY <2>4 DEF Accepting, Edges
    <3> QED
      BY <1>10, <2>2, <3>1 DEF WritersInList, Levelled, Ordering
  <2>5. CASE WriteEntry \/ ClearRest
    BY <1>10, <2>5 DEF WriteEntry, ClearRest, Ordering
  <2> QED
    BY <2>3, <2>4, <2>5, ThirdListStep
<1> QED
  BY <1>3, <1>4, <1>5, <1>6, <1>7, <1>8, <1>9, <1>10, OutsideOrder

\* A grading of the edges is a level of every bus.
LEMMA GradedLevels ==
  ASSUME accepted \subseteq Slots \cup {DefaultSlot}, Graded(Edges(accepted))
  PROVE  \E level \in Level : GradedBy(level)
<1> DEFINE E == Edges(accepted)
           X == UNION {{e[1], e[2]} : e \in E}
<1>1. PICK part \in [X -> 0 .. BusCount - 1] : \A e \in E : part[e[1]] = part[e[2]] + 1
  BY DEF Graded
<1> DEFINE level == [b \in Buses |-> IF b \in X THEN part[b] ELSE 0]
<1>2. ASSUME NEW e \in E PROVE e[1] \in X /\ e[2] \in X /\ e[1] \in Buses /\ e[2] \in Buses
  <2>1. PICK s \in accepted : e \in EdgesOf(s)
    BY DEF Edges
  <2>2. ToSet(s.auxin) \subseteq Buses /\ ToSet(s.auxout) \subseteq Buses
    BY SlotTypes
  <2> QED
    BY <2>1, <2>2 DEF EdgesOf
<1>3. level \in Level
  <2>1. 0 \in 0 .. BusCount - 1
    BY BusCountAssumption
  <2> QED
    BY <2>1 DEF Level
<1>4. ASSUME NEW e \in E PROVE level[e[1]] = level[e[2]] + 1
  <2>1. level[e[1]] = part[e[1]] /\ level[e[2]] = part[e[2]]
    BY <1>2
  <2> QED
    BY <1>1, <2>1
<1> HIDE DEF level
<1>5. GradedBy(level)
  BY <1>4 DEF GradedBy
<1> QED
  BY <1>3, <1>5

LEMMA WriterBefore ==
  ASSUME ListInv, WalkInv, Accepting, Flags, Chainless, EveryBusPlayed, audioPc = "send",
         NEW level \in Level, GradedBy(level), ReversedBy(level),
         NEW r \in playing, NEW w \in playing, NEW b \in ToSet(w.auxout) \cap ToSet(r.auxin),
         NEW q \in QueuesOf(r)
  PROVE  Before(<<Class(w), b>>, q)
<1> DEFINE p == <<Class(w), b>>
<1>1. /\ TypeOK /\ r \in accepted /\ w \in accepted
      /\ r \in Slots \cup {DefaultSlot} /\ w \in Slots \cup {DefaultSlot}
  BY DEF ListInv, Typed, TypeOK, Accepting
<1>2. /\ r.auxin # <<>> /\ w.auxout # <<>> /\ b \in Buses
      /\ ToSet(r.auxout) \subseteq Buses /\ w.auxin \in Seq(Buses) /\ ToSet(w.auxin) \subseteq Buses
  BY <1>1, SlotTypes DEF ToSet
<1>3. /\ Class(w) = IF w.auxin = <<>> THEN "TO_AUX" ELSE "AUX_TO_AUX"
      /\ Class(r) = IF r.auxout = <<>> THEN "TO_OUT" ELSE "AUX_TO_AUX"
  BY <1>2 DEF Class
<1>4. p \in QueuesOf(w) /\ q[1] = Class(r)
  BY <1>3 DEF QueuesOf
<1>5. p \in ToSet(walk) /\ q \in ToSet(walk)
  BY <1>4 DEF EveryBusPlayed
<1>6. PICK m \in DOMAIN walk, n \in DOMAIN walk : walk[m] = p /\ walk[n] = q
  BY <1>5 DEF ToSet
<1>7. walk \in Seq(Classes \X Buses)
  BY <1>1 DEF TypeOK
<1>8. Len(walk) \in Nat /\ DOMAIN walk = 1 .. Len(walk)
  BY <1>7
<1>9. SUFFICES ASSUME NEW k \in DOMAIN walk, k <= m, walk[k] = q PROVE FALSE
  <2>1. m < n /\ \A k \in 1 .. m : walk[k] # q
    BY <1>6, <1>8, <1>9
  <2> QED
    BY <1>6, <2>1 DEF Before
<1>10. k < m \/ k = m
  BY <1>8, <1>9
<1>11. CASE Class(w) \in Earlier(Class(r))
  <2>1. Class(r) \notin Earlier(Class(w)) \cup {Class(w)}
    BY <1>3, <1>11 DEF Earlier
  <2>2. walk[k][1] = Class(r) /\ walk[m][1] = Class(w)
    BY <1>4, <1>6, <1>9
  <2>3. k = m \/ walk[k][1] \in Earlier(walk[m][1]) \cup {walk[m][1]}
    BY <1>10 DEF WalkInv, ByClass
  <2> QED
    BY <2>1, <2>2, <2>3
<1>12. CASE Class(w) \notin Earlier(Class(r))
  <2>1. Class(w) = "AUX_TO_AUX" /\ Class(r) = "AUX_TO_AUX" /\ w.auxin # <<>> /\ r.auxout # <<>>
    BY <1>3, <1>12 DEF Earlier
  <2>2. PICK c \in ToSet(r.auxout) : q = <<"AUX_TO_AUX", c>>
    BY <2>1 DEF QueuesOf
  <2>3. c \in Buses /\ <<b, c>> \in Edges(accepted)
    BY <1>1, <1>2 DEF Edges, EdgesOf
  <2>4. BusConfigs[b].hasParent
    <3>1. Head(w.auxin) \in ToSet(w.auxin)
      BY <1>2, <2>1, HeadAndTail
    <3>2. <<Head(w.auxin), b>> \in Edges(accepted) /\ Head(w.auxin) \in Buses
      BY <1>1, <1>2, <3>1 DEF Edges, EdgesOf
    <3> QED
      BY <1>2, <3>2 DEF Flags
  <2>5. ~INTERACTIVE
    BY <1>1, <1>2, <2>1 DEF Chainless
  <2>6. ~Ordering
    BY <2>5 DEF WalkInv, ScoreIsRead, Ordering
  <2>7. WritersInList /\ Solid(AuxToAuxPlayList)
    BY <2>6 DEF ReversedBy, ListInv
  <2>8. b # c
    <3>1. level[b] = level[c] + 1
      BY <2>3 DEF GradedBy
    <3>2. level[c] \in Nat
      BY <2>3, BusesFinite DEF Level
    <3> QED
      BY <3>1, <3>2
  <2>9. /\ k < m /\ walk[k][1] = "AUX_TO_AUX" /\ walk[m][1] = "AUX_TO_AUX"
        /\ walk[k][2] = c /\ walk[m][2] = b
    BY <1>6, <1>9, <1>10, <2>1, <2>2, <2>8
  <2>10. PICK i \in Buses, j \in Buses :
           i < j /\ AuxToAuxPlayList[i] = c /\ AuxToAuxPlayList[j] = b
    <3>1. ListOf("AUX_TO_AUX") = AuxToAuxPlayList
      BY DEF ListOf
    <3> QED
      BY <2>5, <2>9, <3>1 DEF WalkInv, Along
  <2>11. c # -1 /\ b # -1
    BY <1>2, <2>3, BusesFinite
  <2>12. PICK h \in 0 .. i - 1 : AuxToAuxPlayList[h] = b
    BY <1>2, <2>3, <2>4, <2>7, <2>10, <2>11 DEF WritersInList
  <2>13. h \in Buses /\ h < j
    BY <2>10, <2>12, BusesFinite DEF Buses
  <2> QED
    BY <2>7, <2>10, <2>11, <2>12, <2>13 DEF Solid
<1> QED
  BY <1>11, <1>12

\* Whatever an instrument reads from an aux bus has been written before it runs, in
\* every slice (create_play_order, inTraverse), if all the ways from one aux bus to
\* another have the same length; under the conditions of EveryQueueIsPlayed.
THEOREM WritersArePlayedFirst ==
  ASSUME NEW K \in Nat, Suffices(K), NoChainInSession
  PROVE  Spec => []WritersFirstIfGraded
<1>1. PlayedInv(K) => EveryBusPlayed
  BY PlayedAll
<1>2. PlayedInv(K) /\ Reversed => WritersFirstIfGraded
  <2> SUFFICES ASSUME PlayedInv(K), Reversed, audioPc = "send", Graded(Edges(accepted)),
                      NEW r \in playing, NEW w \in playing,
                      NEW b \in ToSet(w.auxout) \cap ToSet(r.auxin), NEW q \in QueuesOf(r)
               PROVE  Before(<<Class(w), b>>, q)
    BY DEF WritersFirstIfGraded, WritersFirst
  <2>1. accepted \subseteq Slots \cup {DefaultSlot}
    BY DEF PlayedInv, LoopInv, SoundInv, Types
  <2>2. PICK level \in Level : GradedBy(level)
    BY <2>1, GradedLevels
  <2>3. ReversedBy(level)
    BY <2>2 DEF Reversed
  <2>4. ListInv /\ WalkInv /\ Accepting /\ Flags /\ Chainless /\ EveryBusPlayed
    BY <1>1 DEF PlayedInv
  <2> QED
    BY <2>2, <2>3, <2>4, WriterBefore
<1>3. Init => PlayedInv(K) /\ Reversed
  BY InitPlayed, InitReversed
<1>4. PlayedInv(K) /\ Reversed /\ [Next]_vars => PlayedInv(K)' /\ Reversed'
  <2> SUFFICES ASSUME PlayedInv(K), Reversed, [Next]_vars PROVE PlayedInv(K)' /\ Reversed'
    OBVIOUS
  <2>1. PlayedInv(K)'
    BY NextPlayed
  <2>2. ListInv /\ SoundInv /\ Complete /\ Accepting /\ Flags
    BY DEF PlayedInv, LoopInv
  <2>3. Flags'
    BY <2>1 DEF PlayedInv
  <2>4. ASSUME NEW level \in Level, GradedBy(level)' PROVE ReversedBy(level)'
    <3>1. TypeOK /\ INTERACTIVE \in DOMAIN ModeSlots
      BY <2>2 DEF ListInv, Typed, SoundInv, Types
    <3>2. accepted \subseteq accepted'
      BY <3>1, GraphStep DEF GraphKept, Insert
    <3>3. Edges(accepted) \subseteq Edges(accepted)'
      BY <3>2 DEF Edges
    <3>4. GradedBy(level)
      BY <2>4, <3>3 DEF GradedBy
    <3>5. ReversedBy(level)
      BY <3>4 DEF Reversed
    <3> QED
      BY <2>2, <2>3, <3>4, <3>5, NextReversed
  <2> QED
    BY <2>1, <2>4 DEF Reversed
<1> QED
  BY <1>2, <1>3, <1>4, PTL DEF Spec
=============================================================================
