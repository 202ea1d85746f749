--------------------------- MODULE BusGraphProof ----------------------------
(***************************************************************************)
(* The search for loops of bus_config, for any number of buses, names and  *)
(* configurations: it refuses no configuration that closes no loop, and,   *)
(* as long as no list of inputs is started again, lets none pass that      *)
(* does.                                                                   *)
(***************************************************************************)
EXTENDS BusGraph, FiniteSetTheorems, SequenceTheorems, TLAPS

Types ==
  /\ INTERACTIVE \in DOMAIN ModeSlots
  /\ BusConfigs \in [Buses -> BusConfigType]
  /\ \A b \in Buses : Len(BusConfigs[b].inConfig) < BusCount
  /\ accepted \subseteq Slots \cup {DefaultSlot}
  /\ calls \in Nat /\ calls <= MaxCalls[INTERACTIVE]
  /\ parserPc \in {"default", "check"} =>
       call.slot \in ModeSlots[INTERACTIVE] \cup {DefaultSlot}
  /\ parserPc = "default" => default
  /\ parserPc \in {"default", "check"} /\ default => call.slot = DefaultSlot
  /\ parserPc = "check" => todo \in Seq(Buses) /\ visited \subseteq Buses
                           /\ default \in BOOLEAN

\* What the lists of inputs hold is an edge of an accepted configuration.
Recorded ==
  \A b \in Buses : \A a \in ToSet(BusConfigs[b].inConfig) : <<a, b>> \in Edges(accepted)

\* From every bus that the search has met a way leads to the slot's inputs.
Met ==
  parserPc = "check" =>
    \A b \in visited \cup ToSet(todo) :
      \/ b \in ToSet(call.slot.auxin)
      \/ \E c \in visited : <<b, c>> \in Edges(accepted)

SoundInv == Types /\ Recorded /\ Met /\ LoopCheckIsExact

-----------------------------------------------------------------------------
(* Slots, sequences, and graphs.                                           *)

LEMMA SlotTypes ==
  ASSUME NEW s \in Slots \cup {DefaultSlot}
  PROVE  /\ s.auxin \in Seq(Buses) /\ s.auxout \in Seq(Buses)
         /\ ToSet(s.auxin) \subseteq Buses /\ ToSet(s.auxout) \subseteq Buses
<1>1. CASE s \in Slots
  BY <1>1, SlotAssumption DEF ToSet
<1>2. CASE s = DefaultSlot
  BY <1>2 DEF DefaultSlot, ToSet
<1> QED
  BY <1>1, <1>2

LEMMA DefaultHasNoEdges ==
  /\ DefaultSlot.auxin = <<>> /\ DefaultSlot.auxout = <<>>
  /\ EdgesOf(DefaultSlot) = {}
BY DEF DefaultSlot, EdgesOf, ToSet

LEMMA ModeSlotsAreSlots ==
  ASSUME NEW m \in DOMAIN ModeSlots
  PROVE  ModeSlots[m] \subseteq Slots
BY DEF Slots

LEMMA HeadAndTail ==
  ASSUME NEW S, NEW q \in Seq(S), q # <<>>
  PROVE  /\ Head(q) \in S /\ Tail(q) \in Seq(S)
         /\ ToSet(q) = {Head(q)} \cup ToSet(Tail(q))
<1>1. /\ Head(q) = q[1] /\ Tail(q) \in Seq(S) /\ Len(Tail(q)) = Len(q) - 1
      /\ Len(q) \in Nat /\ Len(q) >= 1
      /\ \A n \in 1 .. Len(q) - 1 : Tail(q)[n] = q[n + 1]
  OBVIOUS
<1>2. DOMAIN q = 1 .. Len(q) /\ DOMAIN Tail(q) = 1 .. Len(q) - 1
  BY <1>1
<1>3. ASSUME NEW n \in 1 .. Len(q)
      PROVE  q[n] \in {Head(q)} \cup ToSet(Tail(q))
  <2>1. CASE n = 1
    BY <1>1, <2>1
  <2>2. CASE n # 1
    <3>1. n - 1 \in 1 .. Len(q) - 1
      BY <1>1, <2>2
    <3>2. Tail(q)[n - 1] = q[n]
      BY <1>1, <3>1
    <3> QED
      BY <1>2, <3>1, <3>2 DEF ToSet
  <2> QED
    BY <2>1, <2>2
<1>4. ASSUME NEW n \in 1 .. Len(q) - 1
      PROVE  Tail(q)[n] \in ToSet(q)
  <2>1. n + 1 \in 1 .. Len(q) /\ Tail(q)[n] = q[n + 1]
    BY <1>1
  <2> QED
    BY <1>2, <2>1 DEF ToSet
<1>5. Head(q) \in ToSet(q)
  BY <1>1, <1>2 DEF ToSet
<1> QED
  BY <1>1, <1>2, <1>3, <1>4, <1>5 DEF ToSet

LEMMA ConcatSet ==
  ASSUME NEW S, NEW q \in Seq(S), NEW r \in Seq(S)
  PROVE  q \o r \in Seq(S) /\ ToSet(q \o r) = ToSet(q) \cup ToSet(r)
<1>1. /\ q \o r \in Seq(S) /\ Len(q) \in Nat /\ Len(r) \in Nat
      /\ Len(q \o r) = Len(q) + Len(r)
      /\ \A n \in 1 .. Len(q) : (q \o r)[n] = q[n]
      /\ \A n \in Len(q) + 1 .. Len(q) + Len(r) : (q \o r)[n] = r[n - Len(q)]
  OBVIOUS
<1>2. /\ DOMAIN (q \o r) = 1 .. Len(q) + Len(r)
      /\ DOMAIN q = 1 .. Len(q) /\ DOMAIN r = 1 .. Len(r)
  BY <1>1
<1>3. ASSUME NEW n \in 1 .. Len(q) + Len(r)
      PROVE  (q \o r)[n] \in ToSet(q) \cup ToSet(r)
  <2>1. CASE n <= Len(q)
    BY <1>1, <1>2, <2>1 DEF ToSet
  <2>2. CASE n > Len(q)
    <3>1. n - Len(q) \in 1 .. Len(r) /\ (q \o r)[n] = r[n - Len(q)]
      BY <1>1, <2>2
    <3> QED
      BY <1>2, <3>1 DEF ToSet
  <2> QED
    BY <1>1, <2>1, <2>2
<1>4. ASSUME NEW n \in 1 .. Len(q)
      PROVE  q[n] \in ToSet(q \o r)
  BY <1>1, <1>2 DEF ToSet
<1>5. ASSUME NEW n \in 1 .. Len(r)
      PROVE  r[n] \in ToSet(q \o r)
  <2>1. Len(q) + n \in Len(q) + 1 .. Len(q) + Len(r)
    BY <1>1
  <2>2. (q \o r)[Len(q) + n] = r[n]
    BY <1>1, <2>1
  <2>3. Len(q) + n \in DOMAIN (q \o r)
    BY <1>1, <1>2
  <2> QED
    BY <2>2, <2>3 DEF ToSet
<1> DEFINE c == q \o r
<1>6. DOMAIN c = 1 .. Len(q) + Len(r) /\ c \in Seq(S)
  BY <1>1, <1>2
<1>7. ToSet(c) \subseteq ToSet(q) \cup ToSet(r)
  <2>1. \A n \in 1 .. Len(q) + Len(r) : c[n] \in ToSet(q) \cup ToSet(r)
    BY <1>3
  <2> HIDE DEF c
  <2> QED
    BY <1>6, <2>1 DEF ToSet
<1>8. ToSet(q) \subseteq ToSet(c) /\ ToSet(r) \subseteq ToSet(c)
  <2>1. /\ \A n \in 1 .. Len(q) : q[n] \in ToSet(c)
        /\ \A n \in 1 .. Len(r) : r[n] \in ToSet(c)
    BY <1>4, <1>5
  <2> DEFINE T == ToSet(c)
  <2> HIDE DEF T, c
  <2>2. /\ \A n \in 1 .. Len(q) : q[n] \in T
        /\ \A n \in 1 .. Len(r) : r[n] \in T
    BY <2>1 DEF T
  <2> QED
    BY <1>2, <2>2 DEF ToSet, T
<1> HIDE DEF c
<1>9. c \in Seq(S) /\ ToSet(c) = ToSet(q) \cup ToSet(r)
  BY <1>6, <1>7, <1>8
<1> QED
  BY <1>9 DEF c

\* The same without the set, as the provers find it more easily.
LEMMA ConcatBuses ==
  ASSUME NEW q, q \in Seq(Buses), NEW r, r \in Seq(Buses)
  PROVE  q \o r \in Seq(Buses) /\ ToSet(q \o r) = ToSet(q) \cup ToSet(r)
BY ConcatSet, Zenon

LEMMA SlotsAreShort ==
  ASSUME NEW s \in Slots \cup {DefaultSlot}
  PROVE  Len(s.auxin) <= BusCount
<1>1. CASE s \in Slots
  <2> DEFINE q == s.auxin
  <2>1. q \in Seq(Buses) /\ IsInjective(q)
    BY <1>1, SlotAssumption
  <2>2. BusCount \in Nat /\ BusCount >= 1
    BY BusCountAssumption
  <2>3. Len(q) \in Nat /\ q \in [1 .. Len(q) -> Buses]
    BY <2>1
  <2> HIDE DEF q
  <2>4. q \in Injection(1 .. Len(q), Buses)
    BY <2>1, <2>3 DEF Injection
  <2>5. IsFiniteSet(Buses) /\ Cardinality(Buses) = BusCount
    BY <2>2, FS_Interval DEF Buses
  <2>6. Cardinality(1 .. Len(q)) <= BusCount
    BY <2>4, <2>5, FS_Injection
  <2>7. Cardinality(1 .. Len(q)) = Len(q)
    BY <2>3, FS_Interval
  <2> QED
    BY <2>6, <2>7 DEF q
<1>2. CASE s = DefaultSlot
  BY <1>2, BusCountAssumption DEF DefaultSlot
<1> QED
  BY <1>1, <1>2

\* A list of inputs never outgrows its entries, and holds nothing but what it was
\* given, and all of it while it has room.
LEMMA AppendedSet ==
  ASSUME NEW list \in Seq(Buses), Len(list) < BusCount,
         NEW ins \in Seq(Buses), Len(ins) <= BusCount
  PROVE  /\ Appended(list, ins) \in Seq(Buses)
         /\ Len(Appended(list, ins)) < BusCount
         /\ ToSet(Appended(list, ins)) \subseteq ToSet(list) \cup ToSet(ins)
         /\ Len(list) + Len(ins) < BusCount =>
              /\ Len(Appended(list, ins)) = Len(list) + Len(ins)
              /\ ToSet(Appended(list, ins)) = ToSet(list) \cup ToSet(ins)
<1> DEFINE room == BusCount - 1 - Len(list)
<1>1. room \in Nat /\ Len(list) \in Nat /\ Len(ins) \in Nat /\ BusCount \in Nat
  BY BusCountAssumption
<1>2. Appended(list, ins) = IF Len(ins) <= room THEN list \o ins
                            ELSE SubSeq(ins, room + 2, Len(ins))
  BY DEF Appended
<1>3. CASE Len(ins) <= room
  <2>1. Len(list \o ins) = Len(list) + Len(ins)
    OBVIOUS
  <2> QED
    BY <1>1, <1>2, <1>3, <2>1, ConcatSet
<1>4. CASE ~ (Len(ins) <= room)
  <2> DEFINE m == room + 2
             n == Len(ins)
             rest == SubSeq(ins, m, n)
  <2>1. m \in Int /\ n \in Int /\ m >= 2 /\ m <= n + 1
    BY <1>1, <1>4
  <2>2. \A i \in m .. n : i \in DOMAIN ins
    BY <2>1
  <2>3. \A i \in m .. n : ins[i] \in Buses /\ ins[i] \in ToSet(ins)
    BY <2>2 DEF ToSet
  <2> HIDE DEF m, n
  <2>4. /\ rest \in Seq(Buses)
        /\ Len(rest) = IF m <= n THEN n - m + 1 ELSE 0
        /\ \A i \in 1 .. n - m + 1 : rest[i] = ins[m + i - 1]
    BY <2>1, <2>3, SubSeqProperties
  <2> HIDE DEF rest
  <2>5. Len(rest) = n - m + 1 /\ DOMAIN rest = 1 .. n - m + 1
    BY <2>1, <2>4
  <2>6. \A i \in 1 .. n - m + 1 : m + i - 1 \in m .. n
    BY <2>1
  <2>7. ToSet(rest) \subseteq ToSet(ins)
    BY <2>3, <2>4, <2>5, <2>6 DEF ToSet
  <2>8. Len(rest) < BusCount
    BY <1>1, <2>5 DEF m, n
  <2>9. Appended(list, ins) = rest
    BY <1>2, <1>4 DEF rest, m, n
  <2> QED
    BY <1>1, <1>4, <2>4, <2>7, <2>8, <2>9
<1> QED
  BY <1>3, <1>4

LEMMA MoreEdgesMoreLoops ==
  ASSUME NEW E, NEW F, E \subseteq F, Acyclic(F)
  PROVE  Acyclic(E)
BY DEF Acyclic

LEMMA EdgesGrow ==
  ASSUME NEW A, NEW B, A \subseteq B
  PROVE  Edges(A) \subseteq Edges(B)
BY DEF Edges

LEMMA EdgesAdd ==
  ASSUME NEW A, NEW s
  PROVE  Edges(A \cup {s}) = Edges(A) \cup EdgesOf(s)
BY DEF Edges

\* What the search has met, and the bus that closes the loop, have no way out.
LEMMA LoopClosed ==
  ASSUME NEW V \in SUBSET Buses, NEW t \in Buses, NEW A, NEW s,
         t \in ToSet(s.auxout),
         \A b \in V \cup {t} : \/ b \in ToSet(s.auxin)
                               \/ \E c \in V : <<b, c>> \in Edges(A)
  PROVE  ~Acyclic(Edges(A \cup {s}))
<1>1. \A b \in V \cup {t} : \E c \in V \cup {t} : <<b, c>> \in Edges(A \cup {s})
  <2> SUFFICES ASSUME NEW b \in V \cup {t}
               PROVE  \E c \in V \cup {t} : <<b, c>> \in Edges(A \cup {s})
    OBVIOUS
  <2>1. CASE b \in ToSet(s.auxin)
    <3>1. <<b, t>> \in EdgesOf(s)
      BY <2>1 DEF EdgesOf
    <3> QED
      BY <3>1, EdgesAdd
  <2>2. CASE \E c \in V : <<b, c>> \in Edges(A)
    BY <2>2, EdgesAdd
  <2> QED
    BY <2>1, <2>2
<1>2. V \cup {t} \in (SUBSET Buses) \ {{}}
  OBVIOUS
<1> QED
  BY <1>1, <1>2 DEF Acyclic

\* Buses that no way leads into but from themselves, among them the slot's inputs
\* and none of its outputs: the slot closes no loop.
LEMMA NoLoopCloses ==
  ASSUME NEW P \in SUBSET Buses, NEW A, NEW s, Acyclic(Edges(A)),
         ToSet(s.auxin) \subseteq P, P \cap ToSet(s.auxout) = {},
         \A b \in P : \A a : <<a, b>> \in Edges(A) => a \in P
  PROVE  Acyclic(Edges(A \cup {s}))
<1> SUFFICES ASSUME NEW S \in (SUBSET Buses) \ {{}}
             PROVE  \E b \in S : \A c \in S : <<b, c>> \notin Edges(A \cup {s})
  BY DEF Acyclic
<1>1. \A b, c : <<b, c>> \in EdgesOf(s) => b \in P /\ c \notin P
  BY DEF EdgesOf
<1>2. CASE S \subseteq P
  <2>1. PICK b \in S : \A c \in S : <<b, c>> \notin Edges(A)
    BY DEF Acyclic
  <2> QED
    BY <1>1, <1>2, <2>1, EdgesAdd
<1>3. CASE ~ (S \subseteq P)
  <2>1. S \ P \in (SUBSET Buses) \ {{}}
    BY <1>3
  <2>2. PICK b \in S \ P : \A c \in S \ P : <<b, c>> \notin Edges(A)
    BY <2>1 DEF Acyclic
  <2>3. \A c \in S : <<b, c>> \notin Edges(A)
    BY <2>2
  <2> QED
    BY <1>1, <2>3, EdgesAdd
<1> QED
  BY <1>2, <1>3

-----------------------------------------------------------------------------
(* The graph.                                                              *)

LEMMA FlaggedKeeps ==
  ASSUME NEW configs \in [Buses -> BusConfigType], NEW s
  PROVE  /\ Flagged(configs, s) \in [Buses -> BusConfigType]
         /\ \A b \in Buses : Flagged(configs, s)[b].inConfig = configs[b].inConfig
BY DEF Flagged, BusConfigType

LEMMA ConnectedFacts ==
  ASSUME NEW configs \in [Buses -> BusConfigType],
         \A b \in Buses : Len(configs[b].inConfig) < BusCount,
         NEW s \in Slots \cup {DefaultSlot}
  PROVE  /\ Connected(configs, s) \in [Buses -> BusConfigType]
         /\ \A b \in Buses : Connected(configs, s)[b].inConfig =
              IF b \in ToSet(s.auxout) THEN Appended(configs[b].inConfig, s.auxin)
              ELSE configs[b].inConfig
         /\ \A b \in Buses : Len(Connected(configs, s)[b].inConfig) < BusCount
<1>1. \A b \in Buses : configs[b].inConfig \in Seq(Buses)
  BY DEF BusConfigType
<1>2. \A b \in Buses : /\ Appended(configs[b].inConfig, s.auxin) \in Seq(Buses)
                       /\ Len(Appended(configs[b].inConfig, s.auxin)) < BusCount
  BY <1>1, SlotTypes, SlotsAreShort, AppendedSet
<1>3. ASSUME NEW b \in Buses
      PROVE  /\ Connected(configs, s)[b] \in BusConfigType
             /\ Connected(configs, s)[b].inConfig =
                  IF b \in ToSet(s.auxout) THEN Appended(configs[b].inConfig, s.auxin)
                  ELSE configs[b].inConfig
  <2> DEFINE into == b \in ToSet(s.auxout)
             from == b \in ToSet(s.auxin) /\ s.auxout # <<>>
             u == configs[b].auxInUse \/ into \/ from
             p == configs[b].hasParent \/ (into /\ s.auxin # <<>>)
             h == configs[b].hasChild \/ from
             i == IF into THEN Appended(configs[b].inConfig, s.auxin)
                  ELSE configs[b].inConfig
  <2>1. Connected(configs, s)[b] =
          [configs[b] EXCEPT !.auxInUse = u, !.hasParent = p, !.hasChild = h,
                             !.inConfig = i]
    BY DEF Connected, BusConfigType
  <2>2. /\ configs[b] \in BusConfigType
        /\ u \in BOOLEAN /\ p \in BOOLEAN /\ h \in BOOLEAN /\ i \in Seq(Buses)
    BY <1>1, <1>2 DEF BusConfigType
  <2>3. i = IF b \in ToSet(s.auxout) THEN Appended(configs[b].inConfig, s.auxin)
            ELSE configs[b].inConfig
    OBVIOUS
  <2> HIDE DEF u, p, h, i
  <2>4. Connected(configs, s)[b].inConfig = i /\ Connected(configs, s)[b] \in BusConfigType
    BY <2>1, <2>2 DEF BusConfigType
  <2> QED
    BY <2>3, <2>4
<1>5. Connected(configs, s) \in [Buses -> BusConfigType]
  BY <1>3 DEF Connected
<1>6. ASSUME NEW b \in Buses PROVE Len(Connected(configs, s)[b].inConfig) < BusCount
  BY <1>2, <1>3
<1> QED
  BY <1>3, <1>5, <1>6

-----------------------------------------------------------------------------
(* A refusal is justified.                                                 *)

LEMMA InitSound == Init => SoundInv
<1> SUFFICES ASSUME Init PROVE SoundInv
  OBVIOUS
<1>1. /\ INTERACTIVE \in DOMAIN ModeSlots /\ BusConfigs = [b \in Buses |-> NoBus]
      /\ parserPc = "idle" /\ accepted = {} /\ refused = NoSlot /\ calls = 0
  BY DEF Init
<1>2. NoBus \in BusConfigType /\ NoBus.inConfig = <<>>
  BY DEF NoBus, BusConfigType
<1>3. Types
  BY <1>1, <1>2, BusCountAssumption, CallsAssumption DEF Types
<1>4. Recorded /\ Met /\ LoopCheckIsExact
  BY <1>1, <1>2 DEF Recorded, Met, LoopCheckIsExact, ToSet
<1> QED
  BY <1>3, <1>4 DEF SoundInv

\* What most steps leave alone.
Quiet ==
  /\ UNCHANGED <<INTERACTIVE, BusConfigs, accepted, refused, calls>>
  /\ \/ parserPc' \notin {"default", "check"}
     \/ UNCHANGED <<parserPc, call, default, todo, visited>>

LEMMA QuietSteps ==
  ASSUME UNCHANGED INTERACTIVE,
         \/ WriteEntry \/ NextSink \/ TraverseStep \/ TraverseDone \/ ClearRest
         \/ (\E n \in Names : StartNote(n)) \/ ScoreEnds \/ AudioStep
  PROVE  Quiet
<1> USE DEF Quiet, graph, playlists, locals, notes, audio, history
<1>1. CASE WriteEntry \/ NextSink \/ TraverseStep \/ TraverseDone
  BY <1>1 DEF WriteEntry, NextSink, TraverseStep, TraverseDone
<1>2. CASE ClearRest \/ (\E n \in Names : StartNote(n)) \/ ScoreEnds
  BY <1>2 DEF ClearRest, Return, StartNote, ScoreEnds
<1>3. CASE AudioStep
  BY <1>3 DEF AudioStep, BeginSlice, PlayBus, NextClass, EndSlice
<1> QED
  BY <1>1, <1>2, <1>3

LEMMA QuietSound ==
  ASSUME SoundInv, Quiet
  PROVE  SoundInv'
<1> USE DEF Quiet, SoundInv
<1>1. Types'
  BY DEF Types
<1>2. Recorded' /\ LoopCheckIsExact'
  BY DEF Recorded, LoopCheckIsExact
<1>3. Met'
  BY DEF Met
<1> QED
  BY <1>1, <1>2, <1>3

\* The search begins at the inputs of the slot.
LEMMA BeginCheckSound ==
  ASSUME SoundInv, UNCHANGED <<INTERACTIVE, accepted>>,
         calls' \in Nat, calls' <= MaxCalls[INTERACTIVE],
         refused' = NoSlot \/ refused' = refused,
         NEW n, NEW s \in ModeSlots[INTERACTIVE] \cup {DefaultSlot}, NEW configs,
         BeginCheck(n, s, configs), default' \in BOOLEAN, default' => s = DefaultSlot,
         configs \in [Buses -> BusConfigType],
         \A b \in Buses : configs[b].inConfig = BusConfigs[b].inConfig
  PROVE  SoundInv'
<1> USE DEF SoundInv
<1>1. /\ BusConfigs' = configs /\ call'.slot = s /\ parserPc' = "check"
      /\ todo' = s.auxin /\ visited' = {}
  BY DEF BeginCheck
<1>2. s \in Slots \cup {DefaultSlot}
  BY ModeSlotsAreSlots DEF Types
<1>3. s.auxin \in Seq(Buses)
  BY <1>2, SlotTypes
<1>4. Types'
  BY <1>1, <1>3 DEF Types
<1>5. Recorded' /\ LoopCheckIsExact'
  BY <1>1 DEF Recorded, LoopCheckIsExact
<1>6. Met'
  BY <1>1 DEF Met
<1> QED
  BY <1>4, <1>5, <1>6

LEMMA BusConfigSound ==
  ASSUME SoundInv, UNCHANGED INTERACTIVE, NEW n \in Names,
         NEW s \in ModeSlots[INTERACTIVE], BusConfig(n, s)
  PROVE  SoundInv'
<1>1. /\ Flagged(BusConfigs, s) \in [Buses -> BusConfigType]
      /\ \A b \in Buses : Flagged(BusConfigs, s)[b].inConfig = BusConfigs[b].inConfig
  BY FlaggedKeeps DEF SoundInv, Types
<1>2. calls' \in Nat /\ calls' <= MaxCalls[INTERACTIVE]
  BY CallsAssumption DEF BusConfig, SoundInv, Types
<1>3. /\ BeginCheck(n, s, Flagged(BusConfigs, s)) /\ default' = FALSE
      /\ refused' = NoSlot /\ UNCHANGED accepted
  BY DEF BusConfig
<1> QED
  BY <1>1, <1>2, <1>3, BeginCheckSound

LEMMA CheckDefaultSound ==
  ASSUME SoundInv, UNCHANGED INTERACTIVE, CheckDefault
  PROVE  SoundInv'
<1>1. call.slot = DefaultSlot /\ default
  BY DEF CheckDefault, SoundInv, Types
<1> QED
  BY <1>1, BeginCheckSound DEF CheckDefault, SoundInv, Types, history

LEMMA OtherConfigSound ==
  ASSUME SoundInv, UNCHANGED INTERACTIVE,
         \/ \E n \in Names : DefaultConfig(n)
         \/ \E s \in ModeSlots[INTERACTIVE] : MixedOutputs(s)
  PROVE  SoundInv'
<1> USE DEF SoundInv
<1>1. CASE \E n \in Names : DefaultConfig(n)
  <2>1. PICK n \in Names : DefaultConfig(n)
    BY <1>1
  <2> DEFINE clean == IF configStatus THEN BusConfigs
                      ELSE [b \in Buses |-> [BusConfigs[b] EXCEPT !.outInUse = FALSE]]
  <2>2. /\ BusConfigs' = Flagged(clean, DefaultSlot) /\ parserPc' = "default"
        /\ call' = [name |-> n, slot |-> DefaultSlot] /\ default' = TRUE
        /\ UNCHANGED <<calls, accepted, refused>>
    BY <2>1 DEF DefaultConfig, history
  <2>3. /\ clean \in [Buses -> BusConfigType]
        /\ \A b \in Buses : clean[b].inConfig = BusConfigs[b].inConfig
    BY DEF Types, BusConfigType
  <2> HIDE DEF clean
  <2>4. /\ BusConfigs' \in [Buses -> BusConfigType]
        /\ \A b \in Buses : BusConfigs'[b].inConfig = BusConfigs[b].inConfig
    BY <2>2, <2>3, FlaggedKeeps
  <2>5. Types'
    BY <2>2, <2>4 DEF Types
  <2>6. Recorded' /\ LoopCheckIsExact' /\ Met'
    BY <2>2, <2>4 DEF Recorded, LoopCheckIsExact, Met
  <2> QED
    BY <2>5, <2>6
<1>2. CASE \E s \in ModeSlots[INTERACTIVE] : MixedOutputs(s)
  <2>1. /\ \E first : BusConfigs' = Flagged(BusConfigs, first)
        /\ calls < MaxCalls[INTERACTIVE] /\ calls' = calls + 1
        /\ parserPc' = Failed
        /\ UNCHANGED <<accepted, refused>>
    BY <1>2 DEF MixedOutputs, history
  <2>2. /\ BusConfigs' \in [Buses -> BusConfigType]
        /\ \A b \in Buses : BusConfigs'[b].inConfig = BusConfigs[b].inConfig
    BY <2>1, FlaggedKeeps DEF Types
  <2>3. Types'
    BY <2>1, <2>2, CallsAssumption DEF Types, Failed
  <2>4. Recorded' /\ LoopCheckIsExact' /\ Met'
    BY <2>1, <2>2 DEF Recorded, LoopCheckIsExact, Met, Failed
  <2> QED
    BY <2>3, <2>4
<1> QED
  BY <1>1, <1>2

LEMMA CheckStepSound ==
  ASSUME SoundInv, UNCHANGED INTERACTIVE, CheckStep
  PROVE  SoundInv'
<1> USE DEF SoundInv
<1> DEFINE t == Head(todo)
           ins == BusConfigs[t].inConfig
<1>1. /\ parserPc = "check" /\ todo # <<>> /\ todo \in Seq(Buses) /\ visited \subseteq Buses
      /\ UNCHANGED <<BusConfigs, parserPc, call, default, calls, accepted, refused>>
  BY DEF CheckStep, Types, graph, history
<1>2. /\ visited' = IF GoesOn(t) THEN visited \cup {t} ELSE visited
      /\ todo' = Tail(todo) \o (IF GoesOn(t) THEN ins ELSE <<>>)
  BY DEF CheckStep, Visit
<1>3. /\ t \in Buses /\ Tail(todo) \in Seq(Buses)
      /\ ToSet(todo) = {t} \cup ToSet(Tail(todo))
  BY <1>1, HeadAndTail
<1>4. ins \in Seq(Buses) /\ \A a \in ToSet(ins) : <<a, t>> \in Edges(accepted)
  BY <1>3 DEF Types, BusConfigType, Recorded
<1> HIDE DEF t, ins
<1>5. CASE GoesOn(t)
  <2>1. /\ visited' = visited \cup {t} /\ todo' \in Seq(Buses)
        /\ ToSet(todo') = ToSet(Tail(todo)) \cup ToSet(ins)
    <3>1. visited' = visited \cup {t} /\ todo' = Tail(todo) \o ins
      BY <1>2, <1>5
    <3>2. /\ Tail(todo) \o ins \in Seq(Buses)
          /\ ToSet(Tail(todo) \o ins) = ToSet(Tail(todo)) \cup ToSet(ins)
      BY <1>3, <1>4, ConcatBuses
    <3> QED
      BY <3>1, <3>2, Zenon
  <2>2. Types'
    BY <1>1, <1>3, <2>1 DEF Types
  <2>3. Met'
    BY <1>1, <1>3, <1>4, <2>1 DEF Met
  <2>4. Recorded' /\ LoopCheckIsExact'
    BY <1>1 DEF Recorded, LoopCheckIsExact
  <2> QED
    BY <2>2, <2>3, <2>4
<1>6. CASE ~GoesOn(t)
  <2>1. visited' = visited /\ todo' = Tail(todo)
    BY <1>2, <1>3, <1>6
  <2>2. Types'
    BY <1>1, <1>3, <2>1 DEF Types
  <2>3. Met'
    BY <1>1, <1>3, <2>1 DEF Met
  <2>4. Recorded' /\ LoopCheckIsExact'
    BY <1>1 DEF Recorded, LoopCheckIsExact
  <2> QED
    BY <2>2, <2>3, <2>4
<1> QED
  BY <1>5, <1>6

LEMMA LoopFoundSound ==
  ASSUME SoundInv, UNCHANGED INTERACTIVE, LoopFound
  PROVE  SoundInv'
<1> USE DEF SoundInv
<1> DEFINE t == Head(todo)
           s == call.slot
<1>1. /\ parserPc = "check" /\ todo # <<>> /\ todo \in Seq(Buses) /\ visited \subseteq Buses
      /\ t \in ToSet(s.auxout) /\ refused' = s
      /\ parserPc' = Failed
      /\ UNCHANGED <<BusConfigs, calls, accepted>>
  BY DEF LoopFound, Types, graph, Return
<1>2. t \in Buses /\ t \in ToSet(todo)
  BY <1>1, HeadAndTail
<1>3. \A b \in visited \cup {t} : \/ b \in ToSet(s.auxin)
                                  \/ \E c \in visited : <<b, c>> \in Edges(accepted)
  BY <1>1, <1>2 DEF Met
<1> HIDE DEF t, s
<1>4. ~Acyclic(Edges(accepted \cup {s}))
  BY <1>1, <1>2, <1>3, LoopClosed
<1>5. Types'
  BY <1>1 DEF Types, Failed
<1>6. Recorded' /\ Met'
  BY <1>1 DEF Recorded, Met, Failed
<1>7. LoopCheckIsExact'
  BY <1>1, <1>4 DEF LoopCheckIsExact
<1> QED
  BY <1>5, <1>6, <1>7

LEMMA InsertSound ==
  ASSUME SoundInv, UNCHANGED INTERACTIVE, Insert
  PROVE  SoundInv'
<1> USE DEF SoundInv
<1> DEFINE s == call.slot
<1>1. /\ parserPc = "check" /\ BusConfigs' = Connected(BusConfigs, s)
      /\ accepted' = accepted \cup {s}
      /\ parserPc' \in {"idle", "write"}
      /\ UNCHANGED <<calls, refused>>
  BY DEF Insert, Return, BeginOrder
<1>2. s \in Slots \cup {DefaultSlot}
  BY <1>1, ModeSlotsAreSlots DEF Types
<1> HIDE DEF s
<1>3. /\ BusConfigs' \in [Buses -> BusConfigType]
      /\ \A b \in Buses : BusConfigs'[b].inConfig =
           IF b \in ToSet(s.auxout) THEN Appended(BusConfigs[b].inConfig, s.auxin)
           ELSE BusConfigs[b].inConfig
      /\ \A b \in Buses : Len(BusConfigs'[b].inConfig) < BusCount
  BY <1>1, <1>2, ConnectedFacts DEF Types
<1>4. Types'
  BY <1>1, <1>2, <1>3 DEF Types
<1>5. Edges(accepted') = Edges(accepted) \cup EdgesOf(s)
  BY <1>1, EdgesAdd
<1>6. Recorded'
  <2> SUFFICES ASSUME NEW b \in Buses, NEW a \in ToSet(BusConfigs'[b].inConfig)
               PROVE  <<a, b>> \in Edges(accepted')
    BY DEF Recorded
  <2>1. CASE b \in ToSet(s.auxout)
    <3>1. BusConfigs[b].inConfig \in Seq(Buses) /\ Len(BusConfigs[b].inConfig) < BusCount
          /\ s.auxin \in Seq(Buses) /\ Len(s.auxin) <= BusCount
      BY <1>2, SlotTypes, SlotsAreShort DEF Types, BusConfigType
    <3>2. a \in ToSet(BusConfigs[b].inConfig) \/ a \in ToSet(s.auxin)
      BY <1>3, <2>1, <3>1, AppendedSet
    <3> QED
      BY <1>5, <2>1, <3>2 DEF EdgesOf, Recorded
  <2>2. CASE b \notin ToSet(s.auxout)
    BY <1>3, <1>5, <2>2 DEF Recorded
  <2> QED
    BY <2>1, <2>2
<1>7. Met'
  BY <1>1 DEF Met
<1>8. LoopCheckIsExact'
  <2> SUFFICES ASSUME refused # NoSlot, Acyclic(Edges(accepted' \cup {refused}))
               PROVE  FALSE
    BY <1>1 DEF LoopCheckIsExact
  <2>1. Edges(accepted \cup {refused}) \subseteq Edges(accepted' \cup {refused})
    BY <1>1, EdgesGrow
  <2> QED
    BY <2>1, MoreEdgesMoreLoops DEF LoopCheckIsExact
<1> QED
  BY <1>4, <1>6, <1>7, <1>8

-----------------------------------------------------------------------------
(* No loop is accepted, if the lists of inputs are never started again.    *)

\* The commands of the score together give no bus busCount inputs: each of them
\* gives one at most K.
Suffices(K) ==
  \A m \in DOMAIN ModeSlots :
    /\ K * MaxCalls[m] < BusCount
    /\ \A s \in ModeSlots[m] : Len(s.auxin) <= K

\* The bus_config that runs has been counted, but has not given its inputs.
Pending == IF parserPc = "check" /\ ~default THEN 1 ELSE 0

ListsHaveRoom(K) ==
  /\ Pending <= calls
  /\ \A b \in Buses : Len(BusConfigs[b].inConfig) <= K * (calls - Pending)

\* What was accepted has not been forgotten.
Complete ==
  \A b \in Buses : \A a :
    <<a, b>> \in Edges(accepted) => a \in ToSet(BusConfigs[b].inConfig)

\* P are the buses that the search has looked at.
Looked(P) ==
  /\ P \cap ToSet(call.slot.auxout) = {}
  /\ ToSet(call.slot.auxin) \subseteq P \cup ToSet(todo)
  /\ visited \subseteq P
  /\ \A b \in P : ToSet(BusConfigs[b].inConfig) \subseteq P \cup ToSet(todo)
Searched == parserPc = "check" => \E P \in SUBSET Buses : Looked(P)

LoopInv(K) == SoundInv /\ ListsHaveRoom(K) /\ Complete /\ Searched /\ NoFeedback

LEMMA Product ==
  ASSUME NEW k \in Nat, NEW m \in Nat, NEW n \in Nat, m <= n
  PROVE  k * m <= k * n /\ k * m \in Nat /\ k * n \in Nat
<1>1. PICK d \in Nat : n = m + d
  <2>1. n - m \in Nat /\ n = m + (n - m)
    OBVIOUS
  <2> QED
    BY <2>1
<1>2. k * n = k * m + k * d /\ k * d \in Nat /\ k * m \in Nat
  BY <1>1
<1> QED
  BY <1>2

LEMMA LengthsAreNat ==
  ASSUME SoundInv
  PROVE  /\ \A b \in Buses : /\ BusConfigs[b].inConfig \in Seq(Buses)
                             /\ Len(BusConfigs[b].inConfig) \in Nat
         /\ calls \in Nat
BY DEF SoundInv, Types, BusConfigType

LEMMA InitLoop ==
  ASSUME NEW K \in Nat, Init
  PROVE  LoopInv(K)
<1>1. /\ BusConfigs = [b \in Buses |-> NoBus] /\ parserPc = "idle" /\ accepted = {}
      /\ calls = 0
  BY DEF Init
<1>2. NoBus.inConfig = <<>>
  BY DEF NoBus
<1>3. ListsHaveRoom(K)
  BY <1>1, <1>2 DEF ListsHaveRoom, Pending
<1>4. Edges(accepted) = {}
  BY <1>1 DEF Edges
<1>5. Complete /\ Searched /\ NoFeedback
  BY <1>1, <1>4 DEF Complete, Searched, NoFeedback, Acyclic
<1> QED
  BY <1>3, <1>5, InitSound DEF LoopInv

\* The lists keep their room when they and the count of commands are unchanged.
LEMMA RoomKept ==
  ASSUME NEW K \in Nat, SoundInv, ListsHaveRoom(K), Pending' \in 0 .. Pending,
         calls' = calls,
         \A b \in Buses : BusConfigs'[b].inConfig = BusConfigs[b].inConfig
  PROVE  ListsHaveRoom(K)'
<1>1. /\ calls \in Nat /\ Pending <= calls /\ Pending \in 0 .. 1
      /\ \A b \in Buses : Len(BusConfigs[b].inConfig) \in Nat
  BY LengthsAreNat DEF ListsHaveRoom, Pending
<1>2. K * (calls - Pending) <= K * (calls - Pending') /\ K * (calls - Pending) \in Nat
      /\ K * (calls - Pending') \in Nat
  <2>1. calls - Pending \in Nat /\ calls - Pending' \in Nat
        /\ calls - Pending <= calls - Pending'
    <3> DEFINE p == Pending
               q == Pending'
    <3>1. p \in Nat /\ q \in Nat /\ q <= p /\ p <= calls /\ calls \in Nat
      BY <1>1
    <3> HIDE DEF p, q
    <3>2. calls - p \in Nat /\ calls - q \in Nat /\ calls - p <= calls - q
      BY <3>1
    <3> QED
      BY <3>2 DEF p, q
  <2> QED
    BY <2>1, Product
<1>3. Pending' <= calls'
  BY <1>1
<1>4. ASSUME NEW b \in Buses PROVE Len(BusConfigs'[b].inConfig) <= K * (calls' - Pending')
  BY <1>1, <1>2 DEF ListsHaveRoom
<1> QED
  BY <1>3, <1>4 DEF ListsHaveRoom

LEMMA QuietLoop ==
  ASSUME NEW K \in Nat, LoopInv(K), Quiet
  PROVE  LoopInv(K)'
<1> USE DEF LoopInv, Quiet
<1>1. SoundInv'
  BY QuietSound
<1>2. ListsHaveRoom(K)'
  <2>1. Pending' \in 0 .. Pending
    BY DEF Pending
  <2> QED
    BY <2>1, RoomKept
<1>3. Complete' /\ NoFeedback'
  BY DEF Complete, NoFeedback
<1>4. Searched'
  BY DEF Searched, Looked
<1> QED
  BY <1>1, <1>2, <1>3, <1>4

LEMMA BeginCheckLoop ==
  ASSUME NEW K \in Nat, LoopInv(K), SoundInv', ListsHaveRoom(K)', UNCHANGED accepted,
         NEW n, NEW s, NEW configs, BeginCheck(n, s, configs),
         \A b \in Buses : configs[b].inConfig = BusConfigs[b].inConfig
  PROVE  LoopInv(K)'
<1> USE DEF LoopInv
<1>1. /\ BusConfigs' = configs /\ call'.slot = s /\ todo' = s.auxin /\ visited' = {}
  BY DEF BeginCheck
<1>2. Complete' /\ NoFeedback'
  BY <1>1 DEF Complete, NoFeedback
<1>3. Searched'
  <2>1. Looked({})'
    BY <1>1 DEF Looked
  <2> QED
    BY <2>1 DEF Searched
<1> QED
  BY <1>2, <1>3

LEMMA ConfigLoop ==
  ASSUME NEW K \in Nat, LoopInv(K), UNCHANGED INTERACTIVE,
         \/ \E n \in Names, s \in ModeSlots[INTERACTIVE] : BusConfig(n, s)
         \/ CheckDefault
         \/ \E n \in Names : DefaultConfig(n)
         \/ \E s \in ModeSlots[INTERACTIVE] : MixedOutputs(s)
  PROVE  LoopInv(K)'
<1> USE DEF LoopInv
<1>1. CASE \E n \in Names, s \in ModeSlots[INTERACTIVE] : BusConfig(n, s)
  <2>1. PICK n \in Names, s \in ModeSlots[INTERACTIVE] : BusConfig(n, s)
    BY <1>1
  <2>2. SoundInv'
    BY <2>1, BusConfigSound
  <2>3. \A b \in Buses : Flagged(BusConfigs, s)[b].inConfig = BusConfigs[b].inConfig
    BY FlaggedKeeps DEF SoundInv, Types
  <2>4. /\ BeginCheck(n, s, Flagged(BusConfigs, s)) /\ UNCHANGED accepted
        /\ parserPc = "idle" /\ parserPc' = "check" /\ default' = FALSE
        /\ calls' = calls + 1 /\ BusConfigs' = Flagged(BusConfigs, s)
    BY <2>1 DEF BusConfig, BeginCheck
  <2>5. ListsHaveRoom(K)'
    <3>1. Pending = 0 /\ Pending' = 1 /\ calls \in Nat /\ calls' - Pending' = calls - Pending
      BY <2>4, LengthsAreNat DEF Pending
    <3> QED
      BY <2>3, <2>4, <3>1 DEF ListsHaveRoom
  <2> QED
    BY <2>2, <2>3, <2>4, <2>5, BeginCheckLoop
<1>2. CASE CheckDefault
  <2>1. /\ SoundInv' /\ parserPc = "default" /\ default /\ UNCHANGED <<default, calls, accepted>>
        /\ BeginCheck(call.name, call.slot, BusConfigs)
    BY <1>2, CheckDefaultSound DEF CheckDefault, SoundInv, Types, history
  <2>2. ListsHaveRoom(K)'
    <3>1. Pending' \in 0 .. Pending /\ BusConfigs' = BusConfigs
      BY <2>1 DEF Pending, BeginCheck
    <3> QED
      BY <2>1, <3>1, RoomKept
  <2> QED
    BY <2>1, <2>2, BeginCheckLoop
<1>3. ASSUME SoundInv', UNCHANGED accepted, Pending = 0,
             parserPc' # "check", calls' = calls \/ calls' = calls + 1,
             \A b \in Buses : BusConfigs'[b].inConfig = BusConfigs[b].inConfig
      PROVE  LoopInv(K)'
  <2>1. ListsHaveRoom(K)'
    <3>1. Pending' = 0 /\ calls \in Nat
      BY <1>3, LengthsAreNat DEF Pending
    <3>2. K * (calls - 0) <= K * (calls' - 0) /\ K * (calls - 0) \in Nat
          /\ K * (calls' - 0) \in Nat
      BY <1>3, <3>1, Product
    <3>3. ASSUME NEW b \in Buses PROVE Len(BusConfigs'[b].inConfig) <= K * (calls' - Pending')
      BY <1>3, <3>1, <3>2, LengthsAreNat DEF ListsHaveRoom
    <3> QED
      BY <1>3, <3>1, <3>3 DEF ListsHaveRoom
  <2>2. Complete' /\ NoFeedback' /\ Searched'
    BY <1>3 DEF Complete, NoFeedback, Searched
  <2> QED
    BY <1>3, <2>1, <2>2
<1>4. CASE \E n \in Names : DefaultConfig(n)
  <2>1. PICK n \in Names : DefaultConfig(n)
    BY <1>4
  <2>2. /\ parserPc = "idle" /\ parserPc' = "default" /\ UNCHANGED <<calls, accepted>>
    BY <2>1 DEF DefaultConfig, history
  <2>3. SoundInv'
    BY <1>4, OtherConfigSound
  <2>4. \A b \in Buses : BusConfigs'[b].inConfig = BusConfigs[b].inConfig
    <3> DEFINE clean == IF configStatus THEN BusConfigs
                        ELSE [b \in Buses |-> [BusConfigs[b] EXCEPT !.outInUse = FALSE]]
    <3>1. BusConfigs' = Flagged(clean, DefaultSlot)
      BY <2>1 DEF DefaultConfig
    <3>2. /\ clean \in [Buses -> BusConfigType]
          /\ \A b \in Buses : clean[b].inConfig = BusConfigs[b].inConfig
      BY DEF SoundInv, Types, BusConfigType
    <3> HIDE DEF clean
    <3> QED
      BY <3>1, <3>2, FlaggedKeeps
  <2> QED
    BY <1>3, <2>2, <2>3, <2>4 DEF Pending
<1>5. CASE \E s \in ModeSlots[INTERACTIVE] : MixedOutputs(s)
  <2>1. /\ \E first : BusConfigs' = Flagged(BusConfigs, first)
        /\ parserPc = "idle" /\ parserPc' = Failed /\ calls' = calls + 1
        /\ UNCHANGED accepted
    BY <1>5 DEF MixedOutputs, history
  <2>2. SoundInv'
    BY <1>5, OtherConfigSound
  <2>3. \A b \in Buses : BusConfigs'[b].inConfig = BusConfigs[b].inConfig
    BY <2>1, FlaggedKeeps DEF SoundInv, Types
  <2> QED
    BY <1>3, <2>1, <2>2, <2>3 DEF Pending, Failed
<1> QED
  BY <1>1, <1>2, <1>4, <1>5

LEMMA CheckStepLoop ==
  ASSUME NEW K \in Nat, LoopInv(K), UNCHANGED INTERACTIVE, CheckStep
  PROVE  LoopInv(K)'
<1> USE DEF LoopInv
<1> DEFINE t == Head(todo)
           ins == BusConfigs[t].inConfig
<1>1. /\ parserPc = "check" /\ todo # <<>> /\ todo \in Seq(Buses)
      /\ t \notin ToSet(call.slot.auxout)
      /\ UNCHANGED <<BusConfigs, parserPc, call, default, calls, accepted>>
  BY DEF CheckStep, SoundInv, Types, graph, history
<1>2. /\ visited' = IF GoesOn(t) THEN visited \cup {t} ELSE visited
      /\ todo' = Tail(todo) \o (IF GoesOn(t) THEN ins ELSE <<>>)
  BY DEF CheckStep, Visit
<1>3. /\ t \in Buses /\ Tail(todo) \in Seq(Buses)
      /\ ToSet(todo) = {t} \cup ToSet(Tail(todo))
  BY <1>1, HeadAndTail
<1>4. ins \in Seq(Buses)
  BY <1>3, LengthsAreNat
<1>5. SoundInv'
  BY CheckStepSound
<1>6. ListsHaveRoom(K)'
  BY <1>1 DEF ListsHaveRoom, Pending
<1>7. Complete' /\ NoFeedback'
  BY <1>1 DEF Complete, NoFeedback
<1>8. PICK P \in SUBSET Buses : Looked(P)
  BY <1>1 DEF Searched
<1>9. GoesOn(t) <=> ins # <<>> /\ t \notin visited
  BY DEF GoesOn
<1>10. PICK Q \in SUBSET Buses : Q = P \cup {t}
  BY <1>3
<1>11. ins = BusConfigs[t].inConfig
  OBVIOUS
<1> HIDE DEF t, ins
<1>12. CASE GoesOn(t)
  <2>1. visited' = visited \cup {t} /\ todo' = Tail(todo) \o ins
    BY <1>2, <1>12
  <2>2. ToSet(todo') = ToSet(Tail(todo)) \cup ToSet(ins)
    <3>1. ToSet(Tail(todo) \o ins) = ToSet(Tail(todo)) \cup ToSet(ins)
      BY <1>3, <1>4, ConcatBuses
    <3> QED
      BY <2>1, <3>1
  <2>3. /\ Q \cap ToSet(call'.slot.auxout) = {} /\ visited' \subseteq Q
        /\ ToSet(call'.slot.auxin) \subseteq Q \cup ToSet(todo')
    BY <1>1, <1>3, <1>8, <1>10, <2>1, <2>2 DEF Looked
  <2>4. ASSUME NEW b \in Q
        PROVE  ToSet(BusConfigs'[b].inConfig) \subseteq Q \cup ToSet(todo')
    <3>1. CASE b = t
      BY <1>1, <1>11, <2>2, <3>1
    <3>2. CASE b \in P
      BY <1>1, <1>3, <1>8, <1>10, <2>2, <3>2 DEF Looked
    <3> QED
      BY <1>10, <3>1, <3>2
  <2>5. Looked(Q)'
    BY <2>3, <2>4 DEF Looked
  <2>6. Searched'
    BY <2>5 DEF Searched
  <2> QED
    BY <1>5, <1>6, <1>7, <2>6
<1>13. CASE ~GoesOn(t)
  <2>1. visited' = visited /\ todo' = Tail(todo)
    BY <1>2, <1>3, <1>13
  <2>2. ToSet(ins) \subseteq P \cup ToSet(todo)
    <3>1. CASE ins = <<>>
      BY <3>1 DEF ToSet
    <3>2. CASE t \in visited
      BY <1>8, <1>11, <3>2 DEF Looked
    <3> QED
      BY <1>9, <1>13, <3>1, <3>2
  <2>3. /\ Q \cap ToSet(call'.slot.auxout) = {} /\ visited' \subseteq Q
        /\ ToSet(call'.slot.auxin) \subseteq Q \cup ToSet(todo')
    BY <1>1, <1>3, <1>8, <1>10, <2>1 DEF Looked
  <2>4. ASSUME NEW b \in Q
        PROVE  ToSet(BusConfigs'[b].inConfig) \subseteq Q \cup ToSet(todo')
    <3>1. CASE b = t
      BY <1>1, <1>3, <1>10, <1>11, <2>1, <2>2, <3>1
    <3>2. CASE b \in P
      BY <1>1, <1>3, <1>8, <1>10, <2>1, <3>2 DEF Looked
    <3> QED
      BY <1>10, <3>1, <3>2
  <2>5. Looked(Q)'
    BY <2>3, <2>4 DEF Looked
  <2>6. Searched'
    BY <2>5 DEF Searched
  <2> QED
    BY <1>5, <1>6, <1>7, <2>6
<1> QED
  BY <1>12, <1>13

LEMMA LoopFoundLoop ==
  ASSUME NEW K \in Nat, LoopInv(K), UNCHANGED INTERACTIVE, LoopFound
  PROVE  LoopInv(K)'
<1> USE DEF LoopInv
<1>1. /\ parserPc' \in {"idle", "failed"} /\ UNCHANGED <<BusConfigs, calls, accepted>>
  BY DEF LoopFound, graph, Return, Failed
<1>2. ListsHaveRoom(K)'
  BY <1>1, RoomKept DEF Pending
<1>3. Complete' /\ NoFeedback' /\ Searched'
  BY <1>1 DEF Complete, NoFeedback, Searched
<1> QED
  BY <1>2, <1>3, LoopFoundSound

LEMMA InsertLoop ==
  ASSUME NEW K \in Nat, Suffices(K), LoopInv(K), UNCHANGED INTERACTIVE, Insert
  PROVE  LoopInv(K)'
<1> USE DEF LoopInv
<1> DEFINE s == call.slot
           in(b) == BusConfigs[b].inConfig
<1>1. /\ parserPc = "check" /\ todo = <<>> /\ BusConfigs' = Connected(BusConfigs, s)
      /\ accepted' = accepted \cup {s}
      /\ parserPc' \in {"idle", "write"} /\ UNCHANGED calls
  BY DEF Insert, Return, BeginOrder
<1>2. /\ s \in ModeSlots[INTERACTIVE] \cup {DefaultSlot} /\ default \in BOOLEAN
      /\ default => s = DefaultSlot
      /\ INTERACTIVE \in DOMAIN ModeSlots /\ calls <= MaxCalls[INTERACTIVE]
  BY <1>1 DEF SoundInv, Types
<1>3. /\ s \in Slots \cup {DefaultSlot}
      /\ s.auxin \in Seq(Buses) /\ ToSet(s.auxin) \subseteq Buses
      /\ ToSet(s.auxout) \subseteq Buses /\ Len(s.auxin) <= BusCount /\ Len(s.auxin) \in Nat
  BY <1>2, ModeSlotsAreSlots, SlotTypes, SlotsAreShort
<1>4. SoundInv'
  BY InsertSound
<1>5. \A b \in Buses : BusConfigs'[b].inConfig =
        IF b \in ToSet(s.auxout) THEN Appended(in(b), s.auxin) ELSE in(b)
  BY <1>1, <1>3, ConnectedFacts DEF SoundInv, Types
<1>6. \A b \in Buses : in(b) \in Seq(Buses) /\ Len(in(b)) \in Nat /\ Len(in(b)) < BusCount
  BY LengthsAreNat DEF SoundInv, Types
\* The slot's inputs have been counted: they find room.
<1>7. /\ \A b \in Buses : Len(in(b)) + Len(s.auxin) <= K * calls
      /\ K * calls < BusCount /\ K * calls \in Nat /\ calls \in Nat
  <2>1. calls \in Nat /\ MaxCalls[INTERACTIVE] \in Nat
    BY <1>2, LengthsAreNat, CallsAssumption
  <2>2. K * calls <= K * MaxCalls[INTERACTIVE] /\ K * MaxCalls[INTERACTIVE] < BusCount
        /\ K * calls \in Nat /\ K * MaxCalls[INTERACTIVE] \in Nat
    BY <1>2, <2>1, Product DEF Suffices
  <2>3. BusCount \in Nat
    BY BusCountAssumption
  <2>4. CASE default
    <3>1. Pending = 0 /\ Len(s.auxin) = 0
      BY <1>2, <2>4, DefaultHasNoEdges DEF Pending
    <3> QED
      BY <1>6, <2>1, <2>2, <2>3, <3>1 DEF ListsHaveRoom
  <2>5. CASE ~default
    <3>1. Pending = 1 /\ calls >= 1
      BY <1>1, <2>1, <2>5 DEF Pending, ListsHaveRoom
    <3>2. Len(s.auxin) <= K
      <4>1. CASE s = DefaultSlot
        BY <4>1, DefaultHasNoEdges
      <4>2. CASE s \in ModeSlots[INTERACTIVE]
        BY <1>2, <4>2 DEF Suffices
      <4> QED
        BY <1>2, <4>1, <4>2
    <3>3. calls - 1 \in Nat /\ K * calls = K * (calls - 1) + K /\ K * (calls - 1) \in Nat
      BY <2>1, <3>1, Product
    <3>4. ASSUME NEW b \in Buses PROVE Len(in(b)) <= K * (calls - 1)
      BY <3>1 DEF ListsHaveRoom
    <3>5. ASSUME NEW b \in Buses PROVE Len(in(b)) + Len(s.auxin) <= K * calls
      <4> DEFINE x == K * (calls - 1)
                 y == K * calls
                 u == Len(in(b))
                 v == Len(s.auxin)
      <4>1. x \in Nat /\ y = x + K /\ v <= K /\ u \in Nat /\ v \in Nat
        BY <1>3, <1>6, <3>2, <3>3
      <4>2. u <= x
        BY <3>4
      <4> HIDE DEF x, y, u, v
      <4>3. u + v <= y
        BY <4>1, <4>2
      <4> QED
        BY <4>3 DEF u, v, y
    <3>6. K * calls < BusCount
      <4> DEFINE x == K * calls
                 y == K * MaxCalls[INTERACTIVE]
      <4>1. x \in Nat /\ y \in Nat /\ x <= y /\ y < BusCount /\ BusCount \in Nat
        BY <2>2, <2>3
      <4> HIDE DEF x, y
      <4>2. x < BusCount
        BY <4>1
      <4> QED
        BY <4>2 DEF x
    <3> QED
      BY <2>1, <2>2, <3>5, <3>6
  <2> QED
    BY <1>2, <2>4, <2>5
<1> HIDE DEF s
<1>8. ASSUME NEW b \in Buses, b \in ToSet(s.auxout)
      PROVE  /\ Len(BusConfigs'[b].inConfig) = Len(in(b)) + Len(s.auxin)
             /\ ToSet(BusConfigs'[b].inConfig) = ToSet(in(b)) \cup ToSet(s.auxin)
  <2>1. Len(in(b)) + Len(s.auxin) < BusCount
    <3> DEFINE x == K * calls
               u == Len(in(b))
               v == Len(s.auxin)
    <3>1. /\ u \in Nat /\ v \in Nat /\ x \in Nat /\ BusCount \in Nat
          /\ u + v <= x /\ x < BusCount
      BY <1>3, <1>6, <1>7, BusCountAssumption
    <3> HIDE DEF x, u, v
    <3>2. u + v < BusCount
      BY <3>1
    <3> QED
      BY <3>2 DEF u, v
  <2> QED
    BY <1>3, <1>5, <1>6, <1>8, <2>1, AppendedSet
<1>9. ListsHaveRoom(K)'
  <2>1. Pending' = 0
    BY <1>1 DEF Pending
  <2>2. ASSUME NEW b \in Buses PROVE Len(BusConfigs'[b].inConfig) <= K * calls
    <3>1. CASE b \in ToSet(s.auxout)
      BY <1>7, <1>8, <3>1
    <3>2. CASE b \notin ToSet(s.auxout)
      <4> DEFINE x == K * calls
                 u == Len(in(b))
                 v == Len(s.auxin)
      <4>1. BusConfigs'[b].inConfig = in(b)
        BY <1>5, <3>2
      <4>2. u \in Nat /\ v \in Nat /\ x \in Nat /\ u + v <= x
        BY <1>3, <1>6, <1>7
      <4> HIDE DEF x, u, v
      <4>3. u <= x
        BY <4>2
      <4> QED
        BY <4>1, <4>3 DEF u, x
    <3> QED
      BY <3>1, <3>2
  <2>3. calls' - Pending' = calls /\ Pending' <= calls'
    BY <1>1, <1>7, <2>1
  <2> QED
    BY <2>2, <2>3 DEF ListsHaveRoom
<1>10. Edges(accepted') = Edges(accepted) \cup EdgesOf(s)
  BY <1>1, EdgesAdd
<1>11. Complete'
  <2> SUFFICES ASSUME NEW b \in Buses, NEW a, <<a, b>> \in Edges(accepted')
               PROVE  a \in ToSet(BusConfigs'[b].inConfig)
    BY DEF Complete
  <2>1. CASE <<a, b>> \in Edges(accepted)
    <3>1. a \in ToSet(in(b))
      BY <2>1 DEF Complete
    <3> QED
      BY <1>5, <1>8, <3>1
  <2>2. CASE <<a, b>> \in EdgesOf(s)
    <3>1. a \in ToSet(s.auxin) /\ b \in ToSet(s.auxout)
      BY <2>2 DEF EdgesOf
    <3> QED
      BY <1>8, <3>1
  <2> QED
    BY <1>10, <2>1, <2>2
<1>12. NoFeedback'
  <2>1. PICK P \in SUBSET Buses : Looked(P)
    BY <1>1 DEF Searched
  <2>2. ToSet(todo) = {}
    BY <1>1 DEF ToSet
  <2>3. /\ P \cap ToSet(s.auxout) = {} /\ ToSet(s.auxin) \subseteq P
        /\ \A b \in P : ToSet(in(b)) \subseteq P
    BY <2>1, <2>2 DEF Looked, s
  <2>4. \A b \in P : \A a : <<a, b>> \in Edges(accepted) => a \in P
    BY <2>3 DEF Complete
  <2>5. Acyclic(Edges(accepted \cup {s}))
    BY <2>3, <2>4, NoLoopCloses DEF NoFeedback
  <2> QED
    BY <1>1, <2>5 DEF NoFeedback
<1>13. Searched'
  BY <1>1 DEF Searched
<1> QED
  BY <1>4, <1>9, <1>11, <1>12, <1>13

-----------------------------------------------------------------------------
(* The specification.                                                      *)

LEMMA NextSound ==
  ASSUME SoundInv, [Next]_vars
  PROVE  SoundInv'
<1>1. CASE Next
  <2>1. UNCHANGED INTERACTIVE
    BY <1>1 DEF Next
  <2>2. CASE \E n \in Names, s \in ModeSlots[INTERACTIVE] : BusConfig(n, s)
    BY <2>1, <2>2, BusConfigSound
  <2>3. CASE \/ \E n \in Names : DefaultConfig(n)
             \/ \E s \in ModeSlots[INTERACTIVE] : MixedOutputs(s)
    BY <2>1, <2>3, OtherConfigSound
  <2>4. CASE CheckDefault \/ CheckStep \/ LoopFound \/ Insert
    BY <2>1, <2>4, CheckDefaultSound, CheckStepSound, LoopFoundSound, InsertSound
  <2>5. CASE \/ WriteEntry \/ NextSink \/ TraverseStep \/ TraverseDone \/ ClearRest
             \/ (\E n \in Names : StartNote(n)) \/ ScoreEnds \/ AudioStep
    BY <2>1, <2>5, QuietSteps, QuietSound
  <2> QED
    BY <1>1, <2>2, <2>3, <2>4, <2>5 DEF Next, ParserStep
<1>2. CASE UNCHANGED vars
  BY <1>2, QuietSound DEF vars, Quiet, graph, locals, history
<1> QED
  BY <1>1, <1>2

LEMMA NextLoop ==
  ASSUME NEW K \in Nat, Suffices(K), LoopInv(K), [Next]_vars
  PROVE  LoopInv(K)'
<1>1. CASE Next
  <2>1. UNCHANGED INTERACTIVE
    BY <1>1 DEF Next
  <2>2. CASE \/ \E n \in Names, s \in ModeSlots[INTERACTIVE] : BusConfig(n, s)
             \/ CheckDefault
             \/ \E n \in Names : DefaultConfig(n)
             \/ \E s \in ModeSlots[INTERACTIVE] : MixedOutputs(s)
    BY <2>1, <2>2, ConfigLoop
  <2>3. CASE CheckStep \/ LoopFound \/ Insert
    BY <2>1, <2>3, CheckStepLoop, LoopFoundLoop, InsertLoop
  <2>4. CASE \/ WriteEntry \/ NextSink \/ TraverseStep \/ TraverseDone \/ ClearRest
             \/ (\E n \in Names : StartNote(n)) \/ ScoreEnds \/ AudioStep
    BY <2>1, <2>4, QuietSteps, QuietLoop
  <2> QED
    BY <1>1, <2>2, <2>3, <2>4 DEF Next, ParserStep
<1>2. CASE UNCHANGED vars
  BY <1>2, QuietLoop DEF vars, Quiet, graph, locals, history
<1> QED
  BY <1>1, <1>2

\* bus_config refuses no configuration but one that closes a loop with those that
\* were accepted (check_bus_inst_config), whatever lists were started again.
THEOREM RefusalsAreJustified == Spec => []LoopCheckIsExact
<1>1. SoundInv => LoopCheckIsExact
  BY DEF SoundInv
<1> QED
  BY <1>1, InitSound, NextSound, PTL DEF Spec

\* It accepts none that does, in a score whose commands cannot give a bus as many
\* inputs as there are buses: the run that configures one chain again and again
\* shows what happens otherwise (check_bus_inst_config, insert_bus_slot).
THEOREM NoLoopIsAccepted ==
  ASSUME NEW K \in Nat, Suffices(K)
  PROVE  Spec => []NoFeedback
<1>1. LoopInv(K) => NoFeedback
  BY DEF LoopInv
<1>2. Init => LoopInv(K)
  BY InitLoop
<1>3. LoopInv(K) /\ [Next]_vars => LoopInv(K)'
  BY NextLoop
<1> QED
  BY <1>1, <1>2, <1>3, PTL DEF Spec
=============================================================================
