------------------------------ MODULE BusGraph ------------------------------
(***************************************************************************)
(* The bus configuration, bus_config.cpp: bus_config gives an instrument   *)
(* name its buses, refuses a configuration that closes a loop of aux       *)
(* buses, records the graph of aux buses, and computes the three playlists *)
(* that tell inTraverse in which order to play the queues.  The audio      *)
(* thread walks the playlists while the parser thread configures.          *)
(*                                                                         *)
(* The parser holds the write lock of the playlists for one step at a      *)
(* time, the audio thread the read lock for one entry: those are the       *)
(* actions (get_bus_config clears the playlists first when nothing was     *)
(* ever configured; no note plays then, and it is one step here).  The     *)
(* breadth-first search that looks for a loop, and that orders the aux     *)
(* buses, takes a step per bus it looks at.                                *)
(*                                                                         *)
(* Abstracted: input channels and chains, which do not touch the graph;    *)
(* the lists of a bus specification have no bus twice, and no output that  *)
(* NCHANS does not allow; the buffers; a note goes on playing for good     *)
(* once it has started.                                                    *)
(***************************************************************************)
EXTENDS Integers, SequencesExt

CONSTANTS
  BusCount,    \* busCount: buses are 0 .. BusCount - 1
  NCHANS,      \* output channels, at most BusCount (rtsetparams)
  Names,       \* instrument names
  ModeSlots,   \* per mode, the bus configurations of the score: [auxin, auxout, out];
               \* its domain are the values of INTERACTIVE that are explored
  NoSlot,      \* NULL
  MaxCalls     \* bound, per mode: bus_config commands in the score

Buses == 0 .. BusCount - 1
Slots == UNION {ModeSlots[m] : m \in DOMAIN ModeSlots}

ASSUME BusCountAssumption == BusCount \in Nat \ {0} /\ NCHANS \in 1 .. BusCount
ASSUME ModeAssumption == DOMAIN ModeSlots \subseteq BOOLEAN
ASSUME SlotAssumption ==
  /\ NoSlot \notin Slots
  /\ \A s \in Slots :
       /\ DOMAIN s = {"auxin", "auxout", "out"}
       /\ \A list \in {s.auxin, s.auxout, s.out} :
            list \in Seq(Buses) /\ IsInjective(list)
       /\ ToSet(s.out) \subseteq 0 .. NCHANS - 1
ASSUME CallsAssumption == MaxCalls \in [DOMAIN ModeSlots -> Nat]

VARIABLES
  INTERACTIVE,      \* the audio runs while the score is read; never changes
  BusConfigs,       \* per bus, see BusConfigType
  Inst_Bus_Config,  \* the current slot of each name
  configStatus,     \* Bus_Config_Status
  ToAuxPlayList, AuxToAuxPlayList, ToOutPlayList,
  parserPc,  \* "idle", "default", "check", "write", "traverse", "done" or "failed"
  call,      \* the bus_config that runs: its instrument name and slot
  default,   \* it is the default configuration (get_bus_config)
  visited,   \* Visited
  todo,      \* the buses in the check queue
  rev,       \* RevPlay
  pending,   \* entries that create_play_order is about to write
  sinks,     \* buses it has yet to traverse from
  auxP,      \* aux_p_count
  calls,     \* bus_config commands so far
  started,   \* slots of the notes in the heap
  playing,   \* slots of the notes in the queues
  audioPc,   \* "idle", "walk" or "send"
  qStatus, playBus, \* inTraverse's position in the playlists
  walk,      \* history: the queues visited in this slice, <<class, bus>>
  accepted,  \* history: every slot that was ever accepted
  refused    \* history: the slot that the last bus_config refused, or NoSlot

playlists == <<ToAuxPlayList, AuxToAuxPlayList, ToOutPlayList>>
graph     == <<BusConfigs, Inst_Bus_Config, configStatus>>
locals    == <<call, default, visited, todo, rev, pending, sinks, auxP>>
notes     == <<started, playing>>
audio     == <<audioPc, qStatus, playBus, walk>>
history   == <<accepted, refused>>
vars == <<INTERACTIVE, graph, playlists, parserPc, locals, calls, notes, audio, history>>

Classes == {"TO_AUX", "AUX_TO_AUX", "TO_OUT"}

\* BusSlot::Class; bus_config refuses out and aux-out buses in one slot.
Class(s) == CASE s.auxin # <<>> /\ s.auxout # <<>> -> "AUX_TO_AUX"
              [] s.auxin = <<>> /\ s.auxout # <<>> -> "TO_AUX"
              [] OTHER                             -> "TO_OUT"
QueuesOf(s) ==
  {<<Class(s), b>> : b \in ToSet(IF Class(s) = "TO_OUT" THEN s.out ELSE s.auxout)}
EdgesOf(s) == ToSet(s.auxin) \X ToSet(s.auxout)

\* The buses of S as a scan from 0 finds them: after those of S that are below.
Below(S, b)  == {c \in S : c < b}
Ascending(S) == [n \in 1 .. Cardinality(S) |->
                   CHOOSE b \in S : Cardinality(Below(S, b)) = n - 1]

\* Playlist, but the entries after the last one are not cleared.
PlaylistUncleared(seq) == [n \in Buses |-> IF n < Len(seq) THEN seq[n + 1] ELSE 0]

\* A playlist is closed by -1, if there is room for one.
Playlist(seq) == [n \in Buses |-> IF n < Len(seq) THEN seq[n + 1] ELSE -1]

NoBus == [inConfig |-> <<>>, hasChild |-> FALSE, hasParent |-> FALSE,
          auxInUse |-> FALSE, auxOutInUse |-> FALSE, outInUse |-> FALSE]

Init ==
  /\ INTERACTIVE \in DOMAIN ModeSlots
  /\ BusConfigs = [b \in Buses |-> NoBus]
  /\ Inst_Bus_Config = [n \in Names |-> NoSlot]
  /\ configStatus = FALSE
  /\ ToAuxPlayList = Playlist(<<>>)
  /\ AuxToAuxPlayList = Playlist(<<>>)
  /\ ToOutPlayList = Playlist(<<>>)
  /\ parserPc = "idle"
  /\ call = <<>> /\ default = FALSE
  /\ visited = {} /\ todo = <<>> /\ rev = <<>>
  /\ pending = <<>> /\ sinks = <<>> /\ auxP = 0
  /\ calls = 0
  /\ started = {} /\ playing = {}
  /\ audioPc = "idle" /\ qStatus = "TO_AUX" /\ playBus = 0 /\ walk = <<>>
  /\ accepted = {} /\ refused = NoSlot

-----------------------------------------------------------------------------
(* The parser thread.                                                      *)

\* RTExit throws out of the score: a score that was read from a file is not played,
\* in a session the next score follows.
Failed == IF INTERACTIVE THEN "idle" ELSE "failed"

\* The flags that parsing the arguments sets.
Flagged(configs, s) ==
  [b \in Buses |-> [configs[b] EXCEPT !.outInUse = @ \/ b \in ToSet(s.out),
                                      !.auxOutInUse = @ \/ b \in ToSet(s.auxout)]]

\* check_bus_inst_config begins: the playlists of the buses in use are
\* rewritten, and the search for a loop begins at the slot's inputs.
BeginCheck(n, s, configs) ==
  /\ BusConfigs' = configs
  /\ configStatus' = TRUE
  /\ ToOutPlayList' = Playlist(Ascending({b \in Buses : configs[b].outInUse}))
  /\ ToAuxPlayList' = Playlist(Ascending({b \in Buses : configs[b].auxOutInUse}))
  /\ call' = [name |-> n, slot |-> s]
  /\ todo' = s.auxin
  /\ visited' = {}
  /\ parserPc' = "check"

\* bus_config(n, ...)
BusConfig(n, s) ==
  /\ parserPc = "idle"
  /\ calls < MaxCalls[INTERACTIVE]
  /\ calls' = calls + 1
  /\ s.out = <<>> \/ s.auxout = <<>>
  /\ BeginCheck(n, s, Flagged(BusConfigs, s))
  /\ default' = FALSE
  /\ refused' = NoSlot
  /\ UNCHANGED <<Inst_Bus_Config, AuxToAuxPlayList, rev, pending, sinks, auxP,
                 notes, audio, accepted>>

\* Out and aux-out buses are refused, after the first of the two have been flagged.
MixedOutputs(s) ==
  /\ parserPc = "idle"
  /\ calls < MaxCalls[INTERACTIVE]
  /\ calls' = calls + 1
  /\ s.out # <<>> /\ s.auxout # <<>>
  /\ \E first \in {[s EXCEPT !.out = <<>>], [s EXCEPT !.auxout = <<>>]} :
       BusConfigs' = Flagged(BusConfigs, first)
  /\ parserPc' = Failed
  /\ UNCHANGED <<Inst_Bus_Config, configStatus, playlists, locals, notes, audio, history>>

\* get_bus_config: an instrument without a configuration gets the channels of the
\* output, which are first written over the playlist.
DefaultSlot == [auxin |-> <<>>, auxout |-> <<>>, out |-> [c \in 1 .. NCHANS |-> c - 1]]
DefaultConfig(n) ==
  /\ parserPc = "idle"
  /\ Inst_Bus_Config[n] = NoSlot
  /\ LET clean == IF configStatus THEN BusConfigs
                  ELSE [b \in Buses |-> [BusConfigs[b] EXCEPT !.outInUse = FALSE]]
         lists == IF configStatus THEN playlists
                  ELSE <<Playlist(<<>>), Playlist(<<>>), Playlist(<<>>)>>
     IN /\ BusConfigs' = Flagged(clean, DefaultSlot)
        /\ ToAuxPlayList' = lists[1]
        /\ AuxToAuxPlayList' = lists[2]
        /\ ToOutPlayList' = [b \in Buses |-> IF b < NCHANS THEN b ELSE lists[3][b]]
  /\ configStatus' = TRUE
  /\ call' = [name |-> n, slot |-> DefaultSlot]
  /\ default' = TRUE
  /\ parserPc' = "default"
  /\ UNCHANGED <<Inst_Bus_Config, visited, todo, rev, pending, sinks, auxP, calls,
                 notes, audio, history>>

CheckDefault ==
  /\ parserPc = "default"
  /\ BeginCheck(call.name, call.slot, BusConfigs)
  /\ UNCHANGED <<Inst_Bus_Config, AuxToAuxPlayList, default, rev, pending, sinks,
                 auxP, calls, notes, audio, history>>

\* GoesOn, but the inputs of the inputs are not looked at.
GoesOnNever(t) == FALSE

\* A bus that has inputs and was not seen is put on the list "to be checked".
GoesOn(t) == BusConfigs[t].inConfig # <<>> /\ t \notin visited

\* One bus of the breadth-first search.
Visit(t) ==
  /\ visited' = IF GoesOn(t) THEN visited \cup {t} ELSE visited
  /\ todo' = Tail(todo) \o (IF GoesOn(t) THEN BusConfigs[t].inConfig ELSE <<>>)
  /\ rev' = IF GoesOn(t) /\ BusConfigs[t].hasParent THEN Append(rev, t) ELSE rev

CheckStep ==
  /\ parserPc = "check" /\ todo # <<>>
  /\ Head(todo) \notin ToSet(call.slot.auxout)
  /\ Visit(Head(todo))
  /\ UNCHANGED <<graph, playlists, parserPc, call, default, pending, sinks, auxP,
                 calls, notes, audio, history>>

\* bus_config or get_bus_config is over.
Return(pc) ==
  /\ parserPc' = pc
  /\ call' = <<>> /\ default' = FALSE
  /\ visited' = {} /\ todo' = <<>> /\ rev' = <<>>
  /\ pending' = <<>> /\ sinks' = <<>>

\* LOOP_ERR: bus_config and get_bus_config give up.
LoopFound ==
  /\ parserPc = "check" /\ todo # <<>>
  /\ Head(todo) \in ToSet(call.slot.auxout)
  /\ refused' = call.slot
  /\ Return(Failed)
  /\ UNCHANGED <<graph, playlists, auxP, calls, notes, audio, accepted>>

\* The inputs of a bus: the BusCount-th empties the list, and is lost with the others.
Appended(list, ins) ==
  LET room == BusCount - 1 - Len(list)
  IN IF Len(ins) <= room THEN list \o ins ELSE SubSeq(ins, room + 2, Len(ins))

\* Connected, but the edges are recorded at the buses they come from.
ConnectedBackwards(configs, s) ==
  [b \in Buses |->
     LET into == b \in ToSet(s.auxout)
         from == b \in ToSet(s.auxin) /\ s.auxout # <<>>
     IN [configs[b] EXCEPT
           !.auxInUse  = @ \/ into \/ from,
           !.hasParent = @ \/ (into /\ s.auxin # <<>>),
           !.hasChild  = @ \/ from,
           !.inConfig  = IF from THEN Appended(@, s.auxout) ELSE @]]

\* insert_bus_slot: the slot's edges.
Connected(configs, s) ==
  [b \in Buses |->
     LET into == b \in ToSet(s.auxout)
         from == b \in ToSet(s.auxin) /\ s.auxout # <<>>
     IN [configs[b] EXCEPT
           !.auxInUse  = @ \/ into \/ from,
           !.hasParent = @ \/ (into /\ s.auxin # <<>>),
           !.hasChild  = @ \/ from,
           !.inConfig  = IF into THEN Appended(@, s.auxin) ELSE @]]

Parents(configs) == {b \in Buses : configs[b].auxInUse /\ ~configs[b].hasParent}
\* Sinks, but of the buses that have no parent.
SinksOfParents(configs) == {b \in Buses : configs[b].auxInUse /\ ~configs[b].hasParent}
Sinks(configs) == {b \in Buses : configs[b].auxInUse /\ ~configs[b].hasChild}

\* create_play_order begins with the buses that have no parent.
BeginOrder ==
  /\ pending' = Ascending(Parents(BusConfigs'))
  /\ sinks' = Ascending(Sinks(BusConfigs'))
  /\ visited' = {}
  /\ parserPc' = "write"
  /\ UNCHANGED <<call, default, todo, rev>>

\* Insert, but the count of entries goes on from the previous call's.
InsertCounting ==
  /\ parserPc = "check" /\ todo = <<>>
  /\ BusConfigs' = Connected(BusConfigs, call.slot)
  /\ Inst_Bus_Config' = [Inst_Bus_Config EXCEPT ![call.name] = call.slot]
  /\ accepted' = accepted \cup {call.slot}
  /\ IF default THEN Return("idle") ELSE BeginOrder
  /\ UNCHANGED <<configStatus, playlists, auxP, calls, notes, audio, refused>>

\* No loop was found: insert_bus_slot, and then create_play_order; the default
\* configuration leaves the order alone.
Insert ==
  /\ parserPc = "check" /\ todo = <<>>
  /\ BusConfigs' = Connected(BusConfigs, call.slot)
  /\ Inst_Bus_Config' = [Inst_Bus_Config EXCEPT ![call.name] = call.slot]
  /\ accepted' = accepted \cup {call.slot}
  /\ auxP' = 0
  /\ IF default THEN Return("idle") ELSE BeginOrder
  /\ UNCHANGED <<configStatus, playlists, calls, notes, audio, refused>>

\* AuxToAuxPlayList[aux_p_count++] = ..., under the lock
WriteEntry ==
  /\ parserPc = "write" /\ pending # <<>>
  /\ AuxToAuxPlayList' = [AuxToAuxPlayList EXCEPT ![auxP] = Head(pending)]
  /\ auxP' = auxP + 1
  /\ pending' = Tail(pending)
  /\ UNCHANGED <<graph, ToAuxPlayList, ToOutPlayList, parserPc, call, default, visited,
                 todo, rev, sinks, calls, notes, audio, history>>

\* NextSink, but what was visited from the other sinks is visited again.
NextSinkRevisiting ==
  /\ parserPc = "write" /\ pending = <<>> /\ sinks # <<>>
  /\ todo' = <<Head(sinks)>>
  /\ visited' = {}
  /\ rev' = <<>>
  /\ sinks' = Tail(sinks)
  /\ parserPc' = "traverse"
  /\ UNCHANGED <<graph, playlists, call, default, pending, auxP, calls, notes,
                 audio, history>>

\* bf_traverse from the next bus that has no child; what was visited from the
\* others is not visited again.
NextSink ==
  /\ parserPc = "write" /\ pending = <<>> /\ sinks # <<>>
  /\ todo' = <<Head(sinks)>>
  /\ rev' = <<>>
  /\ sinks' = Tail(sinks)
  /\ parserPc' = "traverse"
  /\ UNCHANGED <<graph, playlists, call, default, visited, pending, auxP, calls, notes,
                 audio, history>>

TraverseStep ==
  /\ parserPc = "traverse" /\ todo # <<>>
  /\ Visit(Head(todo))
  /\ UNCHANGED <<graph, playlists, parserPc, call, default, pending, sinks, auxP,
                 calls, notes, audio, history>>

\* Order, but the search's order is not reversed.
OrderForward == rev

\* What the search met last is played first.
Order == Reverse(rev)

TraverseDone ==
  /\ parserPc = "traverse" /\ todo = <<>>
  /\ pending' = Order
  /\ parserPc' = "write"
  /\ UNCHANGED <<graph, playlists, call, default, visited, todo, rev, sinks, auxP,
                 calls, notes, audio, history>>

ClearRest ==
  /\ parserPc = "write" /\ pending = <<>> /\ sinks = <<>>
  /\ AuxToAuxPlayList' = [b \in Buses |-> IF b < auxP THEN AuxToAuxPlayList[b] ELSE -1]
  /\ Return("idle")
  /\ UNCHANGED <<graph, ToAuxPlayList, ToOutPlayList, auxP, calls, notes, audio,
                 history>>

\* A note of the instrument n, on its current buses.
StartNote(n) ==
  /\ parserPc = "idle"
  /\ Inst_Bus_Config[n] # NoSlot
  /\ started' = started \cup {Inst_Bus_Config[n]}
  /\ UNCHANGED <<graph, playlists, parserPc, locals, calls, playing, audio, history>>

ScoreEnds ==
  /\ parserPc = "idle"
  /\ parserPc' = "done"
  /\ UNCHANGED <<graph, playlists, locals, calls, notes, audio, history>>

-----------------------------------------------------------------------------
(* The audio thread: inTraverse.                                           *)

\* The notes that are due are moved to the queues.
BeginSlice ==
  /\ audioPc = "idle"
  /\ INTERACTIVE \/ parserPc = "done"
  /\ playing' = playing \cup started
  /\ started' = {}
  /\ audioPc' = "walk" /\ qStatus' = "TO_AUX" /\ playBus' = 0 /\ walk' = <<>>
  /\ UNCHANGED <<graph, playlists, parserPc, locals, calls, history>>

CurrentList == CASE qStatus = "TO_AUX"     -> ToAuxPlayList
                 [] qStatus = "AUX_TO_AUX" -> AuxToAuxPlayList
                 [] OTHER                  -> ToOutPlayList

\* One entry of a playlist, under the lock; assert(play_bus < busCount).
PlayBus ==
  /\ audioPc = "walk"
  /\ playBus < BusCount
  /\ CurrentList[playBus] # -1
  /\ walk' = Append(walk, <<qStatus, CurrentList[playBus]>>)
  /\ playBus' = playBus + 1
  /\ UNCHANGED <<graph, playlists, parserPc, locals, calls, notes, audioPc, qStatus,
                 history>>

NextClass ==
  /\ audioPc = "walk"
  /\ playBus < BusCount
  /\ CurrentList[playBus] = -1
  /\ playBus' = 0
  /\ qStatus' = IF qStatus = "TO_AUX" THEN "AUX_TO_AUX" ELSE "TO_OUT"
  /\ audioPc' = IF qStatus = "TO_OUT" THEN "send" ELSE "walk"
  /\ UNCHANGED <<graph, playlists, parserPc, locals, calls, notes, walk, history>>

EndSlice ==
  /\ audioPc = "send"
  /\ audioPc' = "idle"
  /\ UNCHANGED <<graph, playlists, parserPc, locals, calls, notes, qStatus, playBus,
                 walk, history>>

-----------------------------------------------------------------------------
ParserStep ==
  \/ \E n \in Names : \/ \E s \in ModeSlots[INTERACTIVE] : BusConfig(n, s)
                      \/ DefaultConfig(n) \/ StartNote(n)
  \/ \E s \in ModeSlots[INTERACTIVE] : MixedOutputs(s)
  \/ CheckDefault \/ CheckStep \/ LoopFound \/ Insert
  \/ WriteEntry \/ NextSink \/ TraverseStep \/ TraverseDone \/ ClearRest
  \/ ScoreEnds

AudioStep == BeginSlice \/ PlayBus \/ NextClass \/ EndSlice

Next == (ParserStep \/ AudioStep) /\ UNCHANGED INTERACTIVE

Spec == Init /\ [][Next]_vars

-----------------------------------------------------------------------------
(* Properties.                                                             *)

BusConfigType ==
  [inConfig : Seq(Buses), hasChild : BOOLEAN, hasParent : BOOLEAN,
   auxInUse : BOOLEAN, auxOutInUse : BOOLEAN, outInUse : BOOLEAN]
PlaylistType == [Buses -> Buses \cup {-1}]

\* Every variable has its type; in particular the lists of a bus's inputs and of
\* the play order never outgrow their busCount entries, which nothing checks.
TypeOK ==
  /\ INTERACTIVE \in BOOLEAN
  /\ BusConfigs \in [Buses -> BusConfigType]
  /\ \A b \in Buses : Len(BusConfigs[b].inConfig) < BusCount
  /\ {ToAuxPlayList, AuxToAuxPlayList, ToOutPlayList} \subseteq PlaylistType
  /\ Inst_Bus_Config \in [Names -> Slots \cup {NoSlot, DefaultSlot}]
  /\ {configStatus, default} \subseteq BOOLEAN
  /\ parserPc \in {"idle", "default", "check", "write", "traverse", "done", "failed"}
  /\ call = <<>> \/ call \in [name : Names, slot : Slots \cup {DefaultSlot}]
  /\ visited \subseteq Buses
  /\ \A list \in {todo, rev, pending, sinks} : list \in Seq(Buses)
  /\ auxP \in 0 .. BusCount
  /\ calls \in 0 .. MaxCalls[INTERACTIVE]
  /\ started \cup playing \cup accepted \subseteq Slots \cup {DefaultSlot}
  /\ audioPc \in {"idle", "walk", "send"}
  /\ qStatus \in Classes /\ playBus \in 0 .. BusCount
  /\ walk \in Seq(Classes \X Buses)
  /\ refused \in Slots \cup {NoSlot}

Edges(slots) == UNION {EdgesOf(s) : s \in slots}
Acyclic(edges) ==
  \A S \in (SUBSET Buses) \ {{}} : \E b \in S : \A c \in S : <<b, c>> \notin edges

\* The aux buses that were ever configured form no loop: a signal that feeds
\* itself has no play order.
NoFeedback == Acyclic(Edges(accepted))

\* A configuration is refused as a loop only if it closes one with those that
\* were accepted.
LoopCheckIsExact == refused # NoSlot => ~Acyclic(Edges(accepted \cup {refused}))

\* inTraverse: assert(play_bus < busCount).
WalkStaysInList == audioPc = "walk" => playBus < BusCount

\* In every slice the walk comes to every queue a note waits in; otherwise the note
\* misses the slice.
EveryBusPlayed ==
  audioPc = "send" => \A s \in playing : QueuesOf(s) \subseteq ToSet(walk)

\* It comes to none twice, when the playlists do not change.
NoBusPlayedTwice == ~INTERACTIVE => IsInjective(walk)

\* A chain of instruments works within the slice: whatever an instrument reads from
\* an aux bus has been written before the instrument runs, at the first of its own
\* buses; the buses are cleared after the slice.
Before(p, q) ==
  \E m, n \in DOMAIN walk :
    walk[m] = p /\ walk[n] = q /\ m < n /\ \A k \in 1 .. m : walk[k] # q
WritersFirst ==
  audioPc = "send" =>
    \A r, w \in playing : \A b \in ToSet(w.auxout) \cap ToSet(r.auxin) :
      \A q \in QueuesOf(r) : Before(<<Class(w), b>>, q)

\* That holds when all the ways from one bus to another have the same length.
Graded(edges) ==
  \E level \in [UNION {{e[1], e[2]} : e \in edges} -> 0 .. BusCount - 1] :
    \A e \in edges : level[e[1]] = level[e[2]] + 1
WritersFirstIfGraded ==
  audioPc = "send" /\ Graded(Edges(accepted)) => WritersFirst
=============================================================================
