----------------------------- MODULE InputFiles -----------------------------
(***************************************************************************)
(* The table of input files: rtinput opens a file, or finds it open, and   *)
(* leaves its index for the instruments created afterwards; rtsetinput     *)
(* attaches an instrument and counts the reference; the destructor of the  *)
(* instrument gives it back, and the last one closes the file and frees    *)
(* its slot for another.  A session never gives references back.           *)
(*                                                                         *)
(* A score is parsed, then played; in a session the two go on together.    *)
(* On macOS an instrument is deleted on a queue of the system, so several  *)
(* deletions, and the audio thread, run at once, and the count is a plain  *)
(* int: a decrement is a load and a store there.                           *)
(*                                                                         *)
(* Abstracted: a file is its name and its number of channels; reading,     *)
(* formats and the EMBEDDED host's buffers are left out, and so are        *)
(* instruments without an input from a file, which never touch the table.  *)
(* NeverClosed and OffsetCounted are deviations, not part of Next.          *)
(***************************************************************************)
EXTENDS Integers, FiniteSets

CONSTANTS
  Insts,          \* instruments
  Names,          \* what rtinput may be asked for
  AUDIO,          \* the name of the audio device
  NoName,         \* the name of a closed file
  FileChans,      \* the channels of each, 0 if it cannot be opened
  max_input_fds,  \* slots in the table
  MAXCHANS,       \* the most channels a file may have
  Hosts           \* how RTcmix runs, see HostType

HostType == [interactive : BOOLEAN,  \* a session
             stops : BOOLEAN,        \* a failed call ends the score (Minc)
             dispatch : BOOLEAN]     \* USE_OSX_DISPATCH

ASSUME InstAssumption == IsFiniteSet(Insts)
ASSUME TableAssumption == max_input_fds \in Nat \ {0} /\ MAXCHANS \in Nat
ASSUME NameAssumption == /\ AUDIO \in Names /\ NoName \notin Names
                         /\ FileChans \in [Names -> Nat]
\* With a front end that goes on after a failed call (Perl) a deletion on
\* macOS may meet the next reference(): that combination is left out.
ASSUME HostAssumption == /\ Hosts \subseteq HostType
                         /\ \A h \in Hosts : h.dispatch => h.stops

Slots == 0 .. max_input_fds - 1
NoSlot == -1  \* NO_DEVICE_FDINDEX

VARIABLES
  host,              \* how this process runs
  phase,             \* "parse", "play", "session", "exited" or "aborted"
  inputFileTable,    \* the InputFiles, see FileType
  last_input_index,  \* what the last rtinput returned
  inst               \* the instruments, see InstType

vars == <<host, phase, inputFileTable, last_input_index, inst>>

FileType == [open : BOOLEAN, name : Names \cup {NoName}, chans : Nat,
             refcount : Int,
             used : BOOLEAN]  \* history: referenced since it was opened

\* "setup" until setup() returns, "held" by the scheduler or a CHAIN, "dying"
\* once deleted on the queue of the system, "releasing" in unreference() there.
InstType == [state : {"none", "setup", "held", "dying", "releasing", "gone"},
             fdIndex : Slots \cup {NoSlot}, sfile_on : BOOLEAN,
             loaded : Int,                \* the count unreference() has loaded
             file : Names \cup {NoName}]  \* history: what it was attached to

NoFile == [open |-> FALSE, name |-> NoName, chans |-> 0, refcount |-> 0,
           used |-> FALSE]
NoInst == [state |-> "none", fdIndex |-> NoSlot, sfile_on |-> FALSE,
           loaded |-> 0, file |-> NoName]
Gone   == [state |-> "gone", fdIndex |-> NoSlot, sfile_on |-> FALSE,
           loaded |-> 0, file |-> NoName]

interactive == host.interactive
isOpen(s)   == inputFileTable[s].open
Loaded(n)   == {s \in Slots : isOpen(s) /\ inputFileTable[s].name = n}
Free        == {s \in Slots : ~isOpen(s)}
IsFirst(s, S) == s \in S /\ \A t \in S : s <= t

Idle    == \A i \in Insts : inst[i].state # "setup"
Parsing == phase \in {"parse", "session"} /\ Idle
Playing == phase \in {"play", "session"}

\* A failed call ends a score in the front ends that stop there.
Fails == phase' = IF host.stops /\ ~interactive THEN "exited" ELSE phase

Init ==
  /\ host \in Hosts
  /\ phase = IF interactive THEN "session" ELSE "parse"
  /\ inputFileTable = [s \in Slots |-> NoFile]
  /\ last_input_index = NoSlot
  /\ inst = [i \in Insts |-> NoInst]

-----------------------------------------------------------------------------
(* The parser thread: rtinput.                                             *)

FindInput(n) ==
  /\ Parsing
  /\ \E s \in Slots : IsFirst(s, Loaded(n)) /\ last_input_index' = s
  /\ UNCHANGED <<host, phase, inputFileTable, inst>>

OpenFails(n) ==
  /\ Parsing /\ Loaded(n) = {}
  /\ n # AUDIO /\ FileChans[n] = 0
  /\ last_input_index' = NoSlot
  /\ Fails
  /\ UNCHANGED <<host, inputFileTable, inst>>

\* The audio device was not configured for recording; or rtsetparams has not been
\* called yet, when there is no input and nothing to reset.
NotRecording ==
  /\ Parsing /\ Loaded(AUDIO) = {}
  /\ Fails
  /\ UNCHANGED <<host, inputFileTable, last_input_index, inst>>

\* InputFile::init stores the descriptor and the name before it looks at the
\* channels: a file that has too many is refused, and stays in the table.
OpenInput(n) ==
  /\ Parsing /\ Loaded(n) = {} /\ FileChans[n] > 0
  /\ \E s \in Slots :
       /\ IsFirst(s, Free)
       /\ inputFileTable' = [inputFileTable EXCEPT ![s] =
            [open |-> TRUE, name |-> n, chans |-> FileChans[n], refcount |-> 0,
             used |-> FALSE]]
       /\ last_input_index' = IF FileChans[n] > MAXCHANS THEN NoSlot ELSE s
  /\ IF FileChans[n] > MAXCHANS THEN Fails ELSE UNCHANGED phase
  /\ UNCHANGED <<host, inst>>

TableFull(n) ==
  /\ Parsing /\ Loaded(n) = {} /\ FileChans[n] > 0
  /\ Free = {}
  /\ last_input_index' = NoSlot
  /\ Fails
  /\ UNCHANGED <<host, inputFileTable, inst>>

-----------------------------------------------------------------------------
(* InputFile::reference, unreference and what leads to it.                 *)

Referenced(f) == [f EXCEPT !.refcount = f.refcount + 1, !.used = TRUE]

\* close() keeps the count; init() resets it.
close(f) == [open |-> FALSE, name |-> NoName, chans |-> 0,
             refcount |-> f.refcount, used |-> FALSE]

\* --_refcount, from the value loaded.
NeverClosed(f, loaded) == [f EXCEPT !.refcount = loaded - 1]
Unreferenced(f, loaded) ==
  IF loaded - 1 <= 0 THEN close([f EXCEPT !.refcount = loaded - 1])
                     ELSE [f EXCEPT !.refcount = loaded - 1]

\* The destructor has a reference to give back.
Releases(i) == inst[i].sfile_on /\ inst[i].fdIndex # NoSlot /\ ~interactive

unreference(i, loaded) ==
  inputFileTable' = [inputFileTable EXCEPT ![inst[i].fdIndex] =
                       Unreferenced(@, loaded)]

\* The last unref() of instrument i deletes it, here or on the system's queue.
Delete(i) ==
  IF host.dispatch
  THEN /\ inst' = [inst EXCEPT ![i].state = "dying"]
       /\ UNCHANGED inputFileTable
  ELSE /\ inst' = [inst EXCEPT ![i] = Gone]
       /\ IF Releases(i)
          THEN unreference(i, inputFileTable[inst[i].fdIndex].refcount)
          ELSE UNCHANGED inputFileTable

-----------------------------------------------------------------------------
(* The parser thread: an instrument that reads from an "in" bus.           *)

\* get_bus_config makes the default configuration for a name that has none, and
\* asserts that the last input has channels.
DefaultConfigAborts ==
  /\ Parsing
  /\ last_input_index # NoSlot /\ inputFileTable[last_input_index].chans = 0
  /\ phase' = "aborted"
  /\ UNCHANGED <<host, inputFileTable, last_input_index, inst>>

HasInputSource == last_input_index # NoSlot /\ isOpen(last_input_index)

AttachFails(i) ==
  /\ Parsing /\ inst[i].state = "none"
  /\ ~HasInputSource
  /\ inst' = [inst EXCEPT ![i] = Gone]
  /\ Fails
  /\ UNCHANGED <<host, inputFileTable, last_input_index>>

\* An offset into the audio device is refused after fdIndex was set: the
\* instrument is destroyed, and sfile_on tells that it has no reference.
OffsetCounted(i) ==
  /\ Parsing /\ inst[i].state = "none"
  /\ HasInputSource /\ inputFileTable[last_input_index].name = AUDIO
  /\ inst' = [inst EXCEPT ![i].state = "setup", ![i].sfile_on = TRUE,
                          ![i].fdIndex = last_input_index,
                          ![i].file = AUDIO]
  /\ UNCHANGED <<host, phase, inputFileTable, last_input_index>>
IllegalOffset(i) ==
  /\ Parsing /\ inst[i].state = "none"
  /\ HasInputSource /\ inputFileTable[last_input_index].name = AUDIO
  /\ inst' = [inst EXCEPT ![i].state = "setup",
                          ![i].fdIndex = last_input_index]
  /\ UNCHANGED <<host, phase, inputFileTable, last_input_index>>

AttachInput(i) ==
  /\ Parsing /\ inst[i].state = "none"
  /\ HasInputSource
  /\ inst' = [inst EXCEPT
       ![i] = [state |-> "setup", fdIndex |-> last_input_index,
               sfile_on |-> TRUE, loaded |-> 0,
               file |-> inputFileTable[last_input_index].name]]
  /\ inputFileTable' = [inputFileTable EXCEPT ![last_input_index] = Referenced(@)]
  /\ UNCHANGED <<host, phase, last_input_index>>

SetupSucceeds(i) ==
  /\ inst[i].state = "setup" /\ inst[i].sfile_on
  /\ inst' = [inst EXCEPT ![i].state = "held"]
  /\ UNCHANGED <<host, phase, inputFileTable, last_input_index>>

SetupFails(i) ==
  /\ inst[i].state = "setup"
  /\ Delete(i)
  /\ Fails
  /\ UNCHANGED <<host, last_input_index>>

-----------------------------------------------------------------------------
(* Playing: the audio thread, and the system's queue on macOS.             *)

StartPlaying ==
  /\ phase = "parse" /\ Idle
  /\ phase' = "play"
  /\ UNCHANGED <<host, inputFileTable, last_input_index, inst>>

\* A note ends, or its configure() fails.
ReleaseInst(i) ==
  /\ Playing /\ inst[i].state = "held"
  /\ Delete(i)
  /\ UNCHANGED <<host, phase, last_input_index>>

DestructorStarts(i) ==
  /\ Playing /\ inst[i].state = "dying"
  /\ inst' = [inst EXCEPT ![i] =
       IF Releases(i)
       THEN [@ EXCEPT !.state = "releasing",
                      !.loaded = inputFileTable[inst[i].fdIndex].refcount]
       ELSE Gone]
  /\ UNCHANGED <<host, phase, inputFileTable, last_input_index>>

DestructorEnds(i) ==
  /\ Playing /\ inst[i].state = "releasing"
  /\ unreference(i, inst[i].loaded)
  /\ inst' = [inst EXCEPT ![i] = Gone]
  /\ UNCHANGED <<host, phase, last_input_index>>

-----------------------------------------------------------------------------
Next ==
  \/ \E n \in Names : FindInput(n) \/ OpenFails(n) \/ OpenInput(n) \/ TableFull(n)
  \/ NotRecording \/ DefaultConfigAborts \/ StartPlaying
  \/ \E i \in Insts :
       \/ AttachFails(i) \/ IllegalOffset(i) \/ AttachInput(i)
       \/ SetupSucceeds(i) \/ SetupFails(i)
       \/ ReleaseInst(i) \/ DestructorStarts(i) \/ DestructorEnds(i)

Spec == Init /\ [][Next]_vars

-----------------------------------------------------------------------------
TypeOK ==
  /\ host \in Hosts
  /\ phase \in {"parse", "play", "session", "exited", "aborted"}
  /\ inputFileTable \in [Slots -> FileType]
  /\ last_input_index \in Slots \cup {NoSlot}
  /\ inst \in [Insts -> InstType]

\* The instruments that owe slot s a reference.
Users(s) == {i \in Insts : inst[i].sfile_on /\ inst[i].fdIndex = s}

\* The count of an open file never falls below the number of instruments that
\* are attached to it.  In a score, on a system without dispatch queues, it is
\* that number, and a file that was attached to is open only while one is left
\* (Instrument.cpp:458, InputFile.cpp:555): the one that leaves last closes it,
\* and a slot used for another file starts with no debts of the former.
ReferencesAreExact ==
  \A s \in Slots : isOpen(s) =>
    /\ inputFileTable[s].refcount >= Cardinality(Users(s))
    /\ ~interactive /\ ~host.dispatch =>
         /\ inputFileTable[s].refcount = Cardinality(Users(s))
         /\ inputFileTable[s].used => Users(s) # {}

\* The file an instrument was attached to stays open, in the same slot, for as
\* long as the instrument may read it, however many others fail, end and are
\* deleted meanwhile: no note reads a closed file or the file of another note,
\* and InputFile.cpp:608 finds the channels the instrument asked for.
ReaderKeepsItsFile ==
  \A i \in Insts : inst[i].sfile_on /\ inst[i].state \in {"setup", "held"} =>
    LET f == inputFileTable[inst[i].fdIndex] IN
      f.open /\ f.name = inst[i].file /\ f.chans = FileChans[inst[i].file]
=============================================================================
