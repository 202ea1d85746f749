-------------------------- MODULE InputFilesProof ---------------------------
(***************************************************************************)
(* The references of the input files are exact, and a reader keeps its     *)
(* file, for any number of instruments, names and slots.                   *)
(*                                                                         *)
(* What makes the invariant inductive: an instrument that owes a reference *)
(* has its file open in its slot (FilesKept), deletions do not meet        *)
(* attachments (Deletions), and what a deletion has loaded is never less   *)
(* than the number of instruments still attached (Loads), although other   *)
(* deletions may have stored their own result since.                       *)
(***************************************************************************)
EXTENDS InputFiles, FiniteSetTheorems, TLAPS

\* Who may be attached, and where.
Members ==
  \A i \in Insts :
    /\ inst[i].state \in {"none", "gone"} => ~inst[i].sfile_on
    /\ inst[i].sfile_on => inst[i].fdIndex \in Slots

Phases ==
  /\ phase = "session" => interactive
  /\ phase \in {"parse", "play"} => ~interactive

Deletions ==
  \A i \in Insts : inst[i].state \in {"dying", "releasing"} =>
    host.dispatch /\ phase # "parse"

Loads ==
  \A i \in Insts : inst[i].state = "releasing" =>
    /\ ~interactive /\ inst[i].sfile_on
    /\ \A s \in Slots :
         inst[i].fdIndex = s => inst[i].loaded >= Cardinality(Users(s))

Described ==
  \A s \in Slots : isOpen(s) =>
    /\ inputFileTable[s].name \in Names
    /\ inputFileTable[s].chans = FileChans[inputFileTable[s].name]

FilesKept ==
  \A i \in Insts : inst[i].sfile_on =>
    LET f == inputFileTable[inst[i].fdIndex] IN
      f.open /\ f.name = inst[i].file /\ f.chans = FileChans[inst[i].file]

IInv == /\ TypeOK /\ Members /\ Phases /\ Deletions /\ Loads
        /\ Described /\ FilesKept /\ ReferencesAreExact

-----------------------------------------------------------------------------
LEMMA UsersAreFinite ==
  ASSUME NEW s
  PROVE  IsFiniteSet(Users(s)) /\ Cardinality(Users(s)) \in Nat
<1>1. Users(s) \subseteq Insts
  BY DEF Users
<1> QED
  BY <1>1, InstAssumption, FS_Subset, FS_CardinalityType

\* One instrument more or less.
LEMMA OneMore ==
  ASSUME NEW S, IsFiniteSet(S), NEW i, i \notin S
  PROVE  Cardinality(S \cup {i}) = Cardinality(S) + 1
BY FS_AddElement

LEMMA OneLess ==
  ASSUME NEW S, IsFiniteSet(S), NEW i \in S
  PROVE  /\ Cardinality(S \ {i}) = Cardinality(S) - 1
         /\ Cardinality(S) = 1 => S \ {i} = {}
<1>1. Cardinality(S \ {i}) = Cardinality(S) - 1 /\ IsFiniteSet(S \ {i})
  BY FS_RemoveElement
<1>2. Cardinality(S) = 1 => Cardinality(S \ {i}) = 0
  BY <1>1
<1> QED
  BY <1>1, <1>2, FS_EmptySet

LEMMA ReferencedFile ==
  ASSUME NEW f \in FileType
  PROVE  LET g == Referenced(f) IN
           /\ g \in FileType
           /\ g.refcount = f.refcount + 1
           /\ g.open = f.open /\ g.name = f.name /\ g.chans = f.chans
<1> DEFINE h == [f EXCEPT !.refcount = f.refcount + 1]
<1>1. h \in FileType
  BY DEF FileType
<1>2. [h EXCEPT !.used = TRUE] \in FileType
  <2> HIDE DEF h
  <2> QED
    BY <1>1 DEF FileType
<1>3. Referenced(f) = [h EXCEPT !.used = TRUE]
  BY Zenon DEF Referenced
<1> QED
  BY <1>2, <1>3 DEF Referenced, FileType

\* Nobody owes a closed slot anything.
LEMMA ClosedHasNoUsers ==
  ASSUME FilesKept, NEW s \in Slots, ~isOpen(s)
  PROVE  Users(s) = {} /\ Cardinality(Users(s)) = 0
<1>1. Users(s) = {}
  BY DEF FilesKept, Users, isOpen
<1> QED
  BY <1>1, FS_EmptySet

LEMMA GoneHasNoFile ==
  Gone \in InstType /\ Gone.sfile_on = FALSE /\ Gone.state = "gone"
BY DEF Gone, InstType

LEMMA InitInv == Init => IInv
<1> SUFFICES ASSUME Init PROVE IInv
  OBVIOUS
<1> USE DEF Init
<1>1. TypeOK
  BY TableAssumption, NameAssumption, HostAssumption
  DEF TypeOK, NoFile, NoInst, FileType, InstType, Slots, NoSlot, interactive
<1>2. Members /\ Phases /\ Deletions /\ Loads /\ Described /\ FilesKept
  BY DEF Members, Phases, Deletions, Loads, Described, FilesKept, NoInst,
         NoFile, isOpen, interactive
<1>3. ReferencesAreExact
  BY DEF ReferencesAreExact, isOpen, NoFile
<1> QED
  BY <1>1, <1>2, <1>3 DEF IInv

-----------------------------------------------------------------------------
(* Steps that leave the table and the instruments alone.                   *)

LEMMA QuietStep ==
  ASSUME IInv, UNCHANGED <<host, inputFileTable, inst>>,
         \/ phase' \in {phase, "exited", "aborted"}
         \/ phase = "parse" /\ phase' = "play",
         last_input_index' \in Slots \cup {NoSlot}
  PROVE  IInv'
<1> USE DEF IInv
<1>1. TypeOK'
  BY DEF TypeOK
<1>2. Members' /\ Described' /\ FilesKept'
  BY DEF Members, Described, FilesKept, isOpen
<1>3. Phases' /\ Deletions'
  BY DEF Phases, Deletions, interactive
<1>4. \A s : Users(s)' = Users(s)
  BY DEF Users
<1>5. Loads'
  BY <1>4 DEF Loads, interactive
<1>6. ReferencesAreExact'
  BY <1>4 DEF ReferencesAreExact, isOpen, interactive
<1> QED
  BY <1>1, <1>2, <1>3, <1>5, <1>6

LEMMA ParserQuiet ==
  ASSUME IInv,
         \/ \E n \in Names : FindInput(n) \/ OpenFails(n) \/ TableFull(n)
         \/ NotRecording \/ DefaultConfigAborts \/ StartPlaying
  PROVE  IInv'
<1>1. last_input_index \in Slots \cup {NoSlot}
  BY DEF IInv, TypeOK
<1>2. ASSUME NEW n \in Names, FindInput(n) PROVE IInv'
  BY <1>2, QuietStep DEF FindInput
<1>3. ASSUME NEW n \in Names, OpenFails(n) \/ TableFull(n) PROVE IInv'
  BY <1>3, QuietStep DEF OpenFails, TableFull, Fails
<1>4. ASSUME NotRecording \/ DefaultConfigAborts \/ StartPlaying PROVE IInv'
  BY <1>1, <1>4, QuietStep DEF NotRecording, DefaultConfigAborts, StartPlaying, Fails
<1> QED
  BY <1>2, <1>3, <1>4

LEMMA OpenKeepsInv ==
  ASSUME IInv, NEW n \in Names, OpenInput(n)
  PROVE  IInv'
<1> USE DEF IInv
<1>1. PICK s \in Slots :
        /\ ~isOpen(s)
        /\ inputFileTable' = [inputFileTable EXCEPT ![s] =
             [open |-> TRUE, name |-> n, chans |-> FileChans[n], refcount |-> 0,
              used |-> FALSE]]
        /\ last_input_index' \in {s, NoSlot}
  BY DEF OpenInput, IsFirst, Free
<1>2. phase' \in {phase, "exited"} /\ UNCHANGED <<host, inst>>
  BY DEF OpenInput, Fails
<1>3. TypeOK'
  <2>1. inputFileTable' \in [Slots -> FileType]
    BY <1>1, NameAssumption DEF TypeOK, FileType
  <2> QED
    BY <1>1, <1>2, <2>1 DEF TypeOK
<1>4. Members' /\ Phases' /\ Deletions'
  BY <1>2 DEF Members, Phases, Deletions, interactive
<1>5. \A t : Users(t)' = Users(t)
  BY <1>2 DEF Users
<1>6. Loads'
  BY <1>2, <1>5 DEF Loads, interactive
<1>7. Users(s) = {} /\ Cardinality(Users(s)) = 0
  BY <1>1, ClosedHasNoUsers
<1>8. FilesKept'
  BY <1>1, <1>2, <1>7 DEF FilesKept, Members, TypeOK, Users
<1>10. Described'
  BY <1>1 DEF Described, TypeOK, isOpen
<1>9. ReferencesAreExact'
  <2> SUFFICES ASSUME NEW t \in Slots, isOpen(t)'
               PROVE  /\ inputFileTable'[t].refcount >= Cardinality(Users(t))
                      /\ ~interactive /\ ~host.dispatch =>
                           /\ inputFileTable'[t].refcount = Cardinality(Users(t))
                           /\ inputFileTable'[t].used => Users(t) # {}
    BY <1>2, <1>5 DEF ReferencesAreExact, interactive
  <2>1. CASE t = s
    <3>1. inputFileTable'[t].refcount = 0 /\ ~inputFileTable'[t].used
      BY <1>1, <2>1 DEF TypeOK
    <3> QED
      BY <1>7, <2>1, <3>1
  <2>2. CASE t # s
    <3>1. inputFileTable'[t] = inputFileTable[t]
      BY <1>1, <2>2 DEF TypeOK
    <3> QED
      BY <3>1 DEF ReferencesAreExact, isOpen
  <2> QED
    BY <2>1, <2>2
<1> QED
  BY <1>3, <1>4, <1>6, <1>8, <1>10, <1>9

-----------------------------------------------------------------------------
(* Steps that leave the table alone and attach or detach nobody.           *)

LEMMA SameUsers ==
  ASSUME IInv, NEW i \in Insts, UNCHANGED <<host, inputFileTable>>,
         NEW r \in InstType, inst' = [inst EXCEPT ![i] = r],
         r.sfile_on = inst[i].sfile_on,
         r.sfile_on => r.fdIndex = inst[i].fdIndex /\ r.file = inst[i].file,
         r.state \in {"none", "gone"} => ~r.sfile_on,
         phase' \in {phase, "exited"}, last_input_index' = last_input_index,
         r.state \in {"dying", "releasing"} => host.dispatch /\ phase' # "parse",
         r.state = "releasing" =>
           /\ ~interactive /\ r.sfile_on
           /\ \A s \in Slots :
                r.fdIndex = s => r.loaded >= Cardinality(Users(s))
  PROVE  IInv'
<1> USE DEF IInv
<1>0. inst'[i] = r /\ \A j \in Insts \ {i} : inst'[j] = inst[j]
  BY DEF TypeOK
<1>1. TypeOK'
  BY DEF TypeOK
<1>2. Members' /\ Described' /\ FilesKept'
  BY <1>0 DEF Members, Described, FilesKept, isOpen
<1>3. Phases' /\ Deletions'
  BY <1>0 DEF Phases, Deletions, interactive
<1>4. \A s : Users(s)' = Users(s)
  BY <1>0 DEF Users
<1>5. Loads'
  BY <1>0, <1>4 DEF Loads, interactive
<1>6. ReferencesAreExact'
  BY <1>4 DEF ReferencesAreExact, isOpen, interactive
<1> QED
  BY <1>1, <1>2, <1>3, <1>5, <1>6

LEMMA QuietInstSteps ==
  ASSUME IInv, NEW i \in Insts,
         AttachFails(i) \/ IllegalOffset(i) \/ SetupSucceeds(i)
  PROVE  IInv'
<1> USE DEF IInv
<1>1. inst[i] \in InstType /\ last_input_index \in Slots \cup {NoSlot}
  BY DEF TypeOK
<1>2. CASE AttachFails(i)
  <2>1. inst[i].sfile_on = FALSE
    BY <1>1, <1>2 DEF AttachFails, Members, InstType
  <2> QED
    BY <1>2, <2>1, GoneHasNoFile, SameUsers DEF AttachFails, Fails
<1>3. CASE IllegalOffset(i)
  <2> DEFINE r == [inst[i] EXCEPT !.state = "setup", !.fdIndex = last_input_index]
  <2>1. ~inst[i].sfile_on
    BY <1>3 DEF IllegalOffset, Members
  <2>2. r \in InstType /\ r.state = "setup" /\ r.sfile_on = inst[i].sfile_on
    BY <1>1 DEF InstType
  <2>3. inst' = [inst EXCEPT ![i] = r]
    BY <1>3 DEF IllegalOffset
  <2> QED
    BY <1>3, <2>1, <2>2, <2>3, SameUsers DEF IllegalOffset
<1>4. CASE SetupSucceeds(i)
  <2> DEFINE r == [inst[i] EXCEPT !.state = "held"]
  <2>1. r \in InstType /\ r.state = "held" /\ r.sfile_on = inst[i].sfile_on
        /\ r.fdIndex = inst[i].fdIndex /\ r.file = inst[i].file
    BY <1>1 DEF InstType
  <2>2. inst' = [inst EXCEPT ![i] = r]
    BY <1>4 DEF SetupSucceeds
  <2> QED
    BY <1>4, <2>1, <2>2, SameUsers DEF SetupSucceeds
<1> QED
  BY <1>2, <1>3, <1>4

-----------------------------------------------------------------------------
(* An instrument is attached.                                              *)

LEMMA AttachKeepsInv ==
  ASSUME IInv, NEW i \in Insts, AttachInput(i)
  PROVE  IInv'
<1> USE DEF IInv
<1>1. PICK s \in Slots : /\ s = last_input_index
                        /\ isOpen(s) /\ phase \in {"parse", "session"}
  BY DEF AttachInput, HasInputSource, Parsing, TypeOK
<1> DEFINE r == [state |-> "setup", fdIndex |-> s, sfile_on |-> TRUE,
                 loaded |-> 0, file |-> inputFileTable[s].name]
<1>2. UNCHANGED <<host, phase, last_input_index>>
  BY DEF AttachInput
<1>3. r \in InstType
  BY <1>1 DEF TypeOK, InstType, FileType
<1>4. inst' = [inst EXCEPT ![i] = r]
  BY <1>1 DEF AttachInput
<1>5. inst'[i] = r /\ \A j \in Insts \ {i} : inst'[j] = inst[j]
  BY <1>4 DEF TypeOK
<1> DEFINE f == inputFileTable[s]
           g == Referenced(f)
<1>6. /\ inputFileTable' = [inputFileTable EXCEPT ![s] = g]
      /\ g \in FileType
      /\ g.refcount = f.refcount + 1
      /\ g.open = f.open /\ g.name = f.name /\ g.chans = f.chans
  <2>1. f \in FileType
    BY <1>1 DEF TypeOK
  <2>2. inputFileTable' = [inputFileTable EXCEPT ![s] = g]
    BY <1>1, Zenon DEF AttachInput
  <2>3. /\ g \in FileType
        /\ g.refcount = f.refcount + 1
        /\ g.open = f.open /\ g.name = f.name /\ g.chans = f.chans
    BY <2>1, ReferencedFile
  <2> QED
    BY <2>2, <2>3
<1>7. /\ inputFileTable' \in [Slots -> FileType]
      /\ inputFileTable'[s] = g
      /\ \A t \in Slots \ {s} : inputFileTable'[t] = inputFileTable[t]
  <2> HIDE DEF g
  <2> QED
    BY <1>1, <1>6 DEF TypeOK
<1> HIDE DEF f, g
<1>16. \A t \in Slots : /\ inputFileTable'[t].open = inputFileTable[t].open
                       /\ inputFileTable'[t].name = inputFileTable[t].name
                       /\ inputFileTable'[t].chans = inputFileTable[t].chans
  BY <1>6, <1>7 DEF f
<1>8. TypeOK'
  BY <1>2, <1>3, <1>4, <1>7 DEF TypeOK
<1>9. ~inst[i].sfile_on
  BY DEF AttachInput, Members
<1>10. /\ Users(s)' = Users(s) \cup {i} /\ i \notin Users(s)
       /\ \A t \in Slots \ {s} : Users(t)' = Users(t)
  <2> HIDE DEF r
  <2>1. inst'[i].sfile_on /\ inst'[i].fdIndex = s
    BY <1>5 DEF r
  <2>2. i \notin Users(s) /\ \A t : i \notin Users(t)
    BY <1>9 DEF Users
  <2>3. Users(s)' = Users(s) \cup {i}
    BY <1>5, <2>1 DEF Users
  <2>4. ASSUME NEW t \in Slots \ {s} PROVE Users(t)' = Users(t)
    BY <1>5, <2>1, <2>2 DEF Users
  <2> QED
    BY <2>2, <2>3, <2>4
<1>11. Members' /\ Phases' /\ Deletions'
  BY <1>1, <1>2, <1>5 DEF Members, Phases, Deletions, interactive
<1>12. Loads'
  \* Nothing is being deleted: a score is not played yet, and a session never
  \* releases.
  BY <1>1, <1>2, <1>5 DEF Loads, Deletions, Phases, interactive
<1>13. FilesKept'
  <2> SUFFICES ASSUME NEW j \in Insts, inst'[j].sfile_on
               PROVE  LET h == inputFileTable'[inst'[j].fdIndex] IN
                        /\ h.open /\ h.name = inst'[j].file
                        /\ h.chans = FileChans[inst'[j].file]
    BY DEF FilesKept
  <2>1. CASE j = i
    BY <1>1, <1>5, <1>16, <2>1 DEF Described, isOpen
  <2>2. CASE j # i
    BY <1>5, <1>16, <2>2 DEF FilesKept, Members
  <2> QED
    BY <2>1, <2>2
<1>14. ReferencesAreExact'
  <2> SUFFICES ASSUME NEW t \in Slots, isOpen(t)'
               PROVE  /\ inputFileTable'[t].refcount >= Cardinality(Users(t)')
                      /\ ~interactive /\ ~host.dispatch =>
                           /\ inputFileTable'[t].refcount = Cardinality(Users(t)')
                           /\ inputFileTable'[t].used => Users(t)' # {}
    BY <1>2 DEF ReferencesAreExact, interactive
  <2>1. CASE t = s
    <3>1. Cardinality(Users(t)') = Cardinality(Users(t)) + 1
      BY <1>10, <2>1, UsersAreFinite, OneMore
    <3>2. Users(t)' # {}
      BY <1>10, <2>1
    <3>3. inputFileTable[t].refcount \in Int
      BY DEF TypeOK, FileType
    <3> QED
      BY <1>1, <1>6, <1>7, <2>1, <3>1, <3>2, <3>3, UsersAreFinite
      DEF ReferencesAreExact, f
  <2>2. CASE t # s
    BY <1>7, <1>10, <2>2 DEF ReferencesAreExact, isOpen
  <2> QED
    BY <2>1, <2>2
<1>15. Described'
  BY <1>16 DEF Described, isOpen
<1> QED
  BY <1>8, <1>11, <1>12, <1>13, <1>14, <1>15

-----------------------------------------------------------------------------
(* An instrument is detached.                                              *)

\* The instrument i is gone, whatever happened to its slot's count.
LEMMA UsersWithout ==
  ASSUME TypeOK, NEW i \in Insts, inst' = [inst EXCEPT ![i] = Gone]
  PROVE  \A t : Users(t)' = Users(t) \ {i}
<1>1. /\ inst'[i].sfile_on = FALSE
      /\ \A j \in Insts \ {i} : inst'[j] = inst[j]
  BY GoneHasNoFile DEF TypeOK
<1> QED
  BY <1>1 DEF Users

\* unreference(), with a count loaded some time before.
LEMMA DetachKeepsInv ==
  ASSUME IInv, NEW i \in Insts, inst[i].sfile_on, ~interactive,
         NEW loaded \in Int, loaded >= Cardinality(Users(inst[i].fdIndex)),
         ~host.dispatch => loaded = inputFileTable[inst[i].fdIndex].refcount,
         unreference(i, loaded), inst' = [inst EXCEPT ![i] = Gone],
         phase' \in {phase, "exited"}, UNCHANGED <<host, last_input_index>>
  PROVE  IInv'
<1> USE DEF IInv
<1>1. PICK s \in Slots : s = inst[i].fdIndex
  BY DEF Members
<1> DEFINE f == inputFileTable[s]
           g == Unreferenced(f, loaded)
<1>2. /\ inst'[i] = Gone
      /\ \A j \in Insts \ {i} : inst'[j] = inst[j]
  BY DEF TypeOK
<1>3. f \in FileType /\ isOpen(s)
  BY <1>1 DEF TypeOK, FilesKept, isOpen
<1>4. /\ g \in FileType
      /\ loaded - 1 <= 0 => ~g.open
      /\ loaded - 1 > 0 => /\ g.open = f.open /\ g.name = f.name
                            /\ g.chans = f.chans /\ g.used = f.used
                            /\ g.refcount = loaded - 1
  <2>1. CASE loaded - 1 <= 0
    <3>1. g = [open |-> FALSE, name |-> NoName, chans |-> 0,
               refcount |-> [f EXCEPT !.refcount = loaded - 1].refcount,
               used |-> FALSE]
      BY <2>1, Zenon DEF Unreferenced, close
    <3> DEFINE n == [f EXCEPT !.refcount = loaded - 1].refcount
    <3>2. n \in Int
      BY <1>3 DEF FileType
    <3>3. g = [open |-> FALSE, name |-> NoName, chans |-> 0, refcount |-> n,
               used |-> FALSE]
      BY <3>1
    <3> HIDE DEF g, n
    <3>4. g \in FileType /\ ~g.open
      BY <3>2, <3>3 DEF FileType
    <3> QED
      BY <2>1, <3>4
  <2>2. CASE ~(loaded - 1 <= 0)
    <3>1. g = [f EXCEPT !.refcount = loaded - 1]
      BY <2>2, Zenon DEF Unreferenced
    <3> HIDE DEF f, g
    <3>2. [f EXCEPT !.refcount = loaded - 1] \in FileType
      BY <1>3 DEF FileType
    <3>3. /\ g.open = f.open /\ g.name = f.name /\ g.chans = f.chans
          /\ g.used = f.used /\ g.refcount = loaded - 1
      BY <1>3, <3>1 DEF FileType
    <3>4. g \in FileType
      BY <3>1, <3>2, Zenon
    <3> QED
      BY <2>2, <3>3, <3>4
  <2> QED
    BY <2>1, <2>2
<1> HIDE DEF f, g
<1>5. inputFileTable' = [inputFileTable EXCEPT ![s] = g]
  BY <1>1, Zenon DEF unreference, f, g
<1>6. /\ inputFileTable' \in [Slots -> FileType] /\ inputFileTable'[s] = g
      /\ \A t \in Slots \ {s} : inputFileTable'[t] = inputFileTable[t]
  BY <1>4, <1>5 DEF TypeOK
<1>7. \A t : Users(t)' = Users(t) \ {i}
  BY UsersWithout
<1>8. i \in Users(s) /\ \A t \in Slots \ {s} : Users(t)' = Users(t)
  BY <1>1, <1>7 DEF Users
<1>9. /\ Cardinality(Users(s)') = Cardinality(Users(s)) - 1
      /\ Cardinality(Users(s)) = 1 => Users(s)' = {}
  BY <1>7, <1>8, UsersAreFinite, OneLess
<1>10. Cardinality(Users(s)) >= 1
  BY <1>8, UsersAreFinite, FS_EmptySet
<1>11. TypeOK' /\ Members' /\ Phases' /\ Deletions'
  BY <1>2, <1>6, GoneHasNoFile
  DEF TypeOK, Members, Phases, Deletions, interactive
<1>12. Loads'
  <2> SUFFICES ASSUME NEW j \in Insts, inst'[j].state = "releasing"
               PROVE  /\ inst'[j].sfile_on
                      /\ \A t \in Slots : inst'[j].fdIndex = t =>
                           inst'[j].loaded >= Cardinality(Users(t)')
    BY DEF Loads, interactive
  <2>1. j # i /\ inst'[j] = inst[j]
    BY <1>2, GoneHasNoFile
  <2>2. inst[j].loaded \in Int /\ inst[j].sfile_on
    BY <2>1 DEF Loads, TypeOK, InstType
  <2>3. ASSUME NEW t \in Slots, inst[j].fdIndex = t
        PROVE  inst[j].loaded >= Cardinality(Users(t)')
    <3>1. inst[j].loaded >= Cardinality(Users(t))
      BY <2>1, <2>3 DEF Loads
    <3>2. CASE t = s
      BY <1>9, <2>2, <3>1, <3>2, UsersAreFinite
    <3>3. CASE t # s
      BY <1>8, <3>1, <3>3
    <3> QED
      BY <3>2, <3>3
  <2> QED
    BY <2>1, <2>2, <2>3
<1>13. loaded - 1 <= 0 => Users(s)' = {}
  BY <1>1, <1>9, <1>10, UsersAreFinite
<1>14. FilesKept'
  <2> SUFFICES ASSUME NEW j \in Insts, inst'[j].sfile_on
               PROVE  LET h == inputFileTable'[inst'[j].fdIndex] IN
                        /\ h.open /\ h.name = inst'[j].file
                        /\ h.chans = FileChans[inst'[j].file]
    BY DEF FilesKept
  <2>1. j # i /\ inst'[j] = inst[j]
    BY <1>2, GoneHasNoFile
  <2>2. PICK t \in Slots : t = inst[j].fdIndex /\ j \in Users(t)'
    BY <2>1 DEF Members, Users
  <2>3. CASE t = s
    <3>1. loaded - 1 > 0
      BY <1>13, <2>2, <2>3
    <3>2. inst[j].fdIndex = s /\ inst[j].sfile_on
      BY <2>1, <2>2, <2>3
    <3>3. f.open /\ f.name = inst[j].file /\ f.chans = FileChans[inst[j].file]
      BY <3>2 DEF FilesKept, f
    <3>4. g.open = f.open /\ g.name = f.name /\ g.chans = f.chans
      BY <1>4, <3>1
    <3>5. inputFileTable'[inst'[j].fdIndex] = g
      BY <1>6, <2>1, <3>2
    <3> QED
      BY <2>1, <3>3, <3>4, <3>5
  <2>4. CASE t # s
    BY <1>6, <2>1, <2>2, <2>4 DEF FilesKept
  <2> QED
    BY <2>3, <2>4
<1>15. Described'
  BY <1>4, <1>6 DEF Described, isOpen, f
<1>16. ReferencesAreExact'
  <2> SUFFICES ASSUME NEW t \in Slots, isOpen(t)'
               PROVE  /\ inputFileTable'[t].refcount >= Cardinality(Users(t)')
                      /\ ~host.dispatch =>
                           /\ inputFileTable'[t].refcount = Cardinality(Users(t)')
                           /\ inputFileTable'[t].used => Users(t)' # {}
    BY DEF ReferencesAreExact, interactive
  <2>1. CASE t = s
    <3>1. loaded - 1 > 0 /\ inputFileTable'[t].refcount = loaded - 1
      BY <1>4, <1>6, <2>1 DEF isOpen
    <3>2. ~host.dispatch => loaded = Cardinality(Users(s))
      BY <1>1, <1>3 DEF ReferencesAreExact
    <3>3. loaded >= Cardinality(Users(s))
      BY <1>1
    <3>4. ~host.dispatch => Cardinality(Users(s)') # 0
      BY <1>9, <3>1, <3>2, UsersAreFinite
    <3>5. ~host.dispatch => Users(s)' # {}
      BY <3>4, FS_EmptySet
    <3> QED
      BY <1>9, <2>1, <3>1, <3>2, <3>3, <3>5, UsersAreFinite
  <2>2. CASE t # s
    BY <1>6, <1>8, <2>2 DEF ReferencesAreExact, isOpen
  <2> QED
    BY <2>1, <2>2
<1> QED
  BY <1>11, <1>12, <1>14, <1>15, <1>16

\* In a session an instrument leaves its reference behind.
LEMMA LeaveKeepsInv ==
  ASSUME IInv, NEW i \in Insts, interactive, inst' = [inst EXCEPT ![i] = Gone],
         phase' \in {phase, "exited"},
         UNCHANGED <<host, inputFileTable, last_input_index>>
  PROVE  IInv'
<1> USE DEF IInv
<1>1. /\ inst'[i] = Gone
      /\ \A j \in Insts \ {i} : inst'[j] = inst[j]
  BY DEF TypeOK
<1>2. TypeOK'
  BY GoneHasNoFile DEF TypeOK
<1>3. Members' /\ Phases' /\ Deletions' /\ Loads' /\ Described' /\ FilesKept'
  BY <1>1, GoneHasNoFile
  DEF Members, Phases, Deletions, Loads, Described, FilesKept, isOpen,
      interactive
<1>4. ReferencesAreExact'
  <2> SUFFICES ASSUME NEW s \in Slots, isOpen(s)
               PROVE  inputFileTable[s].refcount >= Cardinality(Users(s)')
    BY DEF ReferencesAreExact, isOpen, interactive
  <2>1. Users(s)' \subseteq Users(s)
    BY UsersWithout
  <2>2. Cardinality(Users(s)') <= Cardinality(Users(s)) /\ IsFiniteSet(Users(s)')
    BY <2>1, UsersAreFinite, FS_Subset
  <2>3. Cardinality(Users(s)') \in Nat
    BY <2>2, FS_CardinalityType
  <2>4. /\ inputFileTable[s].refcount \in Int
        /\ inputFileTable[s].refcount >= Cardinality(Users(s))
    BY DEF ReferencesAreExact, TypeOK, FileType
  <2> QED
    BY <2>2, <2>3, <2>4, UsersAreFinite
<1> QED
  BY <1>2, <1>3, <1>4

\* An instrument without a reference goes, whatever it was doing.
LEMMA NoReferenceKeepsInv ==
  ASSUME IInv, NEW i \in Insts, ~inst[i].sfile_on,
         inst' = [inst EXCEPT ![i] = Gone], phase' \in {phase, "exited"},
         UNCHANGED <<host, inputFileTable, last_input_index>>
  PROVE  IInv'
<1>1. inst[i].sfile_on = FALSE
  BY DEF IInv, TypeOK, InstType
<1> QED
  BY <1>1, GoneHasNoFile, SameUsers

\* The last unref() of an instrument, after a failure or while playing.
LEMMA DeleteKeepsInv ==
  ASSUME IInv, NEW i \in Insts, Delete(i), phase' \in {phase, "exited"},
         host.dispatch => phase' # "parse",
         inst[i].state \in {"setup", "held"},
         UNCHANGED <<host, last_input_index>>
  PROVE  IInv'
<1> USE DEF IInv
<1>1. CASE host.dispatch
  <2> DEFINE r == [inst[i] EXCEPT !.state = "dying"]
  <2>1. r \in InstType /\ r.state = "dying" /\ r.sfile_on = inst[i].sfile_on
        /\ r.fdIndex = inst[i].fdIndex /\ r.file = inst[i].file
    BY DEF InstType, TypeOK
  <2>2. inst' = [inst EXCEPT ![i] = r] /\ UNCHANGED inputFileTable
    BY <1>1 DEF Delete
  <2> QED
    BY <1>1, <2>1, <2>2, SameUsers
<1>2. CASE ~host.dispatch
  <2>1. inst' = [inst EXCEPT ![i] = Gone]
    BY <1>2 DEF Delete
  <2>2. CASE Releases(i)
    <3>1. PICK s \in Slots : s = inst[i].fdIndex
      BY <2>2 DEF Releases, Members
    <3>2. isOpen(s) /\ inputFileTable[s].refcount \in Int
      BY <2>2, <3>1 DEF Releases, FilesKept, isOpen, TypeOK, FileType
    <3>3. unreference(i, inputFileTable[s].refcount)
      BY <1>2, <2>2, <3>1 DEF Delete
    <3>4. inputFileTable[s].refcount >= Cardinality(Users(s))
      BY <3>2 DEF ReferencesAreExact
    <3> QED
      BY <2>1, <2>2, <3>1, <3>2, <3>3, <3>4, DetachKeepsInv DEF Releases
  <2>3. CASE ~Releases(i)
    <3>1. UNCHANGED inputFileTable
      BY <1>2, <2>3 DEF Delete
    <3>2. ~inst[i].sfile_on \/ interactive
      BY <2>3 DEF Releases, Members, Slots, NoSlot
    <3> QED
      BY <2>1, <3>1, <3>2, LeaveKeepsInv, NoReferenceKeepsInv
  <2> QED
    BY <2>2, <2>3
<1> QED
  BY <1>1, <1>2

-----------------------------------------------------------------------------
(* The steps of a deletion.                                                *)

LEMMA DeletingSteps ==
  ASSUME IInv, NEW i \in Insts, SetupFails(i) \/ ReleaseInst(i)
  PROVE  IInv'
<1>1. host.dispatch => host.stops
  BY HostAssumption DEF IInv, TypeOK
<1>2. CASE SetupFails(i)
  <2>1. phase' \in {phase, "exited"}
    BY <1>2 DEF SetupFails, Fails
  <2>2. host.dispatch => phase' # "parse"
    BY <1>1, <1>2 DEF SetupFails, Fails, IInv, Phases
  <2> QED
    BY <1>2, <2>1, <2>2, DeleteKeepsInv DEF SetupFails
<1>3. CASE ReleaseInst(i)
  BY <1>3, DeleteKeepsInv DEF ReleaseInst, Playing
<1> QED
  BY <1>2, <1>3

LEMMA DestructorSteps ==
  ASSUME IInv, NEW i \in Insts, DestructorStarts(i) \/ DestructorEnds(i)
  PROVE  IInv'
<1> USE DEF IInv
<1>1. inst[i] \in InstType
  BY DEF TypeOK
<1>2. CASE DestructorStarts(i) /\ Releases(i)
  <2>1. PICK s \in Slots : s = inst[i].fdIndex
    BY <1>2 DEF Releases, Members
  <2> DEFINE n == inputFileTable[s].refcount
  <2>2. n \in Int /\ n >= Cardinality(Users(s))
    BY <1>2, <2>1
    DEF Releases, FilesKept, isOpen, ReferencesAreExact, TypeOK, FileType
  <2> HIDE DEF n
  <2> DEFINE q == [inst[i] EXCEPT !.state = "releasing"]
             r == [q EXCEPT !.loaded = n]
  <2>3. q \in InstType /\ q.state = "releasing" /\ q.sfile_on = inst[i].sfile_on
        /\ q.fdIndex = inst[i].fdIndex /\ q.file = inst[i].file
    BY <1>1 DEF InstType
  <2>4. r \in InstType /\ r.state = q.state /\ r.sfile_on = q.sfile_on
        /\ r.fdIndex = q.fdIndex /\ r.file = q.file /\ r.loaded = n
    <3> HIDE DEF q
    <3> QED
      BY <2>2, <2>3 DEF InstType
  <2>5. inst' = [inst EXCEPT ![i] = r]
    BY <1>2, <2>1, Zenon DEF DestructorStarts, n
  <2>6. UNCHANGED <<host, phase, inputFileTable, last_input_index>>
        /\ host.dispatch /\ phase # "parse" /\ ~interactive /\ inst[i].sfile_on
    BY <1>2 DEF DestructorStarts, Releases, Deletions
  <2> HIDE DEF q, r
  <2> QED
    BY <2>1, <2>2, <2>3, <2>4, <2>5, <2>6, SameUsers
<1>3. CASE DestructorStarts(i) /\ ~Releases(i)
  <2>1. inst' = [inst EXCEPT ![i] = Gone]
        /\ UNCHANGED <<host, phase, inputFileTable, last_input_index>>
    BY <1>3, Zenon DEF DestructorStarts
  <2>2. ~inst[i].sfile_on \/ interactive
    BY <1>3 DEF Releases, Members, Slots, NoSlot
  <2> QED
    BY <2>1, <2>2, LeaveKeepsInv, NoReferenceKeepsInv
<1>4. CASE DestructorEnds(i)
  <2>1. PICK s \in Slots : s = inst[i].fdIndex
    BY <1>4 DEF DestructorEnds, Loads, Members
  <2>2. ~interactive /\ inst[i].sfile_on /\ host.dispatch
        /\ inst[i].loaded >= Cardinality(Users(s))
    BY <1>4, <2>1 DEF DestructorEnds, Loads, Deletions
  <2>3. inst[i].loaded \in Int
    BY <1>1 DEF InstType
  <2> QED
    BY <1>4, <2>1, <2>2, <2>3, DetachKeepsInv DEF DestructorEnds
<1> QED
  BY <1>2, <1>3, <1>4

LEMMA NextInv == IInv /\ [Next]_vars => IInv'
<1> SUFFICES ASSUME IInv, [Next]_vars PROVE IInv'
  OBVIOUS
<1>1. CASE UNCHANGED vars
  BY <1>1, QuietStep DEF vars, IInv, TypeOK
<1>2. CASE Next
  <2>1. ASSUME NEW n \in Names,
               FindInput(n) \/ OpenFails(n) \/ OpenInput(n) \/ TableFull(n)
        PROVE  IInv'
    BY <2>1, ParserQuiet, OpenKeepsInv
  <2>2. ASSUME NotRecording \/ DefaultConfigAborts \/ StartPlaying PROVE IInv'
    BY <2>2, ParserQuiet
  <2>3. ASSUME NEW i \in Insts,
               AttachFails(i) \/ IllegalOffset(i) \/ AttachInput(i)
               \/ SetupSucceeds(i)
        PROVE  IInv'
    BY <2>3, QuietInstSteps, AttachKeepsInv
  <2>4. ASSUME NEW i \in Insts, SetupFails(i) \/ ReleaseInst(i)
                                \/ DestructorStarts(i) \/ DestructorEnds(i)
        PROVE  IInv'
    BY <2>4, DeletingSteps, DestructorSteps
  <2> QED
    BY <1>2, <2>1, <2>2, <2>3, <2>4 DEF Next
<1> QED
  BY <1>1, <1>2

-----------------------------------------------------------------------------
\* The invariant holds in every reachable state.
LEMMA Invariant == Spec => []IInv
BY InitInv, NextInv, PTL DEF Spec

\* Type correctness: the table only ever holds InputFiles, and every index the
\* parser thread keeps or gives to an instrument is a slot or none.
THEOREM TypeCorrect == Spec => []TypeOK
<1>1. IInv => TypeOK
  BY DEF IInv
<1> QED
  BY <1>1, Invariant, PTL

\* The count of an open file (InputFile::_refcount) covers every instrument that
\* is attached to it, and in a score without concurrent deletions it is exact.
THEOREM ReferencesCorrect == Spec => []ReferencesAreExact
<1>1. IInv => ReferencesAreExact
  BY DEF IInv
<1> QED
  BY <1>1, Invariant, PTL

\* The file of an instrument that may read stays open, in its slot, with its
\* channels (rtsetinput, ~Instrument and InputFile::unreference together).
THEOREM ReadersKeepFiles == Spec => []ReaderKeepsItsFile
<1>1. IInv => ReaderKeepsItsFile
  BY DEF IInv, FilesKept, ReaderKeepsItsFile
<1> QED
  BY <1>1, Invariant, PTL
=============================================================================
