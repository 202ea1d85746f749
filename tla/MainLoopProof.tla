--------------------------- MODULE MainLoopProof ---------------------------
(***************************************************************************)
(* The device and its thread, for every kind of session, any number of     *)
(* commands and any length of score.  The inductive invariant ties three   *)
(* things together:                                                        *)
(*                                                                         *)
(*   Files     what a device's state says of its file descriptor;          *)
(*   Playing   where main is while the thread uses the device: before it   *)
(*             sees audioDone;                                             *)
(*   Pointers  which device main is about to change, and in which state.   *)
(***************************************************************************)
EXTENDS MainLoop, TLAPS

\* The thread uses the device.
Active == audioPc \notin {"none", "exit"}

\* The file device closes itself once; ALSA closes what is open.
FileOK(d) ==
  /\ kind = "file" => (d.closing <=> d.fds = 0)
  /\ kind # "file" => ~d.closing /\ (isOpen(d) <=> d.fds = 1)
  /\ d.state \in {"Closed", "Deleted"} => d.fds = 0

Files == \A n \in DOMAIN devs : FileOK(devs[n])

Playing ==
  /\ mainPc \in {"lock", "waiting", "configured", "skip", "start"} =>
       ~audioDone /\ audioLoopStarted
  /\ Active => /\ mainPc \in {"started", "join", "wait"}
               /\ ~audioDone /\ audioLoopStarted
               /\ played \in DOMAIN devs
               /\ devs[played].state # "Deleted"
  /\ kind # "file" => audioPc \notin {"closing", "doClose"}

Pointers ==
  /\ mainPc = "started" => /\ played \in DOMAIN devs
                           /\ devs[played].state # "Deleted"
                           /\ kind # "file" => isOpen(devs[played])
  /\ mainPc \in {"stop", "joinAudio", "delete"} => dying \in DOMAIN devs
  /\ mainPc = "joinAudio" /\ kind # "file" => isOpen(devs[dying])

IInv == TypeOK /\ Files /\ Playing /\ Pointers

-----------------------------------------------------------------------------
(* What changes a device.                                                  *)

\* Replacing one device leaves the others, and their number, as they are.
LEMMA ReplaceDevice ==
  ASSUME devs \in Seq(DeviceType), NEW k \in DOMAIN devs, NEW d \in DeviceType,
         Becomes(k, d)
  PROVE  /\ devs' \in Seq(DeviceType)
         /\ DOMAIN devs' = DOMAIN devs
         /\ \A n \in DOMAIN devs : devs'[n] = IF n = k THEN d ELSE devs[n]
  BY DEF Becomes

\* A device is a record of its four fields.
LEMMA DeviceFields ==
  ASSUME NEW d \in DeviceType
  PROVE  /\ d = [state |-> d.state, fds |-> d.fds, closing |-> d.closing,
                 stopping |-> d.stopping]
         /\ d.state \in {"Configured", "Running", "Closed", "Deleted"}
         /\ d.fds \in 0 .. 1
         /\ d.closing \in BOOLEAN
         /\ d.stopping \in BOOLEAN
  BY DEF DeviceType

\* Closing a device leaves it without its file descriptor.
LEMMA CloseDevice ==
  ASSUME NEW d \in DeviceType, FileOK(d), isOpen(d) \/ kind = "file",
         NEW st \in {"Closed", "Deleted"}
  PROVE  /\ DoClose(d, st) \in DeviceType
         /\ FileOK(DoClose(d, st))
         /\ DoClose(d, st).state = st
<1>1. PICK s0 \in {"Configured", "Running", "Closed", "Deleted"}, f0 \in 0 .. 1,
           c0 \in BOOLEAN, p0 \in BOOLEAN :
        d = [state |-> s0, fds |-> f0, closing |-> c0, stopping |-> p0]
    BY DeviceFields
<1>2. CASE kind = "file"
  <2> DEFINE c == [state |-> st, fds |-> 0, closing |-> TRUE, stopping |-> p0]
  <2>1. \/ c0 = TRUE /\ f0 = 0
        \/ c0 = FALSE /\ f0 = 1
      BY <1>1, <1>2 DEF FileOK
  <2>2. (kind = "file" \/ d.closing) = TRUE
      BY <1>2
  <2>3. (IF d.closing THEN d.fds ELSE d.fds - 1) = 0
      BY <1>1, <2>1
  <2>4. d.stopping = p0
      BY <1>1
  <2>5. DoClose(d, st) = c
      BY <2>2, <2>3, <2>4, Zenon DEF DoClose
  <2>6. c \in DeviceType
      BY DEF DeviceType
  <2>7. FileOK(c)
      BY <1>2 DEF FileOK
  <2>8. QED
      BY <2>5, <2>6, <2>7
<1>3. CASE kind # "file"
  <2> DEFINE c == [state |-> st, fds |-> 0, closing |-> FALSE, stopping |-> p0]
  <2>1. c0 = FALSE /\ f0 = 1
      BY <1>1, <1>3 DEF FileOK
  <2>2. (kind = "file" \/ d.closing) = FALSE
      BY <1>1, <1>3, <2>1
  <2>3. (IF d.closing THEN d.fds ELSE d.fds - 1) = 0
      BY <1>1, <2>1
  <2>4. d.stopping = p0
      BY <1>1
  <2>5. DoClose(d, st) = c
      BY <2>2, <2>3, <2>4, Zenon DEF DoClose
  <2>6. c \in DeviceType
      BY DEF DeviceType
  <2>7. FileOK(c)
      BY <1>3 DEF FileOK, isOpen
  <2>8. QED
      BY <2>5, <2>6, <2>7
<1>4. QED
    BY <1>2, <1>3

\* A new state, or a stop: the rest of the record stays.
LEMMA ChangeDevice ==
  ASSUME NEW d \in DeviceType,
         NEW st \in {"Configured", "Running", "Closed", "Deleted"}, NEW b \in BOOLEAN
  PROVE  /\ [d EXCEPT !.state = st] \in DeviceType
         /\ [d EXCEPT !.state = st].state = st
         /\ [d EXCEPT !.state = st].fds = d.fds
         /\ [d EXCEPT !.state = st].closing = d.closing
         /\ [d EXCEPT !.stopping = b] \in DeviceType
         /\ [d EXCEPT !.stopping = b].state = d.state
         /\ [d EXCEPT !.stopping = b].fds = d.fds
         /\ [d EXCEPT !.stopping = b].closing = d.closing
  BY DEF DeviceType

\* The parts of TypeOK.
Threads ==
  /\ mode \in Modes /\ kind \in Kinds /\ bufTimeOffset \in Offsets
  /\ mainPc \in MainPcs
  /\ parserPc \in {"ready", "opened", "signalled", "stop", "unconfigure", "done"}
  /\ handlerPc \in {"idle", "status", "config", "loop", "done"}
  /\ audioPc \in {"none", "loop", "callback", "ended", "closing", "doClose",
                  "callDone", "exit"}
  /\ run_status \in {"RT_GOOD", "RT_SKIP", "RT_SHUTDOWN"}

Booleans ==
  /\ leaving \in BOOLEAN /\ audio_config \in BOOLEAN /\ signalled \in BOOLEAN
  /\ audioLoopStarted \in BOOLEAN /\ audioDone \in BOOLEAN
  /\ exit_osc \in BOOLEAN /\ rtsetparams_called \in BOOLEAN

Counters == commands \in 0 .. MaxCommands /\ bufStart \in Nat

DeviceTypes ==
  /\ devs \in Seq(DeviceType)
  /\ audioDevice \in {NULL} \cup DOMAIN devs
  /\ dying \in {NULL} \cup DOMAIN devs
  /\ played \in {NULL} \cup DOMAIN devs

LEMMA TypeParts == TypeOK <=> Threads /\ Booleans /\ Counters /\ DeviceTypes
  BY DEF TypeOK, Threads, Booleans, Counters, DeviceTypes

LEMMA InvInit == Init => IInv
<1> SUFFICES ASSUME Init PROVE IInv
    OBVIOUS
<1>1. Threads
    BY DEF Init, Threads, MainPcs
<1>2. Booleans
    BY DEF Init, Booleans
<1>3. Counters
    BY LengthAssumption DEF Init, Counters
<1>4. DeviceTypes
    BY DEF Init, DeviceTypes
<1>5. Files
    BY DEF Init, Files
<1>6. Playing /\ Pointers
    BY DEF Init, Playing, Pointers, Active
<1>7. QED
    BY <1>1, <1>2, <1>3, <1>4, <1>5, <1>6, TypeParts DEF IInv

-----------------------------------------------------------------------------
(* Types that no device is part of.                                        *)

Plain == Threads /\ Booleans /\ Counters

LEMMA ParserTypes ==
  ASSUME Plain, ParserStep \/ Client \/ Interrupt \/ HandlerStep
  PROVE  Plain'
<1> USE DEF config, mainVars, parser, condition, flags, audioVars
<1>1. CASE SetParams
  <2>1. Threads'
      BY <1>1 DEF SetParams, Plain, Threads, MainPcs
  <2>2. Booleans'
      BY <1>1 DEF SetParams, Plain, Booleans
  <2>3. Counters'
      BY <1>1, LengthAssumption DEF SetParams, Plain, Counters
  <2>4. QED
      BY <2>1, <2>2, <2>3 DEF Plain
<1>2. CASE SignalConfigured
    BY <1>2 DEF SignalConfigured, SetAudioConfigured, Plain, Threads, Booleans,
       Counters, MainPcs
<1>3. CASE SetParamsDone
    BY <1>3 DEF SetParamsDone, Plain, Threads, Booleans, Counters, MainPcs
<1>4. CASE ParseEnds
    BY <1>4 DEF ParseEnds, Idle, Plain, Threads, Booleans, Counters, MainPcs
<1>5. CASE ParseFails
    BY <1>5 DEF ParseFails, Idle, Plain, Threads, Booleans, Counters, MainPcs
<1>6. CASE StopStatus
    BY <1>6 DEF StopStatus, Plain, Threads, Booleans, Counters, MainPcs
<1>7. CASE StopConfig
  <2>1. Threads'
      BY <1>7 DEF StopConfig, SetAudioConfigured, Plain, Threads, MainPcs
  <2>2. Booleans'
      BY <1>7 DEF StopConfig, SetAudioConfigured, Plain, Booleans
  <2>3. Counters'
      BY <1>7 DEF StopConfig, SetAudioConfigured, Plain, Counters
  <2>4. QED
      BY <2>1, <2>2, <2>3 DEF Plain
<1>8. CASE Off
    BY <1>8 DEF Off, Idle, Plain, Threads, Booleans, Counters, MainPcs
<1>9. ASSUME NEW quit \in BOOLEAN, StopCommand(quit) PROVE Plain'
  <2>1. Threads'
      BY <1>9 DEF StopCommand, Idle, Plain, Threads, MainPcs
  <2>2. Booleans'
      BY <1>9 DEF StopCommand, Idle, Plain, Booleans
  <2>3. Counters'
      BY <1>9, LengthAssumption DEF StopCommand, Idle, Plain, Counters
  <2>4. QED
      BY <2>1, <2>2, <2>3 DEF Plain
<1>10. CASE Interrupt
    BY <1>10 DEF Interrupt, Plain, Threads, Booleans, Counters, MainPcs
<1>11. CASE HandlerStatus
    BY <1>11 DEF HandlerStatus, Plain, Threads, Booleans, Counters, MainPcs
<1>12. CASE HandlerConfig
  <2>1. Threads'
      BY <1>12 DEF HandlerConfig, SetAudioConfigured, Plain, Threads, MainPcs
  <2>2. Booleans'
      BY <1>12 DEF HandlerConfig, SetAudioConfigured, Plain, Booleans
  <2>3. Counters'
      BY <1>12 DEF HandlerConfig, SetAudioConfigured, Plain, Counters
  <2>4. QED
      BY <2>1, <2>2, <2>3 DEF Plain
<1>13. CASE HandlerLoop
    BY <1>13 DEF HandlerLoop, Plain, Threads, Booleans, Counters, MainPcs
<1>14. QED
    BY <1>1, <1>2, <1>3, <1>4, <1>5, <1>6, <1>7, <1>8, <1>9, <1>10, <1>11, <1>12,
       <1>13 DEF ParserStep, Client, HandlerStep

LEMMA MainTypes ==
  ASSUME Plain, MainStep
  PROVE  Plain'
<1> MainKeeps
    BY DEF MainStep
<1> USE DEF MainKeeps, config, mainVars, parser, condition, flags, audioVars
<1>1. CASE Configure
    BY <1>1 DEF Configure, SetAudioConfigured, Plain, Threads, Booleans, Counters,
       MainPcs
<1>2. CASE Enter
  <2>1. Threads'
      BY <1>2 DEF Enter, Plain, Threads, MainPcs
  <2>2. Booleans'
      BY <1>2 DEF Enter, Plain, Booleans
  <2>3. Counters'
      BY <1>2 DEF Enter, Plain, Counters
  <2>4. QED
      BY <2>1, <2>2, <2>3 DEF Plain
<1>3. CASE Lock
  <2>1. Threads'
      BY <1>3 DEF Lock, Plain, Threads, MainPcs
  <2>2. Booleans'
      BY <1>3 DEF Lock, Plain, Booleans
  <2>3. Counters'
      BY <1>3 DEF Lock, Plain, Counters
  <2>4. QED
      BY <2>1, <2>2, <2>3 DEF Plain
<1>4. CASE Woken
  <2>1. Threads'
      BY <1>4 DEF Woken, Plain, Threads, MainPcs
  <2>2. Booleans'
      BY <1>4 DEF Woken, Plain, Booleans
  <2>3. Counters'
      BY <1>4 DEF Woken, Plain, Counters
  <2>4. QED
      BY <2>1, <2>2, <2>3 DEF Plain
<1>5. CASE Configured
  <2>1. Threads'
      BY <1>5 DEF Configured, NotPlaying, Plain, Threads, MainPcs
  <2>2. Booleans'
      BY <1>5 DEF Configured, NotPlaying, Plain, Booleans
  <2>3. Counters'
      BY <1>5 DEF Configured, NotPlaying, Plain, Counters
  <2>4. QED
      BY <2>1, <2>2, <2>3 DEF Plain
<1>6. CASE Skip
  <2>1. Threads'
      BY <1>6 DEF Skip, NotPlaying, NextBuffer, Plain, Threads, MainPcs
  <2>2. Booleans'
      BY <1>6 DEF Skip, NotPlaying, NextBuffer, Plain, Booleans
  <2>3. Counters'
      BY <1>6 DEF Skip, NotPlaying, NextBuffer, Plain, Counters
  <2>4. QED
      BY <2>1, <2>2, <2>3 DEF Plain
<1>7. CASE Skipped
    BY <1>7 DEF Skipped, Plain, Threads, Booleans, Counters, MainPcs
<1>8. CASE Start
    BY <1>8 DEF Start, Plain, Threads, Booleans, Counters, MainPcs
<1>9. CASE StartFails
    BY <1>9 DEF StartFails, NotPlaying, Plain, Threads, Booleans, Counters, MainPcs
<1>10. CASE Started
    BY <1>10 DEF Started, AfterStart, Plain, Threads, Booleans, Counters, MainPcs
<1>11. CASE Join
    BY <1>11 DEF Join, Plain, Threads, Booleans, Counters, MainPcs
<1>12. CASE Wait
    BY <1>12 DEF Wait, Plain, Threads, Booleans, Counters, MainPcs
<1>13. CASE Stop
    BY <1>13 DEF Stop, Plain, Threads, Booleans, Counters, MainPcs
<1>14. CASE JoinAudio
    BY <1>14 DEF JoinAudio, Plain, Threads, Booleans, Counters, MainPcs
<1>15. CASE Delete
    BY <1>15 DEF Delete, Plain, Threads, Booleans, Counters, MainPcs
<1>16. CASE Unconfigure
  <2>1. Threads'
      BY <1>16 DEF Unconfigure, SetAudioConfigured, Plain, Threads, MainPcs
  <2>2. Booleans'
      BY <1>16 DEF Unconfigure, SetAudioConfigured, Plain, Booleans
  <2>3. Counters'
      BY <1>16 DEF Unconfigure, SetAudioConfigured, Plain, Counters
  <2>4. QED
      BY <2>1, <2>2, <2>3 DEF Plain
<1>17. CASE Again
    BY <1>17 DEF Again, Plain, Threads, Booleans, Counters, MainPcs
<1>18. CASE ResetStatus
    BY <1>18 DEF ResetStatus, Plain, Threads, Booleans, Counters, MainPcs
<1>19. CASE ResetCalled
  <2>1. Threads'
      BY <1>19 DEF ResetCalled, Plain, Threads, MainPcs
  <2>2. Booleans'
      BY <1>19 DEF ResetCalled, Plain, Booleans
  <2>3. Counters'
      BY <1>19 DEF ResetCalled, Plain, Counters
  <2>4. QED
      BY <2>1, <2>2, <2>3 DEF Plain
<1>20. CASE ResetConfig
  <2>1. Threads'
      BY <1>20 DEF ResetConfig, SetAudioConfigured, Plain, Threads, MainPcs
  <2>2. Booleans'
      BY <1>20 DEF ResetConfig, SetAudioConfigured, Plain, Booleans
  <2>3. Counters'
      BY <1>20 DEF ResetConfig, SetAudioConfigured, Plain, Counters
  <2>4. QED
      BY <2>1, <2>2, <2>3 DEF Plain
<1>21. CASE Destroy
    BY <1>21 DEF Destroy, Plain, Threads, Booleans, Counters, MainPcs
<1>22. QED
    BY <1>1, <1>2, <1>3, <1>4, <1>5, <1>6, <1>7, <1>8, <1>9, <1>10, <1>11, <1>12,
       <1>13, <1>14, <1>15, <1>16, <1>17, <1>18, <1>19, <1>20, <1>21 DEF MainStep

LEMMA AudioTypes ==
  ASSUME Plain, AudioStep
  PROVE  Plain'
<1> AudioKeeps
    BY DEF AudioStep
<1> USE DEF AudioKeeps, config, mainVars, parser, condition, flags
<1>1. CASE AudioLoop
    BY <1>1 DEF AudioLoop, Plain, Threads, Booleans, Counters, MainPcs
<1>2. CASE AudioEnded
    BY <1>2 DEF AudioEnded, Plain, Threads, Booleans, Counters, MainPcs
<1>3. CASE AudioClosing
    BY <1>3 DEF AudioClosing, Plain, Threads, Booleans, Counters, MainPcs
<1>4. CASE AudioDoClose
    BY <1>4 DEF AudioDoClose, Plain, Threads, Booleans, Counters, MainPcs
<1>5. CASE AudioDone
    BY <1>5 DEF AudioDone, Plain, Threads, Booleans, Counters, MainPcs
<1>6. CASE AudioExit
    BY <1>6 DEF AudioExit, Plain, Threads, Booleans, Counters, MainPcs
<1>7. ASSUME NEW fails \in BOOLEAN, AudioCallback(fails) PROVE Plain'
    BY <1>7 DEF AudioCallback, NextBuffer, Plain, Threads, Booleans, Counters, MainPcs
<1>8. QED
    BY <1>1, <1>2, <1>3, <1>4, <1>5, <1>6, <1>7 DEF AudioStep

-----------------------------------------------------------------------------
(* The devices, and who uses them.                                         *)

Owned == DeviceTypes /\ Files /\ Playing /\ Pointers

\* A step that changes no device.
LEMMA Untouched ==
  ASSUME DeviceTypes, Files, UNCHANGED <<kind, devs>>,
         audioDevice' \in {NULL, audioDevice}, dying' \in {NULL, dying, audioDevice},
         UNCHANGED played
  PROVE  DeviceTypes' /\ Files'
<1>1. DeviceTypes'
    BY DEF DeviceTypes
<1>2. Files'
    BY DEF Files, FileOK, isOpen
<1>3. QED
    BY <1>1, <1>2

\* A step that changes one.
LEMMA Replaced ==
  ASSUME DeviceTypes, Files, UNCHANGED kind,
         NEW k \in DOMAIN devs, NEW d \in DeviceType, FileOK(d), Becomes(k, d),
         UNCHANGED audioDevice, dying' \in {NULL, dying},
         played' \in {played, audioDevice}
  PROVE  /\ DeviceTypes'
         /\ Files'
         /\ DOMAIN devs' = DOMAIN devs
         /\ \A n \in DOMAIN devs : devs'[n] = IF n = k THEN d ELSE devs[n]
<1>1. /\ devs' \in Seq(DeviceType)
      /\ DOMAIN devs' = DOMAIN devs
      /\ \A n \in DOMAIN devs : devs'[n] = IF n = k THEN d ELSE devs[n]
    BY ReplaceDevice DEF DeviceTypes
<1>2. DeviceTypes'
    BY <1>1 DEF DeviceTypes
<1>3. Files'
    BY <1>1 DEF Files, FileOK, isOpen
<1>4. QED
    BY <1>1, <1>2, <1>3

\* Opening, starting, pausing: what keeps the file descriptor.
LEMMA KeepsFile ==
  ASSUME NEW d \in DeviceType, FileOK(d)
  PROVE  /\ \A b \in BOOLEAN : FileOK([d EXCEPT !.stopping = b])
         /\ \A st \in {"Configured", "Running"} :
              (kind # "file" => isOpen(d)) => FileOK([d EXCEPT !.state = st])
         /\ ~isOpen(d) => FileOK([d EXCEPT !.state = "Deleted"])
<1>1. ASSUME NEW b \in BOOLEAN PROVE FileOK([d EXCEPT !.stopping = b])
    BY ChangeDevice DEF FileOK, isOpen
<1>2. ASSUME NEW st \in {"Configured", "Running"}, kind # "file" => isOpen(d)
      PROVE  FileOK([d EXCEPT !.state = st])
    BY <1>2, ChangeDevice DEF FileOK, isOpen
<1>3. ASSUME ~isOpen(d) PROVE FileOK([d EXCEPT !.state = "Deleted"])
    BY <1>3, ChangeDevice, DeviceFields DEF FileOK, isOpen
<1>4. QED
    BY <1>1, <1>2, <1>3

\* The parser opens devices; its other steps, and the handler's, leave them alone.
LEMMA ParserOwned ==
  ASSUME Owned, ParserStep \/ Client \/ Interrupt \/ HandlerStep
  PROVE  Owned'
<1>1. CASE SetParams
  <2>1. NewDevice \in DeviceType /\ FileOK(NewDevice)
      BY DEF NewDevice, DeviceType, FileOK, isOpen
  <2>2. /\ devs \in Seq(DeviceType)
        /\ devs' = Append(devs, NewDevice)
        /\ audioDevice' = Len(devs')
        /\ UNCHANGED <<kind, mainPc, audioDone, audioLoopStarted, dying, played,
           audioPc>>
      BY <1>1 DEF SetParams, Owned, DeviceTypes, config, mainVars, flags, audioVars
  <2>3. /\ devs' \in Seq(DeviceType)
        /\ DOMAIN devs' = DOMAIN devs \cup {Len(devs')}
        /\ \A n \in DOMAIN devs : devs'[n] = devs[n]
        /\ \A n \in DOMAIN devs' : n \notin DOMAIN devs => devs'[n] = NewDevice
      BY <2>1, <2>2
  <2>4. DeviceTypes'
      BY <2>2, <2>3 DEF Owned, DeviceTypes
  <2>5. Files'
      BY <2>1, <2>2, <2>3 DEF Owned, Files, FileOK, isOpen
  <2>6. Playing'
      BY <2>2, <2>3 DEF Owned, Playing, Active
  <2>7. Pointers'
      BY <2>2, <2>3 DEF Owned, Pointers, isOpen
  <2>8. QED
      BY <2>4, <2>5, <2>6, <2>7 DEF Owned
<1>2. CASE ~SetParams
  <2>1. /\ UNCHANGED <<kind, devs, audioDevice, dying, played, audioPc, audioDone,
                       audioLoopStarted>>
        /\ \/ UNCHANGED mainPc
           \/ mainPc = "parse" /\ mainPc' \in {"configure", "enter", "exited",
              "destroy"}
           \/ ~audioLoopStarted /\ mainPc' = "exited"
    <3> USE DEF config, mainVars, flags, devices, pointers, audioVars
    <3>1. CASE ParseEnds \/ ParseFails
        BY <3>1 DEF ParseEnds, ParseFails
    <3>2. CASE HandlerLoop
        BY <3>2 DEF HandlerLoop
    <3>3. CASE SignalConfigured \/ SetParamsDone \/ StopStatus \/ StopConfig
        BY <3>3 DEF SignalConfigured, SetParamsDone, StopStatus, StopConfig
    <3>4. CASE Off \/ Interrupt \/ HandlerStatus \/ HandlerConfig
        BY <3>4 DEF Off, Interrupt, HandlerStatus, HandlerConfig
    <3>5. ASSUME NEW quit \in BOOLEAN, StopCommand(quit)
          PROVE  UNCHANGED <<kind, devs, audioDevice, dying, played, audioPc, audioDone,
                             audioLoopStarted, mainPc>>
        BY <3>5 DEF StopCommand
    <3>6. QED
        BY <1>2, <3>1, <3>2, <3>3, <3>4, <3>5 DEF ParserStep, Client, HandlerStep
  <2>2. DeviceTypes' /\ Files'
      BY <2>1, Untouched DEF Owned
  <2>3. Playing'
      BY <2>1 DEF Owned, Playing, Active
  <2>4. Pointers'
      BY <2>1 DEF Owned, Pointers, isOpen
  <2>5. QED
      BY <2>2, <2>3, <2>4 DEF Owned
<1>3. QED
    BY <1>1, <1>2

\* The main thread.  While the thread uses the device main waits, directly or for
\* its client, or is about to.
LEMMA MainOwned ==
  ASSUME Owned, Plain, MainStep
  PROVE  Owned'
<1> USE DEF config, mainVars, parser, condition, flags, devices, pointers, audioVars
<1>1. MainKeeps /\ UNCHANGED kind
    BY DEF MainStep, MainKeeps
<1>2. ASSUME UNCHANGED <<devs, audioDevice, dying, played, audioPc>>,
             \/ mainPc = "enter" /\ mainPc' = "lock" /\ audioDone' = FALSE
                  /\ audioLoopStarted' = TRUE
             \/ mainPc \in {"lock", "waiting", "configured", "skip"}
                  /\ mainPc' \in {"lock", "waiting", "configured", "skip", "start"}
                  /\ UNCHANGED <<audioDone, audioLoopStarted>>
             \/ mainPc = "join" /\ mainPc' = "wait"
                  /\ UNCHANGED <<audioDone, audioLoopStarted>>
             \/ mainPc \notin {"started", "join", "wait"}
                  /\ mainPc' \in {"enter", "join", "wait", "again", "good", "uncall",
                                  "reset", "destroy", "exited"}
      PROVE  Owned'
  <2>1. DeviceTypes' /\ Files'
      BY <1>1, <1>2, Untouched DEF Owned
  <2>2. Playing'
      BY <1>1, <1>2 DEF Owned, Playing, Active
  <2>3. Pointers'
      BY <1>1, <1>2 DEF Owned, Pointers, isOpen
  <2>4. QED
      BY <2>1, <2>2, <2>3 DEF Owned
<1>3. CASE Configure
    BY <1>2, <1>3 DEF Configure
<1>4. CASE Enter
    BY <1>2, <1>4 DEF Enter
<1>5. CASE Lock
    BY <1>2, <1>5 DEF Lock
<1>6. CASE Woken
    BY <1>2, <1>6 DEF Woken
<1>7. CASE Configured
    BY <1>2, <1>7 DEF Configured, NotPlaying
<1>8. CASE Skip
    BY <1>2, <1>8 DEF Skip, NotPlaying
<1>9. CASE Skipped
    BY <1>2, <1>9 DEF Skipped
<1>10. CASE Join
    BY <1>2, <1>10 DEF Join
<1>11. CASE Unconfigure
    BY <1>2, <1>11 DEF Unconfigure
<1>12. CASE Again
    BY <1>2, <1>12 DEF Again
<1>13. CASE ResetStatus \/ ResetCalled
    BY <1>2, <1>13 DEF ResetStatus, ResetCalled
<1>14. CASE ResetConfig
    BY <1>2, <1>14 DEF ResetConfig
<1>15. CASE Destroy
    BY <1>2, <1>15 DEF Destroy
<1>16. CASE Start
  <2> DEFINE old == devs[audioDevice]
             new == [old EXCEPT !.stopping = FALSE]
  <2>1. /\ audioDevice \in DOMAIN devs
        /\ old \in DeviceType /\ isOpen(old) /\ FileOK(old)
      BY <1>16 DEF Start, Owned, DeviceTypes, Files
  <2>2. /\ new \in DeviceType /\ FileOK(new)
        /\ new.state = old.state
    <3>1. new \in DeviceType /\ new.state = old.state
        BY <2>1, ChangeDevice, Zenon
    <3>2. FileOK(new)
        BY <2>1, KeepsFile, Zenon
    <3>3. QED
        BY <3>1, <3>2
  <2>3. /\ Becomes(audioDevice, new)
        /\ UNCHANGED <<audioDevice, dying, audioDone, audioLoopStarted>>
        /\ played' = audioDevice /\ audioPc' = "loop"
        /\ mainPc = "start" /\ mainPc' = "started"
      BY <1>16 DEF Start
  <2>4. /\ DeviceTypes' /\ Files'
        /\ DOMAIN devs' = DOMAIN devs
        /\ devs'[played'] = new
      BY <1>1, <2>1, <2>2, <2>3, Replaced DEF Owned
  <2>5. new.state \in {"Configured", "Running"}
      BY <2>1, <2>2 DEF isOpen
  <2>6. Playing'
      BY <1>1, <2>1, <2>3, <2>4, <2>5 DEF Owned, Playing, Active
  <2>7. Pointers'
      BY <1>1, <2>1, <2>3, <2>4, <2>5 DEF Owned, Pointers, isOpen
  <2>8. QED
      BY <2>4, <2>6, <2>7 DEF Owned
<1>17. CASE StartFails
  <2> DEFINE old == devs[audioDevice]
  <2>1. /\ UNCHANGED <<audioDevice, dying, played, audioPc>>
        /\ mainPc = "start" /\ mainPc' = "destroy"
      BY <1>17 DEF StartFails, NotPlaying
  <2>2. CASE audioDevice # NULL /\ isOpen(old)
    <3>1. /\ audioDevice \in DOMAIN devs
          /\ old \in DeviceType /\ FileOK(old)
        BY <2>2 DEF Owned, DeviceTypes, Files
    <3>2. DoClose(old, "Closed") \in DeviceType /\ FileOK(DoClose(old, "Closed"))
        BY <2>2, <3>1, CloseDevice
    <3>3. Becomes(audioDevice, DoClose(old, "Closed"))
        BY <1>17, <2>2 DEF StartFails
    <3>4. DeviceTypes' /\ Files'
        BY <1>1, <2>1, <3>1, <3>2, <3>3, Replaced DEF Owned
    <3>5. Playing' /\ Pointers'
        BY <1>1, <2>1 DEF Owned, Playing, Pointers, Active
    <3>6. QED
        BY <3>4, <3>5 DEF Owned
  <2>3. CASE ~(audioDevice # NULL /\ isOpen(old))
      BY <1>2, <1>17, <2>1, <2>3 DEF StartFails
  <2>4. QED
      BY <2>2, <2>3
<1>18. CASE Started
  <2> DEFINE old == devs[played]
             new == [old EXCEPT !.state = "Running"]
  <2>1. /\ mainPc = "started" /\ mainPc' \in {"join", "wait"}
        /\ Becomes(played, new)
        /\ UNCHANGED <<audioDevice, dying, played, audioPc, audioDone,
           audioLoopStarted>>
      BY <1>18 DEF Started, AfterStart
  <2>2. /\ played \in DOMAIN devs
        /\ old \in DeviceType /\ FileOK(old)
        /\ kind # "file" => isOpen(old)
      BY <2>1 DEF Owned, DeviceTypes, Files, Pointers
  <2>3. new \in DeviceType /\ FileOK(new) /\ new.state = "Running"
    <3>1. new \in DeviceType /\ new.state = "Running"
        BY <2>2, ChangeDevice, Zenon
    <3>2. FileOK(new)
        BY <2>2, KeepsFile, Zenon
    <3>3. QED
        BY <3>1, <3>2
  <2>4. /\ DeviceTypes' /\ Files'
        /\ DOMAIN devs' = DOMAIN devs
        /\ devs'[played] = new
      BY <1>1, <2>1, <2>2, <2>3, Replaced DEF Owned
  <2>5. Playing'
      BY <1>1, <2>1, <2>2, <2>3, <2>4 DEF Owned, Playing, Active
  <2>6. Pointers'
      BY <1>1, <2>1 DEF Owned, Pointers
  <2>7. QED
      BY <2>4, <2>5, <2>6 DEF Owned
<1>19. CASE Wait
  <2>1. /\ mainPc = "wait" /\ audioDone
        /\ mainPc' = (IF audioDevice = NULL THEN "unconfigure" ELSE "stop")
        /\ dying' = audioDevice /\ audioDevice' = NULL
        /\ UNCHANGED <<devs, played, audioPc, audioDone, audioLoopStarted>>
      BY <1>19 DEF Wait
  <2>2. DeviceTypes' /\ Files'
      BY <1>1, <2>1, Untouched DEF Owned
  <2>3. Playing'
      BY <1>1, <2>1 DEF Owned, Playing, Active
  <2>4. Pointers'
      BY <1>1, <2>1 DEF Owned, Pointers, DeviceTypes
  <2>5. QED
      BY <2>2, <2>3, <2>4 DEF Owned
<1>20. CASE Stop
  <2> DEFINE old == devs[dying]
             b   == old.stopping \/ isRunning(old)
             new == [old EXCEPT !.stopping = b]
  <2>1. /\ mainPc = "stop"
        /\ mainPc' = (IF isRunning(old) /\ ~old.stopping THEN "joinAudio" ELSE "delete")
        /\ Becomes(dying, new)
        /\ UNCHANGED <<audioDevice, dying, played, audioPc, audioDone,
           audioLoopStarted>>
      BY <1>20 DEF Stop
  <2>2. /\ dying \in DOMAIN devs
        /\ old \in DeviceType /\ FileOK(old)
      BY <2>1 DEF Owned, DeviceTypes, Files, Pointers
  <2>3. /\ new \in DeviceType /\ FileOK(new)
        /\ new.state = old.state
    <3>1. b \in BOOLEAN
        BY <2>2, DeviceFields DEF isRunning
    <3>2. new \in DeviceType /\ new.state = old.state
        BY <2>2, <3>1, ChangeDevice, Zenon
    <3>3. FileOK(new)
        BY <2>2, <3>1, KeepsFile, Zenon
    <3>4. QED
        BY <3>2, <3>3
  <2>4. /\ DeviceTypes' /\ Files'
        /\ DOMAIN devs' = DOMAIN devs
        /\ devs'[dying] = new
      BY <1>1, <2>1, <2>2, <2>3, Replaced DEF Owned
  <2>5. Playing'
      BY <1>1, <2>1 DEF Owned, Playing, Active
  <2>6. Pointers'
      BY <1>1, <2>1, <2>2, <2>3, <2>4 DEF Owned, Pointers, isOpen, isRunning
  <2>7. QED
      BY <2>4, <2>5, <2>6 DEF Owned
<1>21. CASE JoinAudio
  <2> DEFINE old == devs[dying]
             new == [old EXCEPT !.state = "Configured"]
  <2>1. /\ mainPc = "joinAudio" /\ mainPc' = "delete"
        /\ Becomes(dying, new)
        /\ UNCHANGED <<audioDevice, dying, played, audioPc, audioDone,
           audioLoopStarted>>
      BY <1>21 DEF JoinAudio
  <2>2. /\ dying \in DOMAIN devs
        /\ old \in DeviceType /\ FileOK(old)
        /\ kind # "file" => isOpen(old)
      BY <2>1 DEF Owned, DeviceTypes, Files, Pointers
  <2>3. new \in DeviceType /\ FileOK(new)
      BY <2>2, ChangeDevice, KeepsFile
  <2>4. /\ DeviceTypes' /\ Files'
        /\ DOMAIN devs' = DOMAIN devs
      BY <1>1, <2>1, <2>2, <2>3, Replaced DEF Owned
  <2>5. Playing'
      BY <1>1, <2>1 DEF Owned, Playing, Active
  <2>6. Pointers'
      BY <1>1, <2>1, <2>2, <2>4 DEF Owned, Pointers
  <2>7. QED
      BY <2>4, <2>5, <2>6 DEF Owned
<1>22. CASE Delete
  <2> DEFINE old == devs[dying]
             new == IF isOpen(old) THEN DoClose(old, "Deleted")
                                   ELSE [old EXCEPT !.state = "Deleted"]
  <2>1. /\ mainPc = "delete" /\ mainPc' = "unconfigure"
        /\ Becomes(dying, new)
        /\ dying' = NULL
        /\ UNCHANGED <<audioDevice, played, audioPc, audioDone, audioLoopStarted>>
      BY <1>22 DEF Delete
  <2>2. /\ dying \in DOMAIN devs
        /\ old \in DeviceType /\ FileOK(old)
      BY <2>1 DEF Owned, DeviceTypes, Files, Pointers
  <2>3. new \in DeviceType /\ FileOK(new)
    <3>1. CASE isOpen(old)
        BY <2>2, <3>1, CloseDevice
    <3>2. CASE ~isOpen(old)
        BY <2>2, <3>2, ChangeDevice, KeepsFile
    <3>3. QED
        BY <3>1, <3>2
  <2>4. DeviceTypes' /\ Files'
      BY <1>1, <2>1, <2>2, <2>3, Replaced DEF Owned
  <2>5. Playing' /\ Pointers'
      BY <1>1, <2>1 DEF Owned, Playing, Pointers, Active
  <2>6. QED
      BY <2>4, <2>5 DEF Owned
<1>23. QED
    BY <1>3, <1>4, <1>5, <1>6, <1>7, <1>8, <1>9, <1>10, <1>11, <1>12, <1>13, <1>14,
       <1>15, <1>16, <1>17, <1>18, <1>19, <1>20, <1>21, <1>22 DEF MainStep

\* The device's thread: it uses the device until it has set audioDone.
LEMMA AudioOwned ==
  ASSUME Owned, Plain, AudioStep
  PROVE  Owned'
<1> USE DEF config, mainVars, parser, condition, flags, pointers
<1> DEFINE old == devs[played]
<1>1. UNCHANGED <<kind, mainPc, audioLoopStarted, audioDevice, dying, played>>
    BY DEF AudioStep, AudioKeeps
<1>2. Active => played \in DOMAIN devs /\ old \in DeviceType /\ FileOK(old)
                  /\ old.state # "Deleted"
    BY DEF Owned, DeviceTypes, Files, Playing
<1>3. kind \in Kinds => kind \in {"hw", "file"}
    BY ModesAssumption
<1>4. kind \in {"hw", "file"}
    BY <1>3 DEF Plain, Threads
<1>5. ASSUME UNCHANGED devs, audioPc # "none",
             \/ audioPc \in {"loop", "callback"} /\ UNCHANGED audioDone
                  /\ audioPc' \in {"loop", "callback", "ended"}
             \/ audioPc \in {"ended", "closing"} /\ UNCHANGED audioDone
                  /\ audioPc' = "callDone"
             \/ kind = "file" /\ audioPc = "ended" /\ UNCHANGED audioDone
                  /\ audioPc' = "closing"
             \/ Active /\ audioPc' = "exit"
             \/ audioPc' = "none" /\ UNCHANGED audioDone
      PROVE  Owned'
  <2>1. DeviceTypes' /\ Files'
      BY <1>1, <1>5, Untouched DEF Owned
  <2>2. Playing'
      BY <1>1, <1>5 DEF Owned, Playing, Active
  <2>3. Pointers'
      BY <1>1, <1>5 DEF Owned, Pointers, isOpen
  <2>4. QED
      BY <2>1, <2>2, <2>3 DEF Owned
<1>6. ASSUME NEW new \in DeviceType, FileOK(new), Becomes(played, new), Active,
             audioPc' \in {"callDone", "closing", "doClose"}, UNCHANGED audioDone,
             kind # "file" => audioPc' = "callDone" /\ (isOpen(old) => isOpen(new)),
             new.state # "Deleted"
      PROVE  Owned'
  <2>1. /\ DeviceTypes' /\ Files'
        /\ DOMAIN devs' = DOMAIN devs
        /\ \A n \in DOMAIN devs : devs'[n] = IF n = played THEN new ELSE devs[n]
      BY <1>1, <1>2, <1>6, Replaced DEF Owned
  <2>2. Playing'
      BY <1>1, <1>2, <1>6, <2>1 DEF Owned, Playing, Active
  <2>3. Pointers'
    <3>1. mainPc' \in {"started", "join", "wait"}
        BY <1>1, <1>6 DEF Owned, Playing
    <3>2. /\ played' \in DOMAIN devs'
          /\ devs'[played'] = new
        BY <1>1, <1>2, <1>6, <2>1
    <3>3. kind' # "file" /\ mainPc' = "started" => isOpen(new)
        BY <1>1, <1>6 DEF Owned, Pointers
    <3>4. devs'[played'].state # "Deleted"
          /\ (kind' # "file" /\ mainPc' = "started" => isOpen(devs[played])')
        BY <1>6, <3>2, <3>3 DEF isOpen
    <3>5. QED
        BY <3>1, <3>2, <3>4 DEF Pointers
  <2>4. QED
      BY <2>1, <2>2, <2>3 DEF Owned
<1>7. CASE AudioLoop
    BY <1>5, <1>7 DEF AudioLoop
<1>8. ASSUME NEW fails \in BOOLEAN, AudioCallback(fails) PROVE Owned'
    BY <1>5, <1>8 DEF AudioCallback
<1>9. CASE AudioEnded
  <2> DEFINE new == [old EXCEPT !.state = "Configured"]
  <2>1. /\ audioPc = "ended" /\ Active /\ UNCHANGED audioDone
        /\ audioPc' = (IF kind = "file" /\ ~old.stopping THEN "closing" ELSE "callDone")
      BY <1>9 DEF AudioEnded, Active, this
  <2>2. CASE isOpen(old) /\ (kind = "hw" \/ ~old.stopping)
    <3>1. Becomes(played, new)
        BY <1>9, <2>2 DEF AudioEnded, this
    <3>2. new \in DeviceType /\ new.state = "Configured"
        BY <1>2, <2>1, ChangeDevice, Zenon
    <3>3. FileOK(new)
        BY <1>2, <2>1, <2>2, KeepsFile, Zenon
    <3>4. isOpen(new)
        BY <3>2 DEF isOpen
    <3>5. QED
        BY <1>6, <2>1, <3>1, <3>2, <3>3, <3>4
  <2>3. CASE ~(isOpen(old) /\ (kind = "hw" \/ ~old.stopping))
    <3>1. UNCHANGED devs
        BY <1>9, <2>3 DEF AudioEnded, this
    <3>2. QED
        BY <1>5, <2>1, <3>1
  <2>4. QED
      BY <2>2, <2>3
<1>10. CASE AudioClosing
  <2> DEFINE b   == old.stopping \/ (~old.closing /\ isRunning(old))
             new == [old EXCEPT !.stopping = b]
  <2>1. /\ audioPc = "closing" /\ Active /\ UNCHANGED audioDone
        /\ audioPc' \in {"doClose", "callDone"}
        /\ Becomes(played, new)
      BY <1>10 DEF AudioClosing, Active, this
  <2>2. b \in BOOLEAN
      BY <1>2, <2>1, DeviceFields DEF isRunning
  <2>3. new \in DeviceType /\ new.state = old.state
      BY <1>2, <2>1, <2>2, ChangeDevice, Zenon
  <2>4. FileOK(new)
      BY <1>2, <2>1, <2>2, KeepsFile, Zenon
  <2>5. kind = "file"
      BY <2>1 DEF Owned, Playing
  <2>6. QED
      BY <1>2, <1>6, <2>1, <2>3, <2>4, <2>5
<1>11. CASE AudioDoClose
  <2> DEFINE new == DoClose(old, "Closed")
  <2>1. /\ audioPc = "doClose" /\ Active /\ UNCHANGED audioDone
        /\ audioPc' = "callDone"
        /\ Becomes(played, new)
      BY <1>11 DEF AudioDoClose, Active, this
  <2>2. kind = "file"
      BY <2>1 DEF Owned, Playing
  <2>3. new \in DeviceType /\ FileOK(new) /\ new.state = "Closed"
      BY <1>2, <2>1, <2>2, CloseDevice
  <2>4. QED
      BY <1>6, <2>1, <2>2, <2>3
<1>12. CASE AudioDone
    BY <1>5, <1>12 DEF AudioDone, Active
<1>13. CASE AudioExit
    BY <1>5, <1>13 DEF AudioExit
<1>14. QED
    BY <1>7, <1>8, <1>9, <1>10, <1>11, <1>12, <1>13 DEF AudioStep

-----------------------------------------------------------------------------
(* The invariant, and what it gives.                                       *)

LEMMA InvParts == IInv <=> Plain /\ Owned
  BY TypeParts DEF IInv, Plain, Owned

LEMMA InvStep == IInv /\ [Next]_vars => IInv'
<1> SUFFICES ASSUME IInv, [Next]_vars PROVE IInv'
    OBVIOUS
<1>1. Plain /\ Owned
    BY InvParts
<1>2. CASE ParserStep \/ Client \/ Interrupt \/ HandlerStep
  <2>1. Plain' /\ Owned'
      BY <1>1, <1>2, ParserTypes, ParserOwned
  <2>2. QED
      BY <2>1, InvParts, PTL
<1>3. CASE MainStep
  <2>1. Plain' /\ Owned'
      BY <1>1, <1>3, MainTypes, MainOwned
  <2>2. QED
      BY <2>1, InvParts, PTL
<1>4. CASE AudioStep
  <2>1. Plain' /\ Owned'
      BY <1>1, <1>4, AudioTypes, AudioOwned
  <2>2. QED
      BY <2>1, InvParts, PTL
<1>5. CASE UNCHANGED vars
    BY <1>5 DEF vars, config, mainVars, parser, condition, flags, pointers, devices,
                audioVars, IInv, TypeOK, Files, FileOK, isOpen, Playing, Pointers,
                   Active
<1>6. QED
    BY <1>2, <1>3, <1>4, <1>5 DEF Next

\* The inductive invariant holds of every performance.
THEOREM MainInvariance == Spec => []IInv
<1>1. Init => IInv
    BY InvInit
<1>2. IInv /\ [Next]_vars => IInv'
    BY InvStep
<1>3. QED
    BY <1>1, <1>2, PTL DEF Spec

\* Every variable keeps its type; so no file descriptor is closed twice.
THEOREM MainTypeCorrect == Spec => []TypeOK
<1>1. IInv => TypeOK
    BY DEF IInv
<1>2. QED
    BY <1>1, MainInvariance, PTL

\* inTraverse's thread never meets a device that main has deleted, whatever the
\* commands, the signals and the end of the score do in which order.
THEOREM ThreadOutlived == Spec => []DeviceOutlivesThread
<1>1. IInv => DeviceOutlivesThread
    BY DEF IInv, Playing, Active, DeviceOutlivesThread, this
<1>2. QED
    BY <1>1, MainInvariance, PTL

\* Whoever closes a device, it is closed when it has been deleted.
THEOREM NoDeviceLeftOpen == Spec => []DeletedIsClosed
<1>1. IInv => DeletedIsClosed
    BY DEF IInv, Files, FileOK, DeletedIsClosed
<1>2. QED
    BY <1>1, MainInvariance, PTL
=============================================================================
