------------------------------ MODULE MainLoop ------------------------------
(***************************************************************************)
(* The life of a performance: RTcmixMain's main thread (runMainLoop,       *)
(* waitForMainLoop, close), the thread that receives commands in an        *)
(* interactive session (OSC server or sockit), the audio device with the   *)
(* thread it runs, and the handler of an interrupt.                        *)
(*                                                                         *)
(* The three threads and the handler share run_status, audioDone, the      *)
(* device pointer and rtsetparams_called without a lock; audio_config has  *)
(* a mutex and a condition.  The audio callback is inTraverse: of it (see  *)
(* Scheduler) only the value it returns matters here.                      *)
(*                                                                         *)
(* Abstracted: an interrupt is handled on a thread that does not hold      *)
(* audio_config_lock; RT_PANIC and RT_ERROR, which do not change what      *)
(* happens here, are left out; so are the -n option and device pauses.     *)
(* A definition named for a deviation of another (DoCloseAgain) is that    *)
(* definition with a plausible bug, and not part of Next.                  *)
(***************************************************************************)
EXTENDS Integers, Sequences

CONSTANTS
  Modes,        \* how RTcmix is run: subset of {"score", "sockit", "osc"}
  Kinds,        \* the device: "hw" (ALSA) or "file" (closes itself when done)
  Offsets,      \* bufTimeOffset, in slices
  ScoreLength,  \* slices until a score that is not interactive has been played
  MaxCommands,  \* bound: commands received
  Signals       \* may the user interrupt?

ASSUME ModesAssumption == /\ Modes \subseteq {"score", "sockit", "osc"}
                          /\ Kinds \subseteq {"hw", "file"}
                          /\ Signals \in BOOLEAN
ASSUME LengthAssumption == /\ Offsets \subseteq Nat
                           /\ ScoreLength \in Nat \ {0}
                           /\ MaxCommands \in Nat

VARIABLES
  mode, kind, bufTimeOffset,
  mainPc,      \* where main is, see MainPcs
  leaving,     \* main is in RTcmix's destructor
  parserPc,    \* the thread that parses: main itself in mode "score"
  commands,    \* how many commands it has received
  handlerPc,   \* interrupt_handler: "idle", "status", "config", "loop", "done"
  run_status, audio_config, signalled, audioLoopStarted, audioDone,
  exit_osc, rtsetparams_called,
  bufStart,    \* bufStartSamp, in slices
  devs,        \* the devices made so far, in their order; see DeviceType
  audioDevice, \* one of them, or NULL
  dying,       \* the one that close() has taken to delete it
  played,      \* the one whose thread runs
  audioPc      \* that thread

config    == <<mode, kind, bufTimeOffset>>
mainVars  == <<mainPc, leaving>>
parser    == <<parserPc, commands>>
condition == <<audio_config, signalled>>
flags     == <<audioLoopStarted, exit_osc, rtsetparams_called>>
pointers  == <<audioDevice, dying>>
devices   == <<devs, pointers>>
audioVars == <<played, audioPc>>
vars == <<config, mainVars, parser, handlerPc, run_status, condition, audioDone,
          flags, bufStart, devices, audioVars>>

MainPcs == {"parse", "configure", "enter", "lock", "waiting", "configured", "skip",
            "start", "started", "join", "wait", "stop", "joinAudio", "delete",
            "unconfigure", "again", "good", "uncall", "reset", "destroy", "exited"}

interactive == mode # "score"
NULL == 0
isOpen(d) == d.state \in {"Configured", "Running"}
isRunning(d) == d.state = "Running"

\* A device that has been created and opened.
NewDevice == [state |-> "Configured", fds |-> 1, closing |-> FALSE, stopping |-> FALSE]

\* setAudioConfigured: under the lock, with a signal to whoever waits.
SetAudioConfigured(b) ==
  /\ audio_config' = b
  /\ signalled' = (signalled \/ mainPc = "waiting")

\* DoClose, but the file device forgets that its thread has closed it.
DoCloseAgain(d, st) == [d EXCEPT !.state = st, !.fds = @ - 1]

\* doClose: the file device does it once, ALSA each time.
DoClose(d, st) ==
  [state    |-> st,
   fds      |-> IF d.closing THEN d.fds ELSE d.fds - 1,
   closing  |-> kind = "file" \/ d.closing,
   stopping |-> d.stopping]

\* The device n becomes d.
Becomes(n, d) == devs' = [devs EXCEPT ![n] = d]

\* TraverseStops, but an interactive session is not told to shut down.
TraverseStopsAtEnd == mode = "score" /\ bufStart + 1 >= ScoreLength

\* inTraverse returns false.
TraverseStops ==
  \/ run_status = "RT_SHUTDOWN"
  \/ mode = "score" /\ bufStart + 1 >= ScoreLength

\* Its effect on the frame counter, which is left alone once nothing reads it.
NextBuffer ==
  bufStart' = IF interactive /\ bufStart >= bufTimeOffset THEN bufStart ELSE bufStart + 1

Init ==
  /\ mode \in Modes /\ kind \in Kinds /\ bufTimeOffset \in Offsets
  /\ mainPc = IF mode = "osc" THEN "enter" ELSE "parse"
  /\ leaving = FALSE
  /\ parserPc = "ready"
  /\ commands = 0
  /\ handlerPc = "idle"
  /\ run_status = "RT_GOOD"
  /\ audio_config = FALSE
  /\ signalled = FALSE
  /\ audioLoopStarted = FALSE
  /\ audioDone = TRUE
  /\ exit_osc = FALSE
  /\ rtsetparams_called = FALSE
  /\ bufStart = 0
  /\ devs = <<>>
  /\ audioDevice = NULL
  /\ dying = NULL
  /\ played = NULL
  /\ audioPc = "none"

-----------------------------------------------------------------------------
(* The thread that parses: a score, or the commands of a client.           *)

Idle == parserPc = "ready" /\ mainPc # "exited"

\* rtsetparams creates the device and opens it; a second call is ignored or, in
\* a score, an error (ParseFails).
SetParams ==
  /\ Idle
  /\ commands < MaxCommands
  /\ commands' = commands + 1
  /\ ~rtsetparams_called
  /\ devs' = Append(devs, NewDevice)
  /\ audioDevice' = Len(devs')
  /\ parserPc' = "opened"
  /\ UNCHANGED <<config, mainVars, handlerPc, run_status, condition, audioDone,
                 flags, bufStart, dying, audioVars>>

SignalConfigured ==
  /\ parserPc = "opened"
  /\ SetAudioConfigured(TRUE)
  /\ parserPc' = "signalled"
  /\ UNCHANGED <<config, mainVars, commands, handlerPc, run_status, audioDone,
                 flags, bufStart, devices, audioVars>>

\* rtsetparams_called = 1, put at the end.
SetParamsDone ==
  /\ parserPc = "signalled"
  /\ rtsetparams_called' = TRUE
  /\ parserPc' = "ready"
  /\ UNCHANGED <<config, mainVars, commands, handlerPc, run_status, condition,
                 audioDone, audioLoopStarted, exit_osc, bufStart, devices, audioVars>>

\* The score has been parsed: main goes on, in a sockit session with a thread
\* that parses from now on.
ParseEnds ==
  /\ Idle
  /\ mainPc = "parse"
  /\ mainPc' = IF mode = "score" THEN "configure" ELSE "enter"
  /\ parserPc' = IF mode = "score" THEN "done" ELSE "ready"
  /\ UNCHANGED <<config, leaving, commands, handlerPc, run_status, condition,
                 audioDone, flags, bufStart, devices, audioVars>>

\* exit(status), or the end of run(): nothing is played.
ParseFails ==
  /\ Idle
  /\ mainPc = "parse"
  /\ mainPc' = IF mode = "score" THEN "exited" ELSE "destroy"
  /\ parserPc' = "done"
  /\ UNCHANGED <<config, leaving, commands, handlerPc, run_status, condition,
                 audioDone, flags, bufStart, devices, audioVars>>

\* OSC: /RTcmix/stop, or /RTcmix/quit.
StopCommand(quit) ==
  /\ Idle
  /\ mode = "osc"
  /\ commands < MaxCommands
  /\ commands' = commands + 1
  /\ exit_osc' = (exit_osc \/ quit)
  /\ parserPc' = "stop"
  /\ UNCHANGED <<config, mainVars, handlerPc, run_status, condition, audioDone,
                 audioLoopStarted, rtsetparams_called, bufStart, devices, audioVars>>

StopStatus ==
  /\ parserPc = "stop"
  /\ run_status' = "RT_SHUTDOWN"
  /\ parserPc' = "unconfigure"
  /\ UNCHANGED <<config, mainVars, commands, handlerPc, condition, audioDone, flags,
                 bufStart, devices, audioVars>>

StopConfig ==
  /\ parserPc = "unconfigure"
  /\ SetAudioConfigured(FALSE)
  /\ parserPc' = "ready"
  /\ UNCHANGED <<config, mainVars, commands, handlerPc, run_status, audioDone, flags,
                 bufStart, devices, audioVars>>

\* sockit: RTcmix_off, which ends the thread.
Off ==
  /\ Idle
  /\ mode = "sockit" /\ mainPc # "parse"
  /\ run_status' = "RT_SHUTDOWN"
  /\ parserPc' = "done"
  /\ UNCHANGED <<config, mainVars, commands, handlerPc, condition, audioDone, flags,
                 bufStart, devices, audioVars>>

-----------------------------------------------------------------------------
(* interrupt_handler: it does its work once.                               *)

Interrupt ==
  /\ Signals
  /\ handlerPc = "idle" /\ mainPc # "exited"
  /\ exit_osc' = TRUE
  /\ handlerPc' = "status"
  /\ UNCHANGED <<config, mainVars, parser, run_status, condition, audioDone,
                 audioLoopStarted, rtsetparams_called, bufStart, devices, audioVars>>

HandlerStatus ==
  /\ handlerPc = "status"
  /\ run_status' = "RT_SHUTDOWN"
  /\ handlerPc' = "config"
  /\ UNCHANGED <<config, mainVars, parser, condition, audioDone, flags, bufStart,
                 devices, audioVars>>

HandlerConfig ==
  /\ handlerPc = "config"
  /\ SetAudioConfigured(FALSE)
  /\ handlerPc' = "loop"
  /\ UNCHANGED <<config, mainVars, parser, run_status, audioDone, flags, bufStart,
                 devices, audioVars>>

\* The process exits if runMainLoop has not been reached.
HandlerLoop ==
  /\ handlerPc = "loop"
  /\ mainPc' = IF audioLoopStarted THEN mainPc ELSE "exited"
  /\ handlerPc' = "done"
  /\ UNCHANGED <<config, leaving, parser, run_status, condition, audioDone, flags,
                 bufStart, devices, audioVars>>

-----------------------------------------------------------------------------
(* The main thread: runMainLoop.                                           *)

MainKeeps == UNCHANGED <<config, parser, handlerPc>>

\* A score is played without waiting for rtsetparams.
Configure ==
  /\ mainPc = "configure"
  /\ SetAudioConfigured(TRUE)
  /\ mainPc' = "enter"
  /\ UNCHANGED <<leaving, run_status, audioDone, flags, bufStart, devices, audioVars>>

Enter ==
  /\ mainPc = "enter"
  /\ bufStart' = 0
  /\ audioDone' = FALSE
  /\ audioLoopStarted' = TRUE
  /\ mainPc' = "lock"
  /\ UNCHANGED <<leaving, run_status, condition, exit_osc, rtsetparams_called,
                 devices, audioVars>>

\* while (!audio_config) pthread_cond_wait(...), the lock being held in between.
Lock ==
  /\ mainPc = "lock"
  /\ mainPc' = IF audio_config THEN "configured" ELSE "waiting"
  /\ signalled' = FALSE
  /\ UNCHANGED <<leaving, run_status, audio_config, audioDone, flags, bufStart,
                 devices, audioVars>>

\* Woken up: an interactive session that is shutting down returns 0, and is closed.
Woken ==
  /\ mainPc = "waiting"
  /\ signalled
  /\ IF interactive /\ run_status = "RT_SHUTDOWN"
       THEN /\ audioDone' = TRUE
            /\ mainPc' = IF mode = "sockit" THEN "join" ELSE "wait"
       ELSE mainPc' = "lock" /\ UNCHANGED audioDone
  /\ UNCHANGED <<leaving, run_status, condition, flags, bufStart, devices, audioVars>>

\* return -1 "Not playing, signal caller not to wait."
NotPlaying == audioDone' = TRUE /\ mainPc' = "destroy"

Configured ==
  /\ mainPc = "configured"
  /\ \/ /\ ~rtsetparams_called
        /\ NotPlaying /\ UNCHANGED run_status
     \/ /\ rtsetparams_called /\ bufTimeOffset > 0
        /\ run_status' = "RT_SKIP" /\ mainPc' = "skip" /\ UNCHANGED audioDone
     \/ /\ rtsetparams_called /\ bufTimeOffset = 0
        /\ mainPc' = "start" /\ UNCHANGED <<run_status, audioDone>>
  /\ UNCHANGED <<leaving, condition, flags, bufStart, devices, audioVars>>

\* while (bufStartSamp < bufOffset): inTraverse is called by main.
Skip ==
  /\ mainPc = "skip" /\ bufStart < bufTimeOffset
  /\ NextBuffer
  /\ IF TraverseStops THEN NotPlaying ELSE UNCHANGED <<mainPc, audioDone>>
  /\ UNCHANGED <<leaving, run_status, condition, flags, devices, audioVars>>

Skipped ==
  /\ mainPc = "skip" /\ bufStart >= bufTimeOffset
  /\ run_status' = "RT_GOOD"
  /\ mainPc' = "start"
  /\ UNCHANGED <<leaving, condition, audioDone, flags, bufStart, devices, audioVars>>

\* startAudio: AudioDeviceImpl::start calls doStart, which creates the thread...
Start ==
  /\ mainPc = "start"
  /\ audioDevice # NULL /\ isOpen(devs[audioDevice])
  /\ Becomes(audioDevice, [devs[audioDevice] EXCEPT !.stopping = FALSE])
  /\ played' = audioDevice
  /\ audioPc' = "loop"
  /\ mainPc' = "started"
  /\ UNCHANGED <<leaving, run_status, condition, audioDone, flags, bufStart, pointers>>

\* ... or fails: the device is closed.
StartFails ==
  /\ mainPc = "start"
  /\ IF audioDevice # NULL /\ isOpen(devs[audioDevice])
       THEN Becomes(audioDevice, DoClose(devs[audioDevice], "Closed"))
       ELSE UNCHANGED devs
  /\ NotPlaying
  /\ UNCHANGED <<leaving, run_status, condition, flags, bufStart, pointers, audioVars>>

AfterStart == IF mode = "sockit" THEN "join" ELSE "wait"

\* Started, but audioDone is reset here, when the thread may have ended already.
StartedLate ==
  /\ mainPc = "started"
  /\ Becomes(played, [devs[played] EXCEPT !.state = "Running"])
  /\ audioDone' = FALSE
  /\ mainPc' = AfterStart
  /\ UNCHANGED <<leaving, run_status, condition, flags, bufStart, pointers, audioVars>>

\* setState(Running), whatever the thread has done in the meantime.
Started ==
  /\ mainPc = "started"
  /\ Becomes(played, [devs[played] EXCEPT !.state = "Running"])
  /\ mainPc' = AfterStart
  /\ UNCHANGED <<leaving, run_status, condition, audioDone, flags, bufStart, pointers,
                 audioVars>>

\* A sockit session waits for its thread first.
Join ==
  /\ mainPc = "join"
  /\ parserPc = "done"
  /\ mainPc' = "wait"
  /\ UNCHANGED <<leaving, run_status, condition, audioDone, flags, bufStart, devices,
                 audioVars>>

-----------------------------------------------------------------------------
(* waitForMainLoop, and close.                                             *)

\* close sets RT_SHUTDOWN and takes the device to delete it.
Wait ==
  /\ mainPc = "wait"
  /\ audioDone
  /\ run_status' = "RT_SHUTDOWN"
  /\ dying' = audioDevice
  /\ audioDevice' = NULL
  /\ mainPc' = IF audioDevice = NULL THEN "unconfigure" ELSE "stop"
  /\ UNCHANGED <<leaving, condition, audioDone, flags, bufStart, devs, audioVars>>

\* The device's destructor calls close(), which stops a device that is running.
Stop ==
  /\ mainPc = "stop"
  /\ Becomes(dying, [devs[dying] EXCEPT !.stopping = @ \/ isRunning(devs[dying])])
  /\ mainPc' = IF isRunning(devs[dying]) /\ ~devs[dying].stopping THEN "joinAudio"
                                                                 ELSE "delete"
  /\ UNCHANGED <<leaving, run_status, condition, audioDone, flags, bufStart, pointers,
                 audioVars>>

JoinAudio ==
  /\ mainPc = "joinAudio"
  /\ audioPc = "none"
  /\ Becomes(dying, [devs[dying] EXCEPT !.state = "Configured"])
  /\ mainPc' = "delete"
  /\ UNCHANGED <<leaving, run_status, condition, audioDone, flags, bufStart, pointers,
                 audioVars>>

Delete ==
  /\ mainPc = "delete"
  /\ IF isOpen(devs[dying])
       THEN Becomes(dying, DoClose(devs[dying], "Deleted"))
       ELSE Becomes(dying, [devs[dying] EXCEPT !.state = "Deleted"])
  /\ dying' = NULL
  /\ mainPc' = "unconfigure"
  /\ UNCHANGED <<leaving, run_status, condition, audioDone, flags, bufStart,
                 audioDevice, audioVars>>

Unconfigure ==
  /\ mainPc = "unconfigure"
  /\ SetAudioConfigured(FALSE)
  /\ mainPc' = IF leaving THEN "exited" ELSE IF mode = "osc" THEN "again" ELSE "destroy"
  /\ UNCHANGED <<leaving, run_status, audioDone, flags, bufStart, devices, audioVars>>

\* runUsingOSC: "Loop here until server killed".
Again ==
  /\ mainPc = "again"
  /\ mainPc' = IF exit_osc THEN "destroy" ELSE "good"
  /\ UNCHANGED <<leaving, run_status, condition, audioDone, flags, bufStart, devices,
                 audioVars>>

ResetStatus ==
  /\ mainPc = "good"
  /\ run_status' = "RT_GOOD"
  /\ mainPc' = "uncall"
  /\ UNCHANGED <<leaving, condition, audioDone, flags, bufStart, devices, audioVars>>

ResetCalled ==
  /\ mainPc = "uncall"
  /\ rtsetparams_called' = FALSE
  /\ mainPc' = "reset"
  /\ UNCHANGED <<leaving, run_status, condition, audioDone, audioLoopStarted, exit_osc,
                 bufStart, devices, audioVars>>

ResetConfig ==
  /\ mainPc = "reset"
  /\ SetAudioConfigured(FALSE)
  /\ mainPc' = "enter"
  /\ UNCHANGED <<leaving, run_status, audioDone, flags, bufStart, devices, audioVars>>

\* run() returns: ~RTcmix waits for the audio once more, and closes it.
Destroy ==
  /\ mainPc = "destroy"
  /\ run_status' = "RT_SHUTDOWN"
  /\ leaving' = TRUE
  /\ mainPc' = "wait"
  /\ UNCHANGED <<condition, audioDone, flags, bufStart, devices, audioVars>>

-----------------------------------------------------------------------------
(* The device's thread: run().                                             *)

AudioKeeps == UNCHANGED <<config, mainVars, parser, handlerPc, run_status, condition,
                          flags, pointers, played>>
this == devs[played]

\* while (!stopping())
AudioLoop ==
  /\ audioPc = "loop"
  /\ audioPc' = IF this.stopping THEN "ended" ELSE "callback"
  /\ UNCHANGED <<audioDone, bufStart, devs>>

\* inTraverse, which also fails when the device does.
AudioCallback(fails) ==
  /\ audioPc = "callback"
  /\ NextBuffer
  /\ audioPc' = IF fails \/ TraverseStops THEN "ended" ELSE "loop"
  /\ UNCHANGED <<audioDone, devs>>

\* AudioEnded, but the device counts as closed before close() is called.
AudioEndedClosed ==
  /\ audioPc = "ended"
  /\ IF isOpen(this) /\ (kind = "hw" \/ ~this.stopping)
       THEN Becomes(played, [this EXCEPT !.state = "Closed"])
       ELSE UNCHANGED devs
  /\ audioPc' = IF kind = "file" /\ ~this.stopping THEN "closing" ELSE "callDone"
  /\ UNCHANGED <<audioDone, bufStart>>

\* AudioEnded, but waitForMainLoop is told before the device closes itself.
AudioEndedEarly ==
  /\ audioPc = "ended"
  /\ IF isOpen(this) /\ (kind = "hw" \/ ~this.stopping)
       THEN Becomes(played, [this EXCEPT !.state = "Configured"])
       ELSE UNCHANGED devs
  /\ audioPc' = IF kind = "file" /\ ~this.stopping THEN "closing" ELSE "callDone"
  /\ audioDone' = TRUE
  /\ UNCHANGED bufStart

\* Stopped by main: that will close the device.  Otherwise its state says that it
\* does not run, and the file device goes on to close itself.
AudioEnded ==
  /\ audioPc = "ended"
  /\ IF isOpen(this) /\ (kind = "hw" \/ ~this.stopping)
       THEN Becomes(played, [this EXCEPT !.state = "Configured"])
       ELSE UNCHANGED devs
  /\ audioPc' = IF kind = "file" /\ ~this.stopping THEN "closing" ELSE "callDone"
  /\ UNCHANGED <<audioDone, bufStart>>

\* close(): if main has set the state to Running by now, stop() is called after all;
\* the join of the thread with itself fails, without effect.
AudioClosing ==
  /\ audioPc = "closing"
  /\ Becomes(played, [this EXCEPT !.stopping = @ \/ (~this.closing /\ isRunning(this))])
  /\ audioPc' = IF ~this.closing /\ isOpen(this) THEN "doClose" ELSE "callDone"
  /\ UNCHANGED <<audioDone, bufStart>>

AudioDoClose ==
  /\ audioPc = "doClose"
  /\ Becomes(played, DoClose(this, "Closed"))
  /\ audioPc' = "callDone"
  /\ UNCHANGED <<audioDone, bufStart>>

\* stopCallback: doneTraverse reports on the device and tells waitForMainLoop.
AudioDone ==
  /\ audioPc = "callDone"
  /\ audioDone' = TRUE
  /\ audioPc' = "exit"
  /\ UNCHANGED <<bufStart, devs>>

AudioExit ==
  /\ audioPc = "exit"
  /\ audioPc' = "none"
  /\ UNCHANGED <<audioDone, bufStart, devs>>

-----------------------------------------------------------------------------
ParserStep == \/ SignalConfigured \/ SetParamsDone \/ StopStatus \/ StopConfig
              \/ ParseEnds \/ ParseFails
Client == SetParams \/ Off \/ \E quit \in BOOLEAN : StopCommand(quit)
HandlerStep == HandlerStatus \/ HandlerConfig \/ HandlerLoop
MainStep ==
  /\ MainKeeps
  /\ \/ Configure \/ Enter \/ Lock \/ Woken \/ Configured \/ Skip \/ Skipped
     \/ Start \/ StartFails \/ Started \/ Join \/ Wait \/ Stop \/ JoinAudio
     \/ Delete \/ Unconfigure \/ Again \/ ResetStatus \/ ResetCalled \/ ResetConfig
     \/ Destroy
AudioStep ==
  /\ AudioKeeps
  /\ \/ AudioLoop \/ AudioEnded \/ AudioClosing \/ AudioDoClose \/ AudioDone
     \/ AudioExit \/ \E fails \in BOOLEAN : AudioCallback(fails)

\* When the process has exited, nothing runs.
Next == /\ mainPc # "exited"
        /\ ParserStep \/ Client \/ Interrupt \/ HandlerStep \/ MainStep \/ AudioStep

\* The scheduler of the operating system is fair to every thread and to a handler
\* that has begun; what a client or the user sends is theirs to decide.
Spec == /\ Init /\ [][Next]_vars
        /\ WF_vars(ParserStep /\ mainPc # "exited")
        /\ WF_vars(HandlerStep /\ mainPc # "exited")
        /\ WF_vars(MainStep /\ mainPc # "exited")
        /\ WF_vars(AudioStep /\ mainPc # "exited")

-----------------------------------------------------------------------------
(* Properties.                                                             *)

DeviceType == [state : {"Configured", "Running", "Closed", "Deleted"}, fds : 0 .. 1,
               closing : BOOLEAN, stopping : BOOLEAN]

\* Every variable has its type; in particular no device is closed twice, by its own
\* thread and by main, which would close somebody else's file descriptor.
TypeOK ==
  /\ mode \in Modes /\ kind \in Kinds /\ bufTimeOffset \in Offsets
  /\ mainPc \in MainPcs
  /\ parserPc \in {"ready", "opened", "signalled", "stop", "unconfigure", "done"}
  /\ handlerPc \in {"idle", "status", "config", "loop", "done"}
  /\ audioPc \in {"none", "loop", "callback", "ended", "closing", "doClose",
                  "callDone", "exit"}
  /\ run_status \in {"RT_GOOD", "RT_SKIP", "RT_SHUTDOWN"}
  /\ leaving \in BOOLEAN /\ audio_config \in BOOLEAN /\ signalled \in BOOLEAN
  /\ audioLoopStarted \in BOOLEAN /\ audioDone \in BOOLEAN
  /\ exit_osc \in BOOLEAN /\ rtsetparams_called \in BOOLEAN
  /\ commands \in 0 .. MaxCommands
  /\ bufStart \in Nat
  /\ devs \in Seq(DeviceType)
  /\ audioDevice \in {NULL} \cup DOMAIN devs
  /\ dying \in {NULL} \cup DOMAIN devs
  /\ played \in {NULL} \cup DOMAIN devs

\* The device outlives its thread: main deletes it only after the thread has set
\* audioDone, which must be the last thing the thread does to it.
DeviceOutlivesThread ==
  audioPc \notin {"none", "exit"} => this.state # "Deleted"

\* However the thread, which closes a file device that has played, and main, which
\* closes what it deletes, meet: the header of the file is written.
DeletedIsClosed ==
  \A n \in DOMAIN devs : devs[n].state = "Deleted" => devs[n].fds = 0

\* A session that is told to shut down while it plays is closed, unless sockit is
\* still waiting for its client: then at least the audio ends.
ShutdownEndsSession ==
  audioPc = "callback" /\ run_status = "RT_SHUTDOWN"
    ~> audioDone /\ (mode = "sockit" \/ audioDevice = NULL)

\* A score that is not interrupted is parsed and played, and the process exits,
\* however fast its audio thread ends.
ScoreRunsToEnd ==
  mode = "score" ~> mainPc = "exited" \/ handlerPc # "idle"

\* The OSC server goes on, session after session, until it is told to quit or is
\* interrupted; runUsingOSC: "Loop here until server killed".
ServerLoopsUntilKilled ==
  mode = "osc" /\ mainPc = "exited" => exit_osc
=============================================================================
