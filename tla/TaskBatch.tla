----------------------------- MODULE TaskBatch ------------------------------
(***************************************************************************)
(* What TaskManager promises inTraverse: the tasks added since the last    *)
(* waitForTasks are each executed exactly once, in any order, and          *)
(* waitForTasks returns when all of them have been.                        *)
(***************************************************************************)
CONSTANT Tasks

VARIABLES phase,  \* "gather", "run", "mix" or "stopped"
          batch,  \* the tasks added
          done    \* those of them that have been executed

vars == <<phase, batch, done>>

Init == phase = "gather" /\ batch = {} /\ done = {}

Gather(t) ==
  /\ phase = "gather"
  /\ t \notin batch
  /\ batch' = batch \cup {t}
  /\ UNCHANGED <<phase, done>>

Start ==
  /\ phase = "gather"
  /\ batch # {}
  /\ phase' = "run"
  /\ UNCHANGED <<batch, done>>

Exec(t) ==
  /\ phase = "run"
  /\ t \in batch \ done
  /\ done' = done \cup {t}
  /\ UNCHANGED <<phase, batch>>

Complete ==
  /\ phase = "run"
  /\ done = batch
  /\ phase' = "mix"
  /\ UNCHANGED <<batch, done>>

Mix ==
  /\ phase = "mix"
  /\ phase' = "gather"
  /\ batch' = {}
  /\ done' = {}

Stop ==
  /\ phase = "gather"
  /\ batch = {}
  /\ phase' = "stopped"
  /\ UNCHANGED <<batch, done>>

Next == Start \/ Complete \/ Mix \/ Stop
        \/ \E t \in Tasks : Gather(t) \/ Exec(t)

SafeSpec == Init /\ [][Next]_vars

Spec == /\ SafeSpec
        /\ WF_vars(Complete) /\ WF_vars(Mix)
        /\ \A t \in Tasks : WF_vars(Exec(t))
=============================================================================
