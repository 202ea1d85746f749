--------------------------- MODULE TaskPoolProof ----------------------------
(***************************************************************************)
(* The task pool is correct for every number of workers, tasks and         *)
(* addresses.  The inductive invariant has two halves:                     *)
(*                                                                         *)
(*   Accounting  which worker still owes the audio thread a report, and    *)
(*               that mRequestCount and mWaitSema say so; with Stopping,   *)
(*               that the destructor finds no post left over;              *)
(*   Contents    where each task and each node is: the linked nodes form a *)
(*               list from `head', a task is in exactly one place, and a   *)
(*               worker that has reported saw the list empty.              *)
(***************************************************************************)
EXTENDS TaskPool, FiniteSetTheorems, TLAPS

Handed == {"wake", "waitAll"}               \* the workers have the batch
Stops  == {"stop", "join", "destroyed"}     \* the pool is being deleted
Idle   == {"wait", "check"}

\* Workers woken for this batch that have not yet reported, ...
Owing == {w \in Workers : mSema[w] > 0 \/ wpc[w] \in Popping \cup {"notify"}}
\* ... and those the audio thread is still to wake.
ToWake == {w \in Workers : mainPc = "wake" /\ threadIdx <= w /\ w < count}
Pending == Owing \cup ToWake

NoPost == \A w \in Workers : wpc[w] # "post"
OnePost == \E w \in Workers :
             wpc[w] = "post" /\ \A v \in Workers \ {w} : wpc[v] # "post"

Quiescent ==
  mainPc \notin Handed \cup Stops =>
    /\ mWaitSema = 0
    /\ \A w \in Workers : wpc[w] \in Idle /\ mSema[w] = 0

Semaphores ==
  mainPc \notin Stops =>
    \A w \in Workers : /\ mStopping[w] = FALSE
                       /\ wpc[w] # "exited"
                       /\ mSema[w] \in {0, 1}
                       /\ mSema[w] = 1 => wpc[w] \in Idle

Counting ==
  /\ mainPc \notin Handed => mRequestCount <= 0
  /\ mainPc \in Handed =>
       /\ count \in 1 .. RT_THREAD_COUNT
       /\ threadIdx <= count
       /\ mainPc = "wake" <=> threadIdx < count
       /\ ToWake \cap Owing = {}
       /\ mRequestCount = Cardinality(Pending)
       /\ Pending # {} => mWaitSema = 0 /\ NoPost
       /\ Pending = {} => \/ mWaitSema = 1 /\ NoPost
                          \/ mWaitSema = 0 /\ OnePost

Pushing ==
  /\ mainPc = "gather" => mTaskHead = instruments
  /\ mainPc \in {"push", "pushCas"} => instruments # {}
  /\ mainPc = "push" /\ taskCount = 0 => mTaskHead = instruments
  /\ mainPc = "pushCas" => taskCount > 0
  /\ mainPc \notin {"gather", "push", "pushCas"} => mTaskHead = {}
  /\ mainPc \in Stops => instruments = {}

Accounting == Quiescent /\ Semaphores /\ Counting /\ Pushing

\* The destructor wakes one worker after the other, and none of them reports.
Stopping ==
  mainPc \in Stops =>
    /\ mWaitSema = 0 /\ NoPost
    /\ \A w \in Workers :
         w > threadIdx \/ (w = threadIdx /\ mainPc = "stop") => mSema[w] = 0

-----------------------------------------------------------------------------
Taken(n)   == \E w \in Workers : wpc[w] = "take" /\ oldHead[w] = n
Private(n) == mainPc = "pushCas" /\ n = newNode
Linked     == {n \in alloc : ~Taken(n) /\ ~Private(n)}

\* s lists the linked nodes from the head on.
Chain(k, s) ==
  /\ head = IF k = 0 THEN NULL ELSE s[1]
  /\ \A i \in 1 .. k : node[s[i]].next = IF i = k THEN NULL ELSE s[i + 1]
  /\ \A i \in 1 .. k : s[i] \in Linked
  /\ \A i, j \in 1 .. k : s[i] = s[j] => i = j
  /\ \A n \in Linked : \E i \in 1 .. k : s[i] = n

IsList == \E k \in Nat : \E s \in [1 .. k -> Nodes] : Chain(k, s)

Registers ==
  /\ mainPc = "pushCas" => newNode \in alloc
  /\ \A w \in Workers : wpc[w] \in {"next", "cas", "take"} => oldHead[w] # NULL
  /\ \A w \in Workers :
       wpc[w] = "cas" /\ oldHead[w] \in alloc => nxt[w] = node[oldHead[w]].next

Places ==
  /\ Ran \subseteq instruments
  /\ mTaskHead \subseteq instruments \ Ran
  /\ \A n \in alloc : node[n].data \in instruments \ (Ran \cup mTaskHead)
  /\ \A n, m \in alloc : node[n].data = node[m].data => n = m
  /\ \A n \in alloc, w \in Workers : wpc[w] = "run" => task[w] # node[n].data
  /\ \A w \in Workers :
       wpc[w] = "run" => task[w] \in instruments \ (Ran \cup mTaskHead)

NoneLost ==
  \A t \in instruments :
    \/ t \in mTaskHead \cup Ran
    \/ \E n \in alloc : node[n].data = t
    \/ \E w \in Workers : wpc[w] = "run" /\ task[w] = t

Reported ==
  /\ mainPc \in Handed =>
       \A w \in Workers : wpc[w] = "notify" \/ (w < count /\ w \notin Pending)
                            => head = NULL
  /\ mainPc \in {"gather", "mix"} \cup Stops => head = NULL /\ alloc = {}
  /\ mainPc \in {"gather", "push", "pushCas"} \cup Stops => Ran = {}
  /\ mainPc = "mix" => Ran = instruments
  /\ mainPc \in Stops =>
       \A w \in Workers : wpc[w] \notin {"next", "cas", "take", "run"}

Contents == /\ NodeDeletedOnce /\ TaskRunsOnce
            /\ IsList /\ Registers /\ Places /\ NoneLost /\ Reported

IInv == TypeOK /\ Accounting /\ Stopping /\ Contents

-----------------------------------------------------------------------------
(* Types.                                                                  *)

LEMMA TypeInit == Init => TypeOK
  BY ThreadCountAssumption
  DEF Init, TypeOK, MainPcs, WorkerPcs

\* A post on a semaphore at 0 leaves a semaphore at 1.
LEMMA PostOnZero ==
  ASSUME NEW f \in [Workers -> {0, 1}], NEW w, f[w] = 0
  PROVE  [f EXCEPT ![w] = @ + 1] \in [Workers -> {0, 1}]
<1>1. [f EXCEPT ![w] = @ + 1] = [f EXCEPT ![w] = 1]
    BY f[w] + 1 = 1
<1>2. [f EXCEPT ![w] = 1] \in [Workers -> {0, 1}]
    OBVIOUS
<1>3. QED
    BY <1>1, <1>2

LEMMA TypeStep == IInv /\ [Next]_vars => TypeOK'
<1> SUFFICES ASSUME TypeOK, Accounting, Stopping, Contents, [Next]_vars PROVE TypeOK'
    BY DEF IInv
<1> USE DEF TypeOK, MainPcs, WorkerPcs, mainVars, stackVars, workerVars, semVars
<1>1. ASSUME NEW t \in Tasks, AddTask(t) PROVE TypeOK'
    BY <1>1 DEF AddTask
<1>2. CASE WaitForTasks
    BY <1>2 DEF WaitForTasks
<1>3. CASE PushLoad
    BY <1>3 DEF PushLoad
<1>4. CASE PushCas
    BY <1>4 DEF PushCas
<1>5. CASE SetRequestCount
    BY <1>5, ThreadCountAssumption DEF SetRequestCount, Min2
<1>6. CASE Wake
  <2>1. threadIdx \in Workers
      BY <1>6, ThreadCountAssumption
      DEF Wake, Accounting, Counting, Handed, Workers
  <2>2. mSema[threadIdx] = 0
      BY <1>6, <2>1
      DEF Wake, Accounting, Semaphores, Counting, Handed, Stops, ToWake, Owing
  <2>3. mSema' \in [Workers -> {0, 1}]
    <3>1. mSema \in [Workers -> {0, 1}]
        OBVIOUS
    <3>2. mSema' = [mSema EXCEPT ![threadIdx] = @ + 1]
        BY <1>6 DEF Wake
    <3>3. QED
        BY <2>2, <3>1, <3>2, PostOnZero
  <2>4. QED
      BY <1>6, <2>1, <2>3 DEF Wake
<1>7. CASE WaitSema
    BY <1>7 DEF WaitSema
<1>8. CASE MixToBus
    BY <1>8 DEF MixToBus
<1>9. CASE Destroy
    BY <1>9 DEF Destroy
<1>10. CASE StopThread
  <2>1. threadIdx \in Workers
      BY <1>10, ThreadCountAssumption DEF StopThread, Workers
  <2>2. mSema[threadIdx] = 0
      BY <1>10, <2>1 DEF StopThread, Stopping, Stops
  <2>3. mSema' \in [Workers -> {0, 1}]
    <3>1. mSema \in [Workers -> {0, 1}]
        OBVIOUS
    <3>2. mSema' = [mSema EXCEPT ![threadIdx] = @ + 1]
        BY <1>10 DEF StopThread
    <3>3. QED
        BY <2>2, <3>1, <3>2, PostOnZero
  <2>4. QED
      BY <1>10, <2>1, <2>3 DEF StopThread
<1>11. CASE JoinThread
    BY <1>11 DEF JoinThread
<1>12. CASE UNCHANGED vars
    BY <1>12 DEF vars
<1>13. ASSUME NEW w \in Workers, SemaWait(w) PROVE TypeOK'
    BY <1>13 DEF SemaWait
<1>14. ASSUME NEW w \in Workers, PopLoad(w) PROVE TypeOK'
    BY <1>14 DEF PopLoad
<1>15. ASSUME NEW w \in Workers, PopReadNext(w) PROVE TypeOK'
    BY <1>15 DEF PopReadNext
<1>16. ASSUME NEW w \in Workers, PopCas(w) PROVE TypeOK'
    BY <1>16 DEF PopCas
<1>17. ASSUME NEW w \in Workers, PopRetry(w) PROVE TypeOK'
    BY <1>17 DEF PopRetry
<1>18. ASSUME NEW w \in Workers, PopTake(w) PROVE TypeOK'
    BY <1>18 DEF PopTake, Contents, NodeDeletedOnce
<1>19. ASSUME NEW w \in Workers, RunTask(w) PROVE TypeOK'
    BY <1>19 DEF RunTask, Contents, TaskRunsOnce
<1>20. ASSUME NEW w \in Workers, Notify(w) PROVE TypeOK'
    BY <1>20 DEF Notify
<1>21. ASSUME NEW w \in Workers, PostWait(w) PROVE TypeOK'
  <2>1. mWaitSema = 0
      BY <1>21
      DEF PostWait, Accounting, Quiescent, Counting, Stopping, NoPost, Handed, Stops, Idle
  <2>2. QED
      BY <1>21, <2>1 DEF PostWait
<1>22. ASSUME NEW w \in Workers, LoopCheck(w) PROVE TypeOK'
    BY <1>22 DEF LoopCheck
<1>23. QED
    BY <1>1, <1>2, <1>3, <1>4, <1>5, <1>6, <1>7, <1>8, <1>9, <1>10, <1>11,
       <1>12, <1>13, <1>14, <1>15, <1>16, <1>17, <1>18, <1>19, <1>20, <1>21,
       <1>22
    DEF Next, MainStep, WorkerStep, Destroyed

-----------------------------------------------------------------------------
(* Accounting.                                                             *)

LEMMA AccountingInit == Init => Accounting
  BY ThreadCountAssumption
  DEF Init, Accounting, Quiescent, Semaphores, Counting, Pushing, Handed,
      Stops, Idle

\* Sets of workers are finite.
LEMMA FiniteWorkers ==
  ASSUME NEW S \in SUBSET Workers
  PROVE  /\ IsFiniteSet(S)
         /\ Cardinality(S) \in Nat
         /\ Cardinality(S) = 0 <=> S = {}
<1>1. IsFiniteSet(Workers)
    BY FS_Interval, ThreadCountAssumption DEF Workers
<1>2. QED
    BY <1>1, FS_Subset, FS_CardinalityType, FS_EmptySet

\* A worker that moves on inside its task loop owes its report as before.
LEMMA MoveInLoop ==
  ASSUME TypeOK, Accounting,
         NEW w \in Workers, wpc[w] \in Popping,
         NEW pc \in Popping \cup {"notify"}, wpc' = [wpc EXCEPT ![w] = pc],
         UNCHANGED <<mainVars, semVars>>
  PROVE  Accounting'
<1> USE DEF TypeOK, Workers, Popping, mainVars, semVars, Handed, Stops, Idle
<1>1. wpc[w] \notin Idle \cup {"exited", "post"}
    OBVIOUS
<1>2. Quiescent'
    BY <1>1 DEF Accounting, Quiescent
<1>3. Semaphores'
    BY <1>1 DEF Accounting, Semaphores
<1>4. Owing' = Owing /\ ToWake' = ToWake /\ Pending' = Pending
    BY DEF Owing, ToWake, Pending
<1>5. NoPost' <=> NoPost
    BY DEF NoPost
<1>6. OnePost' <=> OnePost
    BY DEF OnePost
<1>7. Counting'
    BY <1>4, <1>5, <1>6 DEF Accounting, Counting
<1>8. Pushing'
    BY DEF Accounting, Pushing
<1>9. QED
    BY <1>2, <1>3, <1>7, <1>8 DEF Accounting

LEMMA AccountingAddTask ==
  ASSUME TypeOK, Accounting, NEW t \in Tasks, AddTask(t)
  PROVE  Accounting'
<1> USE DEF TypeOK, AddTask, mainVars, semVars, workerVars, Handed, Stops, Idle
<1>1. Quiescent' /\ Semaphores'
    BY DEF Accounting, Quiescent, Semaphores
<1>2. Counting'
    BY DEF Accounting, Counting
<1>3. Pushing'
    BY DEF Accounting, Pushing
<1>4. QED
    BY <1>1, <1>2, <1>3 DEF Accounting

\* Steps of the audio thread that leave every worker asleep.
LEMMA AccountingGatherAndPush ==
  ASSUME TypeOK, Accounting,
         WaitForTasks \/ PushLoad \/ PushCas \/ MixToBus \/ Destroy
  PROVE  Accounting'
<1> USE DEF TypeOK, WaitForTasks, PushLoad, PushCas, MixToBus, Destroy,
            mainVars, semVars, workerVars, Handed, Stops, Idle
<1>1. Quiescent' /\ Semaphores'
    BY DEF Accounting, Quiescent, Semaphores
<1>2. Counting'
    BY DEF Accounting, Counting
<1>3. Pushing'
  <2>1. CASE PushLoad
      BY <2>1 DEF Accounting, Pushing
  <2>2. CASE PushCas
      BY <2>2 DEF Accounting, Pushing
  <2>3. CASE WaitForTasks
      BY <2>3 DEF Accounting, Pushing
  <2>4. CASE MixToBus \/ Destroy
      BY <2>4 DEF Accounting, Pushing
  <2>5. QED
      BY <2>1, <2>2, <2>3, <2>4
<1>4. QED
    BY <1>1, <1>2, <1>3 DEF Accounting

LEMMA AccountingSetRequestCount ==
  ASSUME TypeOK, Accounting, SetRequestCount
  PROVE  Accounting'
<1> USE DEF SetRequestCount, stackVars, workerVars, Handed, Stops, Idle
<1>1. taskCount > 0
    BY DEF TypeOK, Accounting, Pushing
<1>2. count' \in 1 .. RT_THREAD_COUNT
    BY <1>1, ThreadCountAssumption DEF TypeOK, Min2
<1>3. Owing' = {}
    BY DEF Accounting, Quiescent, Owing, Popping
<1>4. ToWake' = 0 .. count' - 1
    BY <1>2, ThreadCountAssumption DEF ToWake, Workers
<1>5. Cardinality(Pending') = count'
  <2>1. Pending' = 0 .. count' - 1
      BY <1>3, <1>4 DEF Pending
  <2>2. Cardinality(0 .. count' - 1) = (count' - 1) - 0 + 1
      BY <1>2, FS_Interval
  <2>3. QED
      BY <1>2, <2>1, <2>2
<1>6. Pending' # {}
    BY <1>2, <1>4 DEF Pending
<1>7. Counting'
    BY <1>2, <1>3, <1>5, <1>6 DEF Accounting, Quiescent, Counting, NoPost
<1>8. Quiescent' /\ Semaphores' /\ Pushing'
    BY DEF Accounting, Quiescent, Semaphores, Pushing
<1>9. QED
    BY <1>7, <1>8 DEF Accounting

LEMMA AccountingWake ==
  ASSUME TypeOK, Accounting, Wake
  PROVE  Accounting'
<1> USE DEF Wake, stackVars, workerVars, Handed, Stops, Idle
<1>1. threadIdx \in Workers /\ threadIdx \in ToWake
    BY ThreadCountAssumption
    DEF TypeOK, Accounting, Counting, Workers, ToWake
<1>2. threadIdx \notin Owing /\ NoPost /\ mWaitSema = 0
    BY <1>1 DEF Accounting, Counting, Pending
<1>3. mSema[threadIdx] = 0 /\ wpc[threadIdx] \in Idle
    BY <1>1, <1>2
    DEF Owing, NoPost, TypeOK, Accounting, Semaphores, WorkerPcs, Popping
<1>4. Owing' = Owing \cup {threadIdx}
    BY <1>1, <1>3 DEF Owing, TypeOK
<1>5. ToWake' = ToWake \ {threadIdx}
    BY <1>1 DEF ToWake, TypeOK, Workers, Accounting, Counting
<1>6. Pending' = Pending
    BY <1>1, <1>4, <1>5 DEF Pending
<1>7. Pending # {} /\ NoPost'
    BY <1>1, <1>2 DEF Pending, NoPost
<1>8. Counting'
    BY <1>1, <1>2, <1>4, <1>5, <1>6, <1>7 DEF TypeOK, Accounting, Counting
<1>9. Semaphores'
    BY <1>1, <1>3 DEF TypeOK, Accounting, Semaphores
<1>10. Quiescent' /\ Pushing'
    BY DEF Accounting, Quiescent, Pushing
<1>11. QED
    BY <1>8, <1>9, <1>10 DEF Accounting

\* Once the audio thread is released nobody owes a report.
LEMMA ReleasedWhenAllReported ==
  ASSUME TypeOK, Accounting, WaitSema
  PROVE  /\ Pending = {} /\ mWaitSema = 1 /\ NoPost
         /\ \A w \in Workers : wpc[w] \in Idle /\ mSema[w] = 0
<1>1. Pending = {} /\ mWaitSema = 1 /\ NoPost
    BY DEF TypeOK, WaitSema, Accounting, Counting, Handed
<1>2. QED
    BY <1>1
    DEF Pending, Owing, NoPost, TypeOK, WaitSema, Accounting, Semaphores, Idle,
        Popping, WorkerPcs, Stops

LEMMA AccountingWaitSema ==
  ASSUME TypeOK, Accounting, WaitSema
  PROVE  Accounting'
<1> USE DEF WaitSema, stackVars, workerVars, Handed, Stops, Idle
<1>0. /\ Pending = {} /\ mWaitSema = 1
      /\ \A w \in Workers : wpc[w] \in Idle /\ mSema[w] = 0
    BY ReleasedWhenAllReported
<1>1. Quiescent' /\ Semaphores'
    BY <1>0 DEF Accounting, Quiescent, Semaphores
<1>2. mRequestCount = 0
    BY <1>0, FS_EmptySet DEF Accounting, Counting
<1>3. Counting' /\ Pushing'
    BY <1>2 DEF Accounting, Counting, Pushing
<1>4. QED
    BY <1>1, <1>3 DEF Accounting

LEMMA AccountingStop ==
  ASSUME TypeOK, Accounting, StopThread \/ JoinThread
  PROVE  Accounting'
  BY DEF StopThread, JoinThread, TypeOK, Accounting, Quiescent, Semaphores,
         Counting, Pushing, Handed, Stops, stackVars, workerVars, semVars

LEMMA AccountingSemaWait ==
  ASSUME TypeOK, Accounting, NEW w \in Workers, SemaWait(w)
  PROVE  Accounting'
<1> USE DEF SemaWait, mainVars, stackVars, Handed, Stops, Idle
<1>1. Owing' = Owing
    BY DEF Owing, TypeOK, Popping
<1>2. ToWake' = ToWake /\ Pending' = Pending
    BY <1>1 DEF ToWake, Pending
<1>3. (NoPost' <=> NoPost) /\ (OnePost' <=> OnePost)
    BY DEF NoPost, OnePost, TypeOK
<1>4. Counting'
    BY <1>1, <1>2, <1>3 DEF Accounting, Counting
<1>5. Semaphores'
    BY DEF TypeOK, Accounting, Semaphores
<1>6. Quiescent' /\ Pushing'
    BY DEF TypeOK, Accounting, Quiescent, Pushing
<1>7. QED
    BY <1>4, <1>5, <1>6 DEF Accounting

LEMMA AccountingNotify ==
  ASSUME TypeOK, Accounting, NEW w \in Workers, Notify(w)
  PROVE  Accounting'
<1> USE DEF Notify, mainVars, stackVars, Handed, Stops, Idle
<1>1. Quiescent' /\ Pushing'
    BY DEF TypeOK, Accounting, Quiescent, Pushing
<1>2. Semaphores'
    BY DEF TypeOK, Accounting, Semaphores
<1>3. CASE mainPc \notin Handed
    BY <1>1, <1>2, <1>3 DEF TypeOK, Accounting, Counting
<1>4. CASE mainPc \in Handed
  <2>1. w \in Owing /\ w \in Pending /\ w \notin ToWake
      BY <1>4 DEF Owing, Pending, Accounting, Counting
  <2>2. mSema[w] = 0
      BY <1>4 DEF TypeOK, Accounting, Semaphores
  <2>3. Owing' = Owing \ {w} /\ ToWake' = ToWake
      BY <2>2 DEF Owing, ToWake, TypeOK, Popping
  <2>4. Pending' = Pending \ {w}
      BY <2>1, <2>3 DEF Pending
  <2>5. Pending \in SUBSET Workers
      BY DEF Pending, Owing, ToWake
  <2>6. Cardinality(Pending \ {w}) = Cardinality(Pending) - 1
      BY <2>1, <2>5, FiniteWorkers, FS_RemoveElement
  <2>7. mWaitSema = 0 /\ NoPost /\ mRequestCount' = Cardinality(Pending')
      BY <1>4, <2>1, <2>4, <2>6 DEF Accounting, Counting
  <2>8. mRequestCount' = 0 <=> Pending' = {}
      BY <2>4, <2>5, <2>7, FiniteWorkers
  <2>9. Pending' = {} => OnePost'
      BY <2>7, <2>8 DEF NoPost, OnePost, TypeOK
  <2>10. Pending' # {} => NoPost'
      BY <2>7, <2>8 DEF NoPost, TypeOK
  <2>11. Counting'
      BY <1>4, <2>3, <2>7, <2>9, <2>10 DEF Accounting, Counting
  <2>12. QED
      BY <1>1, <1>2, <2>11 DEF Accounting
<1>5. QED
    BY <1>3, <1>4

LEMMA AccountingPostWait ==
  ASSUME TypeOK, Accounting, NEW w \in Workers, PostWait(w)
  PROVE  Accounting'
<1> USE DEF PostWait, mainVars, stackVars, Handed, Stops, Idle
<1>1. Quiescent' /\ Pushing'
    BY DEF TypeOK, Accounting, Quiescent, Pushing
<1>2. Semaphores'
    BY DEF TypeOK, Accounting, Semaphores
<1>3. Owing' = Owing /\ ToWake' = ToWake /\ Pending' = Pending
    BY DEF Owing, ToWake, Pending, TypeOK, Popping
<1>4. OnePost => NoPost'
    BY DEF OnePost, NoPost, TypeOK
<1>5. ~NoPost
    BY DEF NoPost
<1>6. Counting'
    BY <1>3, <1>4, <1>5 DEF TypeOK, Accounting, Counting
<1>7. QED
    BY <1>1, <1>2, <1>6 DEF Accounting

LEMMA AccountingLoopCheck ==
  ASSUME TypeOK, Accounting, NEW w \in Workers, LoopCheck(w)
  PROVE  Accounting'
<1> USE DEF LoopCheck, mainVars, stackVars, semVars, Handed, Stops, Idle
<1>1. Quiescent' /\ Pushing'
    BY DEF TypeOK, Accounting, Quiescent, Semaphores, Pushing
<1>2. Semaphores'
    BY DEF TypeOK, Accounting, Semaphores
<1>3. Owing' = Owing /\ ToWake' = ToWake /\ Pending' = Pending
    BY DEF Owing, ToWake, Pending, TypeOK, Popping
<1>4. (NoPost' <=> NoPost) /\ (OnePost' <=> OnePost)
    BY DEF NoPost, OnePost, TypeOK
<1>5. Counting'
    BY <1>3, <1>4 DEF Accounting, Counting
<1>6. QED
    BY <1>1, <1>2, <1>5 DEF Accounting

LEMMA AccountingStep == TypeOK /\ Accounting /\ [Next]_vars => Accounting'
<1> SUFFICES ASSUME TypeOK, Accounting, [Next]_vars PROVE Accounting'
    OBVIOUS
<1>1. ASSUME NEW w \in Workers,
             PopLoad(w) \/ PopReadNext(w) \/ PopCas(w) \/ PopRetry(w)
               \/ PopTake(w) \/ RunTask(w)
      PROVE  Accounting'
  <2>1. PICK pc \in Popping \cup {"notify"} : wpc' = [wpc EXCEPT ![w] = pc]
      BY <1>1
      DEF PopLoad, PopReadNext, PopCas, PopRetry, PopTake, RunTask, Popping
  <2>2. wpc[w] \in Popping /\ UNCHANGED <<mainVars, semVars>>
      BY <1>1
      DEF PopLoad, PopReadNext, PopCas, PopRetry, PopTake, RunTask, Popping
  <2>3. QED
      BY <2>1, <2>2, MoveInLoop
<1>2. CASE UNCHANGED vars
    BY <1>2
    DEF vars, mainVars, workerVars, semVars, Accounting, Quiescent, Semaphores,
        Counting, Pushing, Pending, Owing, ToWake, NoPost, OnePost
<1>3. QED
    BY <1>1, <1>2, AccountingAddTask, AccountingGatherAndPush,
       AccountingSetRequestCount, AccountingWake, AccountingWaitSema,
       AccountingStop, AccountingSemaWait, AccountingNotify,
       AccountingPostWait, AccountingLoopCheck
    DEF Next, MainStep, WorkerStep, Destroyed

LEMMA StoppingStep ==
  TypeOK /\ Accounting /\ Stopping /\ [Next]_vars => Stopping'
<1> SUFFICES ASSUME TypeOK, Accounting, Stopping, [Next]_vars, mainPc' \in Stops
             PROVE  Stopping'
    BY DEF Stopping
<1> USE DEF Stops, mainVars, stackVars, workerVars, semVars
<1>1. CASE Destroy
    BY <1>1 DEF Destroy, Accounting, Quiescent, Stopping, NoPost, Handed, Idle
<1>2. CASE StopThread
    BY <1>2, ThreadCountAssumption DEF StopThread, Stopping, NoPost, TypeOK, Workers
<1>3. CASE JoinThread
    BY <1>3, ThreadCountAssumption DEF JoinThread, Stopping, NoPost, TypeOK, Workers
<1>4. ASSUME NEW w \in Workers, SemaWait(w) PROVE Stopping'
    BY <1>4 DEF SemaWait, Stopping, NoPost, TypeOK
<1>5. ASSUME NEW w \in Workers, Notify(w) PROVE Stopping'
  <2>1. mRequestCount - 1 # 0
      BY <1>5 DEF Notify, Accounting, Counting, Handed, TypeOK
  <2>2. QED
      BY <1>5, <2>1 DEF Notify, Stopping, NoPost, TypeOK
<1>6. ASSUME NEW w \in Workers, PostWait(w) PROVE FALSE
    BY <1>6 DEF PostWait, Stopping, NoPost
<1>7. ASSUME NEW w \in Workers,
             \/ PopLoad(w) \/ PopReadNext(w) \/ PopCas(w) \/ PopRetry(w)
             \/ PopTake(w) \/ RunTask(w) \/ LoopCheck(w)
      PROVE  Stopping'
    BY <1>7 DEF PopLoad, PopReadNext, PopCas, PopRetry, PopTake, RunTask, LoopCheck,
                Stopping, NoPost, TypeOK
<1>8. CASE UNCHANGED vars
    BY <1>8 DEF vars, Stopping, NoPost
<1>9. ASSUME \/ WaitForTasks \/ PushLoad \/ PushCas \/ SetRequestCount
             \/ Wake \/ WaitSema \/ MixToBus \/ \E t \in Tasks : AddTask(t)
      PROVE  FALSE
    BY <1>9 DEF WaitForTasks, PushLoad, PushCas, SetRequestCount, Wake, WaitSema, MixToBus,
                AddTask
<1>10. QED
    BY <1>1, <1>2, <1>3, <1>4, <1>5, <1>6, <1>7, <1>8, <1>9
    DEF Next, MainStep, WorkerStep, Destroyed

-----------------------------------------------------------------------------
(* The linked list.                                                        *)

\* The list is empty exactly when its head is null.
LEMMA ListHead ==
  ASSUME IsList
  PROVE  /\ head # NULL => head \in Linked
         /\ head = NULL => Linked = {}
<1>0. PICK k \in Nat : \E s \in [1 .. k -> Nodes] : Chain(k, s)
    BY DEF IsList
<1>1. PICK s \in [1 .. k -> Nodes] : Chain(k, s)
    BY <1>0
<1>2. CASE k = 0
    BY <1>1, <1>2 DEF Chain
<1>3. CASE k # 0
  <2>1. 1 \in 1 .. k
      BY <1>3
  <2>2. head = s[1] /\ s[1] \in Nodes /\ s[1] \in Linked
      BY <1>1, <1>3, <2>1 DEF Chain
  <2>3. QED
      BY <2>2, NullAssumption
<1>4. QED
    BY <1>2, <1>3

LEMMA SameList ==
  ASSUME IsList, head' = head, Linked' = Linked,
         \A n \in Linked : node'[n].next = node[n].next
  PROVE  IsList'
<1>0. PICK k \in Nat : \E s \in [1 .. k -> Nodes] : Chain(k, s)
    BY DEF IsList
<1>1. PICK s \in [1 .. k -> Nodes] : Chain(k, s)
    BY <1>0
<1>2. Chain(k, s)'
    BY <1>1 DEF Chain
<1>3. QED
    BY <1>2 DEF IsList

\* Publishing a node whose next is the head puts it in front.
LEMMA ListPush ==
  ASSUME IsList, NEW n \in Nodes, n \notin Linked,
         node[n].next = head, node' = node, head' = n,
         Linked' = Linked \cup {n}
  PROVE  IsList'
<1>0. PICK k \in Nat : \E s \in [1 .. k -> Nodes] : Chain(k, s)
    BY DEF IsList
<1>1. PICK s \in [1 .. k -> Nodes] : Chain(k, s)
    BY <1>0
<1> DEFINE t == [i \in 1 .. k + 1 |-> IF i = 1 THEN n ELSE s[i - 1]]
<1>2. t \in [1 .. k + 1 -> Nodes]
    OBVIOUS
<1>3. t[1] = n /\ \A i \in 1 .. k : t[i + 1] = s[i]
    OBVIOUS
<1>4. \A i \in 1 .. k + 1 : i = 1 \/ (i - 1 \in 1 .. k /\ t[i] = s[i - 1])
    OBVIOUS
<1> HIDE DEF t
<1>5. head' = t[1]
    BY <1>3
<1>6. \A i \in 1 .. k + 1 :
        node'[t[i]].next = IF i = k + 1 THEN NULL ELSE t[i + 1]
  <2> TAKE i \in 1 .. k + 1
  <2>1. CASE i = 1
      BY <1>1, <1>3, <2>1 DEF Chain
  <2>2. CASE i # 1
    <3>1. i - 1 \in 1 .. k /\ t[i] = s[i - 1]
        BY <1>4, <2>2
    <3>2. node[s[i - 1]].next = IF i - 1 = k THEN NULL ELSE s[i]
        BY <1>1, <3>1 DEF Chain
    <3>3. i - 1 # k => i \in 1 .. k /\ t[i + 1] = s[i]
        BY <1>3, <3>1
    <3>4. QED
        BY <3>1, <3>2, <3>3
  <2>3. QED
      BY <2>1, <2>2
<1>7. \A i \in 1 .. k + 1 : t[i] \in Linked'
    BY <1>1, <1>3, <1>4 DEF Chain
<1>8. \A i, j \in 1 .. k + 1 : t[i] = t[j] => i = j
    BY <1>1, <1>3, <1>4 DEF Chain
<1>9. \A m \in Linked' : \E i \in 1 .. k + 1 : t[i] = m
  <2> TAKE m \in Linked'
  <2>1. CASE m = n
      BY <1>3, <2>1
  <2>2. CASE m \in Linked
    <3>1. PICK i \in 1 .. k : s[i] = m
        BY <1>1, <2>2 DEF Chain
    <3>2. t[i + 1] = m /\ i + 1 \in 1 .. k + 1
        BY <1>3, <3>1
    <3>3. QED
        BY <3>2
  <2>3. QED
      BY <2>1, <2>2
<1>10. Chain(k + 1, t)'
    BY <1>5, <1>6, <1>7, <1>8, <1>9 DEF Chain
<1>11. QED
    BY <1>2, <1>10 DEF IsList

\* Moving the head to its successor takes the first node off.
LEMMA ListPop ==
  ASSUME IsList, head # NULL, node' = node, head' = node[head].next,
         Linked' = Linked \ {head}
  PROVE  IsList'
<1>0. PICK k \in Nat : \E s \in [1 .. k -> Nodes] : Chain(k, s)
    BY DEF IsList
<1>1. PICK s \in [1 .. k -> Nodes] : Chain(k, s)
    BY <1>0
<1>2. k # 0 /\ k - 1 \in Nat /\ 1 \in 1 .. k /\ head = s[1]
    BY <1>1 DEF Chain
<1> DEFINE t == [i \in 1 .. k - 1 |-> s[i + 1]]
<1>3. t \in [1 .. k - 1 -> Nodes]
    BY <1>2
<1>4. \A i \in 1 .. k - 1 : i + 1 \in 1 .. k /\ t[i] = s[i + 1]
    BY <1>2
<1> HIDE DEF t
<1>5. head' = IF k - 1 = 0 THEN NULL ELSE t[1]
  <2>1. node[s[1]].next = IF 1 = k THEN NULL ELSE s[2]
      BY <1>1, <1>2 DEF Chain
  <2>2. k # 1 => t[1] = s[2]
      BY <1>2, <1>4
  <2>3. QED
      BY <1>2, <2>1, <2>2
<1>6. \A i \in 1 .. k - 1 :
        node'[t[i]].next = IF i = k - 1 THEN NULL ELSE t[i + 1]
  <2> TAKE i \in 1 .. k - 1
  <2>1. node[s[i + 1]].next = IF i + 1 = k THEN NULL ELSE s[(i + 1) + 1]
      BY <1>1, <1>4 DEF Chain
  <2>2. i + 1 # k => t[i + 1] = s[(i + 1) + 1]
      BY <1>2, <1>4
  <2>3. QED
      BY <1>2, <1>4, <2>1, <2>2
<1>7. \A i \in 1 .. k - 1 : t[i] \in Linked'
    BY <1>1, <1>2, <1>4 DEF Chain
<1>8. \A i, j \in 1 .. k - 1 : t[i] = t[j] => i = j
    BY <1>1, <1>2, <1>4 DEF Chain
<1>9. \A m \in Linked' : \E i \in 1 .. k - 1 : t[i] = m
  <2> TAKE m \in Linked'
  <2>1. PICK i \in 1 .. k : s[i] = m
      BY <1>1 DEF Chain
  <2>2. i # 1
      BY <1>2, <2>1
  <2>3. i - 1 \in 1 .. k - 1 /\ t[i - 1] = m
      BY <1>2, <1>4, <2>1, <2>2
  <2>4. QED
      BY <2>3
<1>10. Chain(k - 1, t)'
    BY <1>2, <1>5, <1>6, <1>7, <1>8, <1>9 DEF Chain
<1>11. QED
    BY <1>2, <1>3, <1>10 DEF IsList

-----------------------------------------------------------------------------
(* Contents: steps of the audio thread.                                    *)

LEMMA ContentsInit == Init => Contents
<1> SUFFICES ASSUME Init PROVE Contents
    OBVIOUS
<1> USE DEF Init
<1>1. Ran = {}
    BY DEF Ran
<1>2. IsList
  <2>1. Chain(0, [i \in 1 .. 0 |-> NULL])
      BY DEF Chain, Linked
  <2>2. [i \in 1 .. 0 |-> NULL] \in [1 .. 0 -> Nodes]
      OBVIOUS
  <2>3. QED
      BY <2>1, <2>2 DEF IsList
<1>3. NodeDeletedOnce /\ TaskRunsOnce /\ Registers /\ Places /\ NoneLost
    BY <1>1 DEF NodeDeletedOnce, TaskRunsOnce, Registers, Places, NoneLost
<1>4. Reported
    BY <1>1 DEF Reported, Handed, Stops
<1>5. QED
    BY <1>2, <1>3, <1>4 DEF Contents

LEMMA ContentsAddTask ==
  ASSUME TypeOK, Accounting, Contents, NEW t \in Tasks, AddTask(t)
  PROVE  Contents'
<1> USE DEF AddTask, stackVars, workerVars, semVars
<1>1. \A w \in Workers : wpc[w] \in Idle /\ wpc'[w] \in Idle
    BY DEF Accounting, Quiescent, Handed, Stops
<1>2. NodeDeletedOnce' /\ TaskRunsOnce'
    BY <1>1 DEF NodeDeletedOnce, TaskRunsOnce, Idle
<1>3. Linked' = Linked
    BY DEF Linked, Taken, Private
<1>4. IsList'
    BY <1>3, SameList DEF Contents
<1>5. Ran' = Ran
    BY DEF Ran
<1>6. Registers' /\ Reported'
    BY <1>1, <1>5 DEF Contents, Registers, Reported, Handed, Stops
<1>7. Places' /\ NoneLost'
    BY <1>1, <1>5 DEF Contents, Places, NoneLost, Reported, Idle
<1>8. QED
    BY <1>2, <1>4, <1>6, <1>7 DEF Contents

LEMMA ContentsWaitForTasks ==
  ASSUME TypeOK, Accounting, Contents, WaitForTasks
  PROVE  Contents'
<1> USE DEF WaitForTasks, stackVars, workerVars, semVars
<1>1. \A w \in Workers : wpc[w] \in Idle /\ wpc'[w] \in Idle
    BY DEF Accounting, Quiescent, Handed, Stops
<1>2. NodeDeletedOnce' /\ TaskRunsOnce'
    BY <1>1 DEF NodeDeletedOnce, TaskRunsOnce, Idle
<1>3. Linked' = Linked
    BY DEF Linked, Taken, Private
<1>4. IsList'
    BY <1>3, SameList DEF Contents
<1>5. Ran' = Ran
    BY DEF Ran
<1>6. Registers' /\ Reported'
    BY <1>1, <1>5 DEF Contents, Registers, Reported, Handed, Stops
<1>7. Places' /\ NoneLost'
    BY <1>5 DEF Contents, Places, NoneLost
<1>8. QED
    BY <1>2, <1>4, <1>6, <1>7 DEF Contents

LEMMA ContentsPushLoad ==
  ASSUME TypeOK, Accounting, Contents, PushLoad
  PROVE  Contents'
<1> USE DEF stackVars, workerVars, semVars
<1>1. \A w \in Workers : wpc[w] \in Idle /\ wpc'[w] \in Idle
    BY DEF PushLoad, Accounting, Quiescent, Handed, Stops
<1>2. NodeDeletedOnce' /\ TaskRunsOnce'
    BY <1>1 DEF NodeDeletedOnce, TaskRunsOnce, Idle
<1>3. PICK t \in mTaskHead, n \in Nodes \ alloc :
        /\ newNode' = n
        /\ alloc' = alloc \cup {n}
        /\ node' = [node EXCEPT ![n] = [data |-> t, next |-> head]]
        /\ mTaskHead' = mTaskHead \ {t}
    BY DEF PushLoad
<1>4. node'[n].data = t /\ \A m \in alloc : node'[m] = node[m]
    BY <1>3 DEF TypeOK
<1>5. Linked' = Linked
    BY <1>1, <1>3 DEF PushLoad, Linked, Taken, Private, Idle
<1>6. IsList'
    BY <1>4, <1>5, SameList DEF PushLoad, Contents, Linked
<1>7. Ran' = Ran
    BY DEF PushLoad, Ran
<1>8. Registers' /\ Reported'
    BY <1>1, <1>3, <1>7
    DEF PushLoad, Contents, Registers, Reported, Handed, Stops, Idle
<1>9. Places'
    BY <1>1, <1>3, <1>4, <1>7 DEF PushLoad, Contents, Places, Idle
<1>10. NoneLost'
  <2> SUFFICES ASSUME NEW u \in instruments
               PROVE  \/ u \in mTaskHead' \cup Ran
                      \/ \E m \in alloc' : node'[m].data = u
      BY <1>7 DEF PushLoad, NoneLost
  <2>1. \/ u \in mTaskHead \cup Ran
        \/ \E m \in alloc : node[m].data = u
      BY <1>1 DEF Contents, NoneLost, Idle
  <2>2. QED
      BY <1>3, <1>4, <2>1
<1>11. QED
    BY <1>2, <1>6, <1>8, <1>9, <1>10 DEF Contents

LEMMA ContentsPushCas ==
  ASSUME TypeOK, Accounting, Contents, PushCas
  PROVE  Contents'
<1> USE DEF PushCas, workerVars, semVars
<1>1. \A w \in Workers : wpc[w] \in Idle /\ wpc'[w] \in Idle
    BY DEF Accounting, Quiescent, Handed, Stops
<1>2. NodeDeletedOnce' /\ TaskRunsOnce'
    BY <1>1 DEF NodeDeletedOnce, TaskRunsOnce, Idle
<1>3. newNode \in alloc /\ newNode \in Nodes /\ newNode \notin Linked
    BY DEF TypeOK, Contents, Registers, Linked, Private
<1>4. Ran' = Ran
    BY DEF Ran
<1>5. \A n \in alloc : node'[n].data = node[n].data
    BY DEF TypeOK
<1>6. Registers' /\ Reported'
    BY <1>1, <1>4
    DEF Contents, Registers, Reported, Handed, Stops, Idle
<1>7. Places' /\ NoneLost'
    BY <1>1, <1>4, <1>5 DEF Contents, Places, NoneLost, Idle
<1>8. IsList'
  <2>1. CASE head = node[newNode].next /\ head' = newNode /\ mainPc' = "push"
             /\ UNCHANGED node
    <3>1. Linked' = Linked \cup {newNode}
        BY <1>1, <1>3, <2>1 DEF Linked, Taken, Private, Idle
    <3>2. QED
        BY <1>3, <2>1, <3>1, ListPush DEF Contents
  <2>2. CASE node' = [node EXCEPT ![newNode].next = head]
             /\ UNCHANGED <<head, mainPc>>
    <3>1. Linked' = Linked
        BY <2>2 DEF Linked, Taken, Private
    <3>2. \A n \in Linked : node'[n].next = node[n].next
        BY <1>3, <2>2 DEF TypeOK, Linked
    <3>3. QED
        BY <2>2, <3>1, <3>2, SameList DEF Contents
  <2>3. QED
      BY <2>1, <2>2
<1>9. QED
    BY <1>2, <1>6, <1>7, <1>8 DEF Contents

LEMMA ContentsSetRequestCount ==
  ASSUME TypeOK, Accounting, Contents, SetRequestCount
  PROVE  Contents'
<1> USE DEF SetRequestCount, stackVars, workerVars
<1>1. \A w \in Workers : wpc[w] \in Idle /\ wpc'[w] \in Idle
    BY DEF Accounting, Quiescent, Handed, Stops
<1>2. NodeDeletedOnce' /\ TaskRunsOnce'
    BY <1>1 DEF NodeDeletedOnce, TaskRunsOnce, Idle
<1>3. Linked' = Linked
    BY DEF Linked, Taken, Private
<1>4. IsList'
    BY <1>3, SameList DEF Contents
<1>5. Ran' = Ran
    BY DEF Ran
<1>6. Registers' /\ Places' /\ NoneLost'
    BY <1>5 DEF Contents, Registers, Places, NoneLost
<1>7. \A w \in Workers : w < count' => w \in Pending'
    BY DEF Pending, ToWake, TypeOK, Workers
<1>8. Reported'
    BY <1>1, <1>7 DEF Reported, Handed, Stops, Idle
<1>9. QED
    BY <1>2, <1>4, <1>6, <1>8 DEF Contents

LEMMA ContentsWake ==
  ASSUME TypeOK, Accounting, Contents, Wake
  PROVE  Contents'
<1> USE DEF Wake, stackVars, workerVars
<1>1. NodeDeletedOnce' /\ TaskRunsOnce'
    BY DEF Contents, NodeDeletedOnce, TaskRunsOnce, Ran
<1>2. Linked' = Linked
    BY DEF Linked, Taken, Private
<1>3. IsList'
    BY <1>2, SameList DEF Contents
<1>4. Ran' = Ran
    BY DEF Ran
<1>5. Registers' /\ Places' /\ NoneLost'
    BY <1>4 DEF Contents, Registers, Places, NoneLost
<1>6. \A w \in Workers : w \in Pending => w \in Pending'
    BY DEF Pending, ToWake, Owing, TypeOK, Workers
<1>7. Reported'
    BY <1>6 DEF Contents, Reported, Handed, Stops
<1>8. QED
    BY <1>1, <1>3, <1>5, <1>7 DEF Contents

\* When the audio thread is released every task of the batch has run.
LEMMA ContentsWaitSema ==
  ASSUME TypeOK, Accounting, Contents, WaitSema
  PROVE  Contents'
<1> USE DEF WaitSema, stackVars, workerVars
<1>1. \A w \in Workers : wpc[w] \in Idle /\ wpc'[w] \in Idle
    BY ReleasedWhenAllReported
<1>2. NodeDeletedOnce' /\ TaskRunsOnce'
    BY <1>1 DEF NodeDeletedOnce, TaskRunsOnce, Idle
<1>3. Linked' = Linked
    BY DEF Linked, Taken, Private
<1>4. IsList'
    BY <1>3, SameList DEF Contents
<1>5. Ran' = Ran
    BY DEF Ran
<1>6. Registers' /\ Places' /\ NoneLost'
    BY <1>5 DEF Contents, Registers, Places, NoneLost
<1>7. head = NULL
  <2>1. 0 \in Workers /\ 0 < count /\ 0 \notin Pending
      BY ReleasedWhenAllReported, ThreadCountAssumption
      DEF Accounting, Counting, Handed, Workers
  <2>2. QED
      BY <2>1 DEF Contents, Reported, Handed
<1>8. alloc = {}
  <2>1. Linked = {}
      BY <1>7, ListHead DEF Contents
  <2>2. \A n : ~Taken(n) /\ ~Private(n)
      BY <1>1 DEF Taken, Private, Idle
  <2>3. QED
      BY <2>1, <2>2 DEF Linked
<1>9. Ran = instruments
  <2>1. mTaskHead = {}
      BY DEF Accounting, Pushing
  <2>2. \A t \in instruments : t \in Ran
      BY <1>1, <1>8, <2>1 DEF Contents, NoneLost, Idle
  <2>3. QED
      BY <2>2 DEF Contents, Places
<1>10. Reported'
    BY <1>1, <1>5, <1>7, <1>8, <1>9 DEF Reported, Handed, Stops
<1>11. QED
    BY <1>2, <1>4, <1>6, <1>10 DEF Contents

LEMMA ContentsMixToBus ==
  ASSUME TypeOK, Accounting, Contents, MixToBus
  PROVE  Contents'
<1> USE DEF MixToBus, stackVars, workerVars, semVars
<1>1. \A w \in Workers : wpc[w] \in Idle /\ wpc'[w] \in Idle
    BY DEF Accounting, Quiescent, Handed, Stops
<1>2. NodeDeletedOnce' /\ TaskRunsOnce'
    BY <1>1 DEF NodeDeletedOnce, TaskRunsOnce, Idle
<1>3. head = NULL /\ alloc = {} /\ mTaskHead = {}
    BY DEF Contents, Reported, Accounting, Pushing
<1>4. Linked' = Linked
    BY <1>3 DEF Linked, Taken, Private
<1>5. IsList'
    BY <1>4, SameList DEF Contents
<1>6. Ran' = {}
    BY DEF Ran
<1>7. Registers' /\ Places' /\ NoneLost'
    BY <1>1, <1>3, <1>6 DEF Registers, Places, NoneLost, Idle
<1>8. Reported'
    BY <1>1, <1>3, <1>6 DEF Reported, Handed, Stops
<1>9. QED
    BY <1>2, <1>5, <1>7, <1>8 DEF Contents

LEMMA ContentsDestroy ==
  ASSUME TypeOK, Accounting, Contents, Destroy \/ StopThread \/ JoinThread
  PROVE  Contents'
<1> USE DEF Destroy, StopThread, JoinThread, stackVars, workerVars, semVars
<1>1. /\ head = NULL /\ alloc = {} /\ mTaskHead = {} /\ instruments = {}
      /\ \A w \in Workers : wpc[w] \notin {"next", "cas", "take", "run"}
    BY DEF Contents, Reported, Accounting, Pushing, Quiescent, Handed, Stops,
           Idle
<1>2. Ran = {} /\ Ran' = {}
    BY DEF Contents, Reported, Ran, Stops
<1>3. NodeDeletedOnce' /\ TaskRunsOnce'
    BY <1>1 DEF NodeDeletedOnce, TaskRunsOnce
<1>4. Linked' = Linked
    BY <1>1 DEF Linked
<1>5. IsList'
    BY <1>4, SameList DEF Contents
<1>6. Registers' /\ Places' /\ NoneLost'
    BY <1>1, <1>2 DEF Registers, Places, NoneLost
<1>7. Reported'
    BY <1>1, <1>2 DEF Reported, Handed, Stops
<1>8. QED
    BY <1>3, <1>5, <1>6, <1>7 DEF Contents

-----------------------------------------------------------------------------
(* Contents: steps of a worker.                                            *)

LEMMA ContentsSemaWait ==
  ASSUME TypeOK, Accounting, Contents, NEW w \in Workers, SemaWait(w)
  PROVE  Contents'
<1> USE DEF SemaWait, mainVars, stackVars
<1>1. NodeDeletedOnce' /\ TaskRunsOnce'
    BY DEF TypeOK, Contents, NodeDeletedOnce, TaskRunsOnce, Ran
<1>2. Linked' = Linked
    BY DEF TypeOK, Linked, Taken, Private
<1>3. IsList'
    BY <1>2, SameList DEF Contents
<1>4. Ran' = Ran
    BY DEF Ran
<1>5. Registers' /\ Places' /\ NoneLost'
    BY <1>4 DEF TypeOK, Contents, Registers, Places, NoneLost
<1>6. Pending' = Pending
    BY DEF Pending, ToWake, Owing, TypeOK, Popping
<1>7. Reported'
    BY <1>4, <1>6 DEF TypeOK, Contents, Reported, Handed, Stops
<1>8. QED
    BY <1>1, <1>3, <1>5, <1>7 DEF Contents

\* pop_atomic's load, and its reload after a failed compare-exchange.
LEMMA ContentsPopLoad ==
  ASSUME TypeOK, Accounting, Contents, NEW w \in Workers,
         PopLoad(w) \/ PopRetry(w)
  PROVE  Contents'
<1> USE DEF PopLoad, PopRetry, mainVars, stackVars, semVars
<1>1. NodeDeletedOnce' /\ TaskRunsOnce'
    BY DEF TypeOK, Contents, NodeDeletedOnce, TaskRunsOnce, Ran
<1>2. Linked' = Linked
    BY DEF TypeOK, Linked, Taken, Private
<1>3. IsList'
    BY <1>2, SameList DEF Contents
<1>4. Ran' = Ran
    BY DEF Ran
<1>5. Registers' /\ Places' /\ NoneLost'
    BY <1>4 DEF TypeOK, Contents, Registers, Places, NoneLost
<1>6. Pending' = Pending
    BY DEF Pending, ToWake, Owing, TypeOK, Popping
<1>7. Reported'
    BY <1>4, <1>6 DEF TypeOK, Contents, Reported, Handed, Stops
<1>8. QED
    BY <1>1, <1>3, <1>5, <1>7 DEF Contents

LEMMA ContentsPopReadNext ==
  ASSUME TypeOK, Accounting, Contents, NEW w \in Workers, PopReadNext(w)
  PROVE  Contents'
<1> USE DEF PopReadNext, mainVars, stackVars, semVars
<1>1. NodeDeletedOnce' /\ TaskRunsOnce'
    BY DEF TypeOK, Contents, NodeDeletedOnce, TaskRunsOnce, Ran
<1>2. Linked' = Linked
    BY DEF TypeOK, Linked, Taken, Private
<1>3. IsList'
    BY <1>2, SameList DEF Contents
<1>4. Ran' = Ran
    BY DEF Ran
<1>5. Places' /\ NoneLost'
    BY <1>4 DEF TypeOK, Contents, Places, NoneLost
<1>6. Registers'
    BY DEF TypeOK, Contents, Registers
<1>7. Pending' = Pending
    BY DEF Pending, ToWake, Owing, TypeOK, Popping
<1>8. Reported'
    BY <1>4, <1>7 DEF TypeOK, Contents, Reported, Handed, Stops
<1>9. QED
    BY <1>1, <1>3, <1>5, <1>6, <1>8 DEF Contents

LEMMA ContentsPopCas ==
  ASSUME TypeOK, Accounting, Contents, NEW w \in Workers, PopCas(w)
  PROVE  Contents'
<1> USE DEF PopCas, mainVars, semVars
<1>1. head # NULL /\ head = oldHead[w] /\ head \in Linked
    BY ListHead DEF Contents, Registers
<1>2. head' = node[head].next
    BY <1>1 DEF Contents, Registers, Linked
<1>3. \A n : Taken(n)' <=> Taken(n) \/ n = head
    BY <1>1 DEF Taken, TypeOK
<1>4. Linked' = Linked \ {head}
    BY <1>3 DEF Linked, Private
<1>5. IsList'
    BY <1>1, <1>2, <1>4, ListPop DEF Contents
<1>6. NodeDeletedOnce'
    BY <1>1 DEF TypeOK, Contents, NodeDeletedOnce, Linked, Taken
<1>7. Ran' = Ran
    BY DEF Ran
<1>8. TaskRunsOnce' /\ Registers' /\ Places' /\ NoneLost'
    BY <1>1, <1>7
    DEF TypeOK, Contents, TaskRunsOnce, Registers, Places, NoneLost
<1>9. Pending' = Pending
    BY DEF Pending, ToWake, Owing, TypeOK, Popping
<1>10. Reported'
    BY <1>1, <1>7, <1>9 DEF TypeOK, Contents, Reported, Handed, Stops
<1>11. QED
    BY <1>5, <1>6, <1>8, <1>10 DEF Contents

LEMMA ContentsPopTake ==
  ASSUME TypeOK, Accounting, Contents, NEW w \in Workers, PopTake(w)
  PROVE  Contents'
<1> USE DEF PopTake, mainVars, semVars
<1>1. /\ oldHead[w] \in alloc
      /\ \A v \in Workers \ {w} : wpc[v] = "take" => oldHead[v] # oldHead[w]
    BY DEF Contents, NodeDeletedOnce
<1>2. \A n \in alloc' : Taken(n)' <=> Taken(n)
    BY <1>1 DEF Taken, TypeOK
<1>3. Taken(oldHead[w])
    BY DEF Taken
<1>4. Linked' = Linked
    BY <1>2, <1>3 DEF Linked, Private
<1>5. IsList'
    BY <1>4, SameList DEF Contents
<1>6. Ran' = Ran
    BY DEF Ran
<1>7. NodeDeletedOnce'
    BY <1>1 DEF TypeOK, Contents, NodeDeletedOnce
<1>8. TaskRunsOnce'
    BY <1>1, <1>6 DEF TypeOK, Contents, TaskRunsOnce, Places
<1>9. mainPc \notin {"pushCas", "gather", "mix"} \cup Stops
    BY DEF Accounting, Quiescent, Contents, Reported, Idle, Handed, Stops
<1>10. Registers'
    BY <1>9 DEF TypeOK, Contents, Registers
<1>11. Places'
    BY <1>1, <1>6 DEF TypeOK, Contents, Places
<1>12. NoneLost'
  <2> SUFFICES ASSUME NEW t \in instruments
               PROVE  \/ t \in mTaskHead \cup Ran
                      \/ \E n \in alloc' : node[n].data = t
                      \/ \E v \in Workers : wpc'[v] = "run" /\ task'[v] = t
      BY <1>6 DEF NoneLost
  <2>1. CASE node[oldHead[w]].data = t
      BY <2>1 DEF TypeOK
  <2>2. CASE node[oldHead[w]].data # t
      BY <2>2 DEF TypeOK, Contents, NoneLost
  <2>3. QED
      BY <2>1, <2>2
<1>13. Pending' = Pending
    BY DEF Pending, ToWake, Owing, TypeOK, Popping
<1>14. Reported'
    BY <1>6, <1>9, <1>13 DEF TypeOK, Contents, Reported, Handed, Stops
<1>15. QED
    BY <1>5, <1>7, <1>8, <1>10, <1>11, <1>12, <1>14 DEF Contents

\* A task that has run moves from its worker's hand to the mix vectors.
LEMMA RanAfterRun ==
  ASSUME TypeOK, NEW w \in Workers, RunTask(w)
  PROVE  Ran' = Ran \cup {task[w]}
  BY DEF RunTask, Ran, TypeOK

LEMMA ContentsRunTask ==
  ASSUME TypeOK, Accounting, Contents, NEW w \in Workers, RunTask(w)
  PROVE  Contents'
<1> USE DEF RunTask, mainVars, stackVars, semVars
<1>1. Ran' = Ran \cup {task[w]}
    BY RanAfterRun
<1>2. /\ task[w] \in instruments \ Ran
      /\ \A v \in Workers \ {w} : wpc[v] = "run" => task[v] # task[w]
    BY DEF Contents, TaskRunsOnce
<1>3. NodeDeletedOnce' /\ TaskRunsOnce'
    BY <1>1, <1>2 DEF TypeOK, Contents, NodeDeletedOnce, TaskRunsOnce
<1>4. Linked' = Linked
    BY DEF TypeOK, Linked, Taken, Private
<1>5. IsList'
    BY <1>4, SameList DEF Contents
<1>6. Registers'
    BY DEF TypeOK, Contents, Registers
<1>7. Places'
    BY <1>1, <1>2 DEF TypeOK, Contents, Places
<1>8. NoneLost'
    BY <1>1 DEF TypeOK, Contents, NoneLost
<1>9. mainPc \in Handed
  <2>1. mainPc \notin {"gather", "push", "pushCas", "mix"} \cup Stops
      BY DEF Accounting, Quiescent, Contents, Reported, Idle, Handed, Stops
  <2>2. QED
      BY <2>1 DEF TypeOK, MainPcs, Handed, Stops
<1>10. Pending' = Pending
    BY DEF Pending, ToWake, Owing, TypeOK, Popping
<1>11. Reported'
    BY <1>9, <1>10 DEF TypeOK, Contents, Reported, Handed, Stops
<1>12. QED
    BY <1>3, <1>5, <1>6, <1>7, <1>8, <1>11 DEF Contents

\* notify(), the post and the loop test touch no task and no node.
LEMMA ContentsReport ==
  ASSUME TypeOK, Accounting, Contents, NEW w \in Workers,
         Notify(w) \/ PostWait(w) \/ LoopCheck(w)
  PROVE  Contents'
<1> USE DEF Notify, PostWait, LoopCheck, mainVars, stackVars, semVars
<1>1. NodeDeletedOnce' /\ TaskRunsOnce'
    BY DEF TypeOK, Contents, NodeDeletedOnce, TaskRunsOnce, Ran
<1>2. Linked' = Linked
    BY DEF TypeOK, Linked, Taken, Private
<1>3. IsList'
    BY <1>2, SameList DEF Contents
<1>4. Ran' = Ran
    BY DEF Ran
<1>5. Registers' /\ Places' /\ NoneLost'
    BY <1>4 DEF TypeOK, Contents, Registers, Places, NoneLost
<1>6. wpc[w] = "notify" \/ Pending' = Pending
    BY DEF Pending, ToWake, Owing, TypeOK, Popping
<1>7. \A v \in Workers \ {w} : v \in Pending <=> v \in Pending'
    BY DEF Pending, ToWake, Owing, TypeOK
<1>8. Reported'
    BY <1>4, <1>6, <1>7 DEF TypeOK, Contents, Reported, Handed, Stops
<1>9. QED
    BY <1>1, <1>3, <1>5, <1>8 DEF Contents

LEMMA ContentsStep ==
  TypeOK /\ Accounting /\ Contents /\ [Next]_vars => Contents'
<1> SUFFICES ASSUME TypeOK, Accounting, Contents, [Next]_vars PROVE Contents'
    OBVIOUS
<1>1. CASE UNCHANGED vars
  <2> USE <1>1 DEF vars, mainVars, stackVars, workerVars, semVars
  <2>1. Ran' = Ran /\ Linked' = Linked /\ Pending' = Pending
      BY DEF Ran, Linked, Taken, Private, Pending, Owing, ToWake
  <2>2. IsList'
      BY <2>1, SameList DEF Contents
  <2>3. QED
      BY <2>1, <2>2
      DEF Contents, NodeDeletedOnce, TaskRunsOnce, Registers, Places, NoneLost,
          Reported
<1>2. QED
    BY <1>1, ContentsAddTask, ContentsWaitForTasks, ContentsPushLoad,
       ContentsPushCas, ContentsSetRequestCount, ContentsWake,
       ContentsWaitSema, ContentsMixToBus, ContentsDestroy, ContentsSemaWait,
       ContentsPopLoad, ContentsPopReadNext, ContentsPopCas, ContentsPopTake,
       ContentsRunTask, ContentsReport
    DEF Next, MainStep, WorkerStep, Destroyed

-----------------------------------------------------------------------------
(* Theorems.                                                               *)

\* The inductive invariant: holds at first, is kept by every step.
THEOREM Invariance == Spec => []IInv
<1>1. Init => IInv
    BY TypeInit, AccountingInit, ContentsInit DEF IInv, Init, Stopping, Stops
<1>2. IInv /\ [Next]_vars => IInv'
    BY TypeStep, AccountingStep, StoppingStep, ContentsStep DEF IInv
<1>3. QED
    BY <1>1, <1>2, PTL DEF Spec

\* Every variable of the task pool keeps its type.
THEOREM TypeCorrect == Spec => []TypeOK
<1>1. IInv => TypeOK
    BY DEF IInv
<1>2. QED
    BY <1>1, Invariance, PTL

\* mixToBus runs only when every task of the batch has run and no worker is in
\* its task loop.
THEOREM MixAfterBarrier == Spec => []MixIsComplete
<1>1. IInv => MixIsComplete
    BY DEF IInv, Accounting, Quiescent, Contents, Reported, MixIsComplete,
           Handed, Stops, Idle, Popping
<1>2. QED
    BY <1>1, Invariance, PTL

\* No task is run twice, nor by two workers at once.
THEOREM ExactlyOnce == Spec => []TaskRunsOnce
<1>1. IInv => TaskRunsOnce
    BY DEF IInv, Contents
<1>2. QED
    BY <1>1, Invariance, PTL

\* The unversioned stack never suffers from ABA.
THEOREM NoABA == Spec => []NoStaleNext
<1>1. ASSUME IInv PROVE NoStaleNext
  <2> SUFFICES ASSUME NEW w \in Workers, wpc[w] = "cas", head = oldHead[w]
               PROVE  nxt[w] = node[head].next
      BY DEF NoStaleNext
  <2>1. IsList /\ Registers
      BY <1>1 DEF IInv, Contents
  <2>2. head # NULL
      BY <2>1 DEF Registers
  <2>3. head \in alloc
      BY <2>1, <2>2, ListHead DEF Linked
  <2>4. QED
      BY <2>1, <2>3 DEF Registers
<1>2. QED
    BY <1>1, Invariance, PTL

\* No node is deleted twice or read by its taker after deletion.
THEOREM NoDoubleDelete == Spec => []NodeDeletedOnce
<1>1. IInv => NodeDeletedOnce
    BY DEF IInv, Contents
<1>2. QED
    BY <1>1, Invariance, PTL

\* A batch starts with no post, node or report left over from the last one.
THEOREM CleanStart == Spec => []CleanBetweenBatches
<1>1. IInv => CleanBetweenBatches
    BY DEF IInv, Accounting, Quiescent, Contents, Reported,
           CleanBetweenBatches, Handed, Stops, Idle
<1>2. QED
    BY <1>1, Invariance, PTL

\* Every step of the pool is a step of TaskBatch or leaves it unchanged.
LEMMA StepRefines ==
  ASSUME IInv, [Next]_vars
  PROVE  [Batch!Next]_(Batch!vars)
<1> USE DEF IInv, Batch!Next, Batch!vars, mainVars, stackVars, workerVars,
            semVars, Phase
<1>1. ASSUME NEW t \in Tasks, AddTask(t) PROVE Batch!Gather(t)
    BY <1>1 DEF AddTask, Batch!Gather, Ran
<1>2. CASE WaitForTasks
    BY <1>2 DEF WaitForTasks, Batch!Start, Ran
<1>3. CASE PushLoad \/ PushCas \/ SetRequestCount
    BY <1>3 DEF PushLoad, PushCas, SetRequestCount, Ran
<1>4. CASE Wake
    BY <1>4 DEF Wake, Ran
<1>5. CASE WaitSema
  <2>1. Contents'
      BY <1>5, ContentsWaitSema
  <2>2. Ran' = Ran /\ Ran' = instruments'
      BY <1>5, <2>1 DEF WaitSema, Ran, Contents, Reported
  <2>3. Batch!Complete
      BY <1>5, <2>2 DEF WaitSema, Batch!Complete
  <2>4. QED
      BY <2>3
<1>6. CASE MixToBus
  <2>1. Ran' = {}
      BY <1>6 DEF MixToBus, Ran
  <2>2. Batch!Mix
      BY <1>6, <2>1 DEF MixToBus, Batch!Mix
  <2>3. QED
      BY <2>2
<1>7. CASE Destroy
    BY <1>7 DEF Destroy, Batch!Stop, Ran
<1>8. CASE StopThread \/ JoinThread
    BY <1>8 DEF StopThread, JoinThread, Ran
<1>9. ASSUME NEW w \in Workers, RunTask(w) PROVE Batch!Exec(task[w])
  <2>1. Ran' = Ran \cup {task[w]}
      BY <1>9, RanAfterRun
  <2>2. task[w] \in instruments \ Ran
      BY <1>9 DEF RunTask, Contents, TaskRunsOnce
  <2>3. mainPc \notin {"gather", "mix"} \cup Stops
      BY <1>9
      DEF RunTask, Accounting, Quiescent, Contents, Reported, Idle, Handed,
          Stops
  <2>4. Phase = "run" /\ Phase' = "run"
      BY <1>9, <2>3 DEF RunTask, TypeOK, MainPcs, Stops
  <2>5. QED
      BY <1>9, <2>1, <2>2, <2>4 DEF RunTask, Batch!Exec
<1>10. ASSUME NEW w \in Workers,
              SemaWait(w) \/ PopLoad(w) \/ PopReadNext(w) \/ PopCas(w)
                \/ PopRetry(w) \/ PopTake(w) \/ Notify(w) \/ PostWait(w)
                \/ LoopCheck(w)
       PROVE  UNCHANGED Batch!vars
    BY <1>10
    DEF SemaWait, PopLoad, PopReadNext, PopCas, PopRetry, PopTake, Notify,
        PostWait, LoopCheck, Ran
<1>11. CASE UNCHANGED vars
    BY <1>11 DEF vars, Ran
<1>12. \A w \in Workers : RunTask(w) => task[w] \in Tasks
    BY DEF RunTask, TypeOK, Contents, TaskRunsOnce
<1>13. QED
    BY <1>1, <1>2, <1>3, <1>4, <1>5, <1>6, <1>7, <1>8, <1>9, <1>10, <1>11,
       <1>12
    DEF Next, MainStep, WorkerStep, Destroyed

\* The lock-free pool implements the atomic batch (its safety part).
THEOREM Refinement == Spec => Batch!SafeSpec
<1>1. Init => Batch!Init
    BY DEF Init, Batch!Init, Phase, Ran
<1>2. IInv /\ [Next]_vars => [Batch!Next]_(Batch!vars)
    BY StepRefines
<1>3. QED
    BY <1>1, <1>2, Invariance, PTL DEF Spec, Batch!SafeSpec
=============================================================================
