------------------------------ MODULE TaskPool ------------------------------
(***************************************************************************)
(* The multi-threaded task runner of the audio callback (MULTI_THREAD      *)
(* build, Linux): TaskManagerImpl, ThreadPool, TaskThread, RTSemaphore and *)
(* the lock-free TAtomicStack2 they share.                                 *)
(*                                                                         *)
(* One audio thread (pc `mainPc') collects the instruments that play on    *)
(* one bus into a batch, pushes a task for each onto the stack, wakes at   *)
(* most RT_THREAD_COUNT workers and blocks until the last of them reports  *)
(* that it found the stack empty; then it mixes what the workers left in   *)
(* their mix vectors.  Every load, CAS, semaphore operation and counter    *)
(* update is a step of its own.                                            *)
(*                                                                         *)
(* Abstracted: the linked list of added tasks is the set `mTaskHead' (no   *)
(* property depends on the order of the pushes); a task's run() is one     *)
(* step that leaves the task in the mix vector of its thread; a task       *)
(* object's identity may be reused once its batch is mixed; the memory     *)
(* order of the atomics is sequentially consistent.                        *)
(*                                                                         *)
(* An action named after another with a deviation (PopStore, NotifyEarly)  *)
(* is not part of Next: it is that action with a plausible bug, kept to    *)
(* show that the properties below would catch it.                          *)
(***************************************************************************)
EXTENDS Integers, FiniteSets

CONSTANTS RT_THREAD_COUNT,  \* number of worker threads of the pool
          Tasks,            \* task objects, one per instrument of a batch
          Nodes,            \* addresses malloc may hand to a stack Node
          NULL              \* the null pointer

ASSUME ThreadCountAssumption == RT_THREAD_COUNT \in Nat \ {0}
ASSUME NullAssumption == NULL \notin Nodes /\ NULL \notin Tasks
\* There is memory for a node per task: `new' does not fail.
ASSUME MemoryAssumption == /\ IsFiniteSet(Nodes)
                           /\ IsFiniteSet(Tasks)
                           /\ Cardinality(Tasks) <= Cardinality(Nodes)

Workers == 0 .. RT_THREAD_COUNT - 1

VARIABLES
  mainPc,         \* where the audio thread is
  instruments,    \* the instruments of the current batch (inTraverse's vector)
  mTaskHead,      \* tasks added and not yet pushed
  taskCount,      \* number of tasks pushed by this startAndWait
  newNode,        \* push_atomic's node
  threadIdx,      \* the `i' of the wake loop and of ~ThreadPool
  mRequestCount,  \* AtomicInt: woken workers that have not yet reported
  count,          \* ThreadPool::startAndWait's local copy of it
  mWaitSema,      \* semaphore the audio thread waits on
  head,           \* TAtomicStack2::head
  node,           \* memory: the data and next fields at each address
  alloc,          \* addresses allocated and not deleted
  wpc,            \* where each worker is
  mSema,          \* each worker's wake-up semaphore
  mStopping,      \* TaskThread::mStopping
  oldHead,        \* pop_atomic's local pointer
  nxt,            \* the oldHead->next it is about to compare-exchange in
  task,           \* the task a worker holds
  mixVectors      \* RTcmix::mixVectors: per worker, what it asked to be mixed

stackVars  == <<head, node, alloc>>
mainVars   == <<mainPc, instruments, mTaskHead, taskCount, newNode, threadIdx,
                count>>
workerVars == <<wpc, oldHead, nxt, task>>
semVars    == <<mRequestCount, mWaitSema, mSema, mStopping>>
vars == <<mainVars, stackVars, workerVars, semVars, mixVectors>>

Min2(a, b) == IF a < b THEN a ELSE b

-----------------------------------------------------------------------------
\* The workers are created, and sleep, before the first batch.
Init ==
  /\ mainPc = "gather"
  /\ instruments = {}
  /\ mTaskHead = {}
  /\ taskCount = 0
  /\ newNode = NULL
  /\ threadIdx = 0
  /\ mRequestCount = 0
  /\ count = 0
  /\ mWaitSema = 0
  /\ head = NULL
  /\ node = [n \in Nodes |-> [data |-> NULL, next |-> NULL]]
  /\ alloc = {}
  /\ wpc = [w \in Workers |-> "wait"]
  /\ mSema = [w \in Workers |-> 0]
  /\ mStopping = [w \in Workers |-> FALSE]
  /\ oldHead = [w \in Workers |-> NULL]
  /\ nxt = [w \in Workers |-> NULL]
  /\ task = [w \in Workers |-> NULL]
  /\ mixVectors = [w \in Workers |-> {}]

-----------------------------------------------------------------------------
(* The audio thread: inTraverse, TaskManagerImpl and ThreadPool.           *)

\* instruments.push_back(Iptr); taskManager->addTask(...)
AddTask(t) ==
  /\ mainPc = "gather"
  /\ t \notin instruments
  /\ instruments' = instruments \cup {t}
  /\ mTaskHead' = mTaskHead \cup {t}
  /\ UNCHANGED <<mainPc, taskCount, newNode, threadIdx, count, stackVars,
                 workerVars, semVars, mixVectors>>

\* waitForTasks is called only for a batch with an instrument in it.
WaitForTasks ==
  /\ mainPc = "gather"
  /\ instruments # {}
  /\ mainPc' = "push"
  /\ taskCount' = 0
  /\ UNCHANGED <<instruments, mTaskHead, newNode, threadIdx, count, stackVars,
                 workerVars, semVars, mixVectors>>

\* push_atomic: allocate a node anywhere free and load the head into its next.
PushLoad ==
  /\ mainPc = "push"
  /\ \E t \in mTaskHead, n \in Nodes \ alloc :
       /\ newNode' = n
       /\ alloc' = alloc \cup {n}
       /\ node' = [node EXCEPT ![n] = [data |-> t, next |-> head]]
       /\ mTaskHead' = mTaskHead \ {t}
  /\ taskCount' = taskCount + 1
  /\ mainPc' = "pushCas"
  /\ UNCHANGED <<instruments, threadIdx, count, head, workerVars, semVars,
                 mixVectors>>

\* compare_exchange_weak(newNode->next, newNode): publish the node, or reload.
PushCas ==
  /\ mainPc = "pushCas"
  /\ \/ /\ head = node[newNode].next
        /\ head' = newNode
        /\ mainPc' = "push"
        /\ UNCHANGED node
     \/ /\ node' = [node EXCEPT ![newNode].next = head]
        /\ UNCHANGED <<head, mainPc>>
  /\ UNCHANGED <<instruments, mTaskHead, taskCount, newNode, threadIdx, count,
                 alloc, workerVars, semVars, mixVectors>>

\* mRequestCount = min(taskCount, RT_THREAD_COUNT), and its local copy.
SetRequestCount ==
  /\ mainPc = "push"
  /\ mTaskHead = {}
  /\ mRequestCount' = Min2(taskCount, RT_THREAD_COUNT)
  /\ count' = Min2(taskCount, RT_THREAD_COUNT)
  /\ threadIdx' = 0
  /\ mainPc' = "wake"
  /\ UNCHANGED <<instruments, mTaskHead, taskCount, newNode, mWaitSema, mSema,
                 mStopping, stackVars, workerVars, mixVectors>>

\* mThreads[i]->wake()
Wake ==
  /\ mainPc = "wake"
  /\ threadIdx < count
  /\ mSema' = [mSema EXCEPT ![threadIdx] = @ + 1]
  /\ threadIdx' = threadIdx + 1
  /\ mainPc' = IF threadIdx + 1 < count THEN "wake" ELSE "waitAll"
  /\ UNCHANGED <<instruments, mTaskHead, taskCount, newNode, count,
                 mRequestCount, mWaitSema, mStopping, stackVars, workerVars,
                 mixVectors>>

\* mWaitSema.wait() returns.
WaitSema ==
  /\ mainPc = "waitAll"
  /\ mWaitSema > 0
  /\ mWaitSema' = mWaitSema - 1
  /\ mainPc' = "mix"
  /\ UNCHANGED <<instruments, mTaskHead, taskCount, newNode, threadIdx, count,
                 mRequestCount, mSema, mStopping, stackVars, workerVars,
                 mixVectors>>

\* mixToBus, then the requeueing loop of inTraverse clears the batch.
MixToBus ==
  /\ mainPc = "mix"
  /\ mixVectors' = [w \in Workers |-> {}]
  /\ instruments' = {}
  /\ mainPc' = "gather"
  /\ UNCHANGED <<mTaskHead, taskCount, newNode, threadIdx, count, stackVars,
                 workerVars, semVars>>

\* delete taskManager, once no callback runs: ~ThreadPool deletes the workers.
Destroy ==
  /\ mainPc = "gather"
  /\ instruments = {}
  /\ threadIdx' = 0
  /\ mainPc' = "stop"
  /\ UNCHANGED <<instruments, mTaskHead, taskCount, newNode, count, stackVars,
                 workerVars, semVars, mixVectors>>

\* ~TaskThread: mStopping = true; wake()
StopThread ==
  /\ mainPc = "stop"
  /\ threadIdx < RT_THREAD_COUNT
  /\ mStopping' = [mStopping EXCEPT ![threadIdx] = TRUE]
  /\ mSema' = [mSema EXCEPT ![threadIdx] = @ + 1]
  /\ mainPc' = "join"
  /\ UNCHANGED <<instruments, mTaskHead, taskCount, newNode, threadIdx, count,
                 mRequestCount, mWaitSema, stackVars, workerVars, mixVectors>>

\* ~RTThread: pthread_join
JoinThread ==
  /\ mainPc = "join"
  /\ wpc[threadIdx] = "exited"
  /\ threadIdx' = threadIdx + 1
  /\ mainPc' = IF threadIdx + 1 < RT_THREAD_COUNT THEN "stop" ELSE "destroyed"
  /\ UNCHANGED <<instruments, mTaskHead, taskCount, newNode, count, stackVars,
                 workerVars, semVars, mixVectors>>

\* Nothing is left to run.
Destroyed ==
  /\ mainPc = "destroyed"
  /\ UNCHANGED vars

-----------------------------------------------------------------------------
(* A worker: TaskThread::run and pop_atomic.                               *)

\* SemaWait, but an interrupted wait, which takes no post, is taken for one that does.
SemaWaitInterrupted(w) ==
  /\ wpc[w] = "wait"
  /\ wpc' = [wpc EXCEPT ![w] = "load"]
  /\ UNCHANGED <<mainVars, stackVars, oldHead, nxt, task, semVars, mixVectors>>

\* mSema.wait() returns.
SemaWait(w) ==
  /\ wpc[w] = "wait"
  /\ mSema[w] > 0
  /\ mSema' = [mSema EXCEPT ![w] = @ - 1]
  /\ wpc' = [wpc EXCEPT ![w] = "load"]
  /\ UNCHANGED <<mainVars, stackVars, oldHead, nxt, task, mRequestCount,
                 mWaitSema, mStopping, mixVectors>>

\* PopLoad, but an empty stack is polled until it has a task.
PopLoadSpinning(w) ==
  /\ wpc[w] = "load"
  /\ oldHead' = [oldHead EXCEPT ![w] = head]
  /\ wpc' = [wpc EXCEPT ![w] = IF head = NULL THEN "load" ELSE "next"]
  /\ UNCHANGED <<mainVars, stackVars, nxt, task, semVars, mixVectors>>

\* oldHead = head.load(); a null head ends the task loop.
PopLoad(w) ==
  /\ wpc[w] = "load"
  /\ oldHead' = [oldHead EXCEPT ![w] = head]
  /\ wpc' = [wpc EXCEPT ![w] = IF head = NULL THEN "notify" ELSE "next"]
  /\ UNCHANGED <<mainVars, stackVars, nxt, task, semVars, mixVectors>>

\* Read oldHead->next.  Another worker may have deleted the node meanwhile:
\* the read then returns anything.
PopReadNext(w) ==
  /\ wpc[w] = "next"
  /\ \E n \in IF oldHead[w] \in alloc THEN {node[oldHead[w]].next}
                                       ELSE Nodes \cup {NULL} :
       nxt' = [nxt EXCEPT ![w] = n]
  /\ wpc' = [wpc EXCEPT ![w] = "cas"]
  /\ UNCHANGED <<mainVars, stackVars, oldHead, task, semVars, mixVectors>>

\* PopCas, but with a plain store for the compare-exchange.
PopStore(w) ==
  /\ wpc[w] = "cas"
  /\ head' = nxt[w]
  /\ wpc' = [wpc EXCEPT ![w] = "take"]
  /\ UNCHANGED <<mainVars, node, alloc, oldHead, nxt, task, semVars,
                 mixVectors>>

\* compare_exchange_weak succeeds: the head moves to the next that was read.
PopCas(w) ==
  /\ wpc[w] = "cas"
  /\ head = oldHead[w]
  /\ head' = nxt[w]
  /\ wpc' = [wpc EXCEPT ![w] = "take"]
  /\ UNCHANGED <<mainVars, node, alloc, oldHead, nxt, task, semVars,
                 mixVectors>>

\* compare_exchange_weak fails, perhaps spuriously, and reloads oldHead.
PopRetry(w) ==
  /\ wpc[w] = "cas"
  /\ oldHead' = [oldHead EXCEPT ![w] = head]
  /\ wpc' = [wpc EXCEPT ![w] = IF head = NULL THEN "notify" ELSE "next"]
  /\ UNCHANGED <<mainVars, stackVars, nxt, task, semVars, mixVectors>>

\* value = oldHead->data; delete oldHead
PopTake(w) ==
  /\ wpc[w] = "take"
  /\ task' = [task EXCEPT ![w] = node[oldHead[w]].data]
  /\ alloc' = alloc \ {oldHead[w]}
  /\ wpc' = [wpc EXCEPT ![w] = "run"]
  /\ UNCHANGED <<mainVars, head, node, oldHead, nxt, semVars, mixVectors>>

\* task->run(): Instrument::exec ends in addToBus on this thread's vector.
RunTask(w) ==
  /\ wpc[w] = "run"
  /\ mixVectors' = [mixVectors EXCEPT ![w] = @ \cup {task[w]}]
  /\ task' = [task EXCEPT ![w] = NULL]
  /\ wpc' = [wpc EXCEPT ![w] = "load"]
  /\ UNCHANGED <<mainVars, stackVars, oldHead, nxt, semVars>>

\* Notify, but the last worker but one is taken for the last.
NotifyEarly(w) ==
  /\ wpc[w] = "notify"
  /\ mRequestCount' = mRequestCount - 1
  /\ wpc' = [wpc EXCEPT ![w] = IF mRequestCount - 1 <= 1 THEN "post" ELSE "check"]
  /\ UNCHANGED <<mainVars, stackVars, oldHead, nxt, task, mWaitSema, mSema,
                 mStopping, mixVectors>>

\* notify(): mRequestCount.decrementAndTest()
Notify(w) ==
  /\ wpc[w] = "notify"
  /\ mRequestCount' = mRequestCount - 1
  /\ wpc' = [wpc EXCEPT ![w] = IF mRequestCount - 1 = 0 THEN "post" ELSE "check"]
  /\ UNCHANGED <<mainVars, stackVars, oldHead, nxt, task, mWaitSema, mSema,
                 mStopping, mixVectors>>

\* mWaitSema.post()
PostWait(w) ==
  /\ wpc[w] = "post"
  /\ mWaitSema' = mWaitSema + 1
  /\ wpc' = [wpc EXCEPT ![w] = "check"]
  /\ UNCHANGED <<mainVars, stackVars, oldHead, nxt, task, mRequestCount, mSema,
                 mStopping, mixVectors>>

\* while (!mStopping)
LoopCheck(w) ==
  /\ wpc[w] = "check"
  /\ wpc' = [wpc EXCEPT ![w] = IF mStopping[w] THEN "exited" ELSE "wait"]
  /\ UNCHANGED <<mainVars, stackVars, oldHead, nxt, task, semVars, mixVectors>>

-----------------------------------------------------------------------------
MainStep ==
  \/ WaitForTasks \/ PushLoad \/ PushCas \/ SetRequestCount
  \/ Wake \/ WaitSema \/ MixToBus
  \/ Destroy \/ StopThread \/ JoinThread \/ Destroyed
  \/ \E t \in Tasks : AddTask(t)

WorkerStep(w) ==
  \/ SemaWait(w) \/ PopLoad(w) \/ PopReadNext(w) \/ PopCas(w) \/ PopRetry(w)
  \/ PopTake(w) \/ RunTask(w) \/ Notify(w) \/ PostWait(w) \/ LoopCheck(w)

Next == MainStep \/ \E w \in Workers : WorkerStep(w)

Spec == Init /\ [][Next]_vars

-----------------------------------------------------------------------------
(* Fairness: the audio thread runs on once it has a batch (only gathering  *)
(* and the decision to shut down are left to its caller), the scheduler    *)
(* runs every runnable worker, and a worker that keeps arriving at its     *)
(* compare-exchange with the head unchanged does not fail spuriously for   *)
(* ever.                                                                   *)
MainProgress ==
  \/ WaitForTasks \/ PushLoad \/ PushCas \/ SetRequestCount
  \/ Wake \/ WaitSema \/ MixToBus \/ StopThread \/ JoinThread

FairSpec ==
  /\ Spec
  /\ WF_vars(MainProgress)
  /\ \A w \in Workers : WF_vars(WorkerStep(w)) /\ SF_vars(PopCas(w))

-----------------------------------------------------------------------------
(* Properties.                                                             *)

MainPcs == {"gather", "push", "pushCas", "wake", "waitAll", "mix", "stop",
            "join", "destroyed"}
WorkerPcs == {"wait", "load", "next", "cas", "take", "run", "notify", "post",
              "check", "exited"}

\* Every variable has its type; in particular no semaphore ever holds two posts, from a
\* batch's wake-ups and reports or from the destructor, so that none is left over.
TypeOK ==
  /\ mainPc \in MainPcs
  /\ instruments \subseteq Tasks
  /\ mTaskHead \subseteq Tasks
  /\ taskCount \in Nat
  /\ newNode \in Nodes \cup {NULL}
  /\ threadIdx \in Nat
  /\ mRequestCount \in Int
  /\ count \in Nat
  /\ mWaitSema \in {0, 1}
  /\ head \in Nodes \cup {NULL}
  /\ node \in [Nodes -> [data : Tasks \cup {NULL}, next : Nodes \cup {NULL}]]
  /\ alloc \subseteq Nodes
  /\ wpc \in [Workers -> WorkerPcs]
  /\ mSema \in [Workers -> {0, 1}]
  /\ mStopping \in [Workers -> BOOLEAN]
  /\ oldHead \in [Workers -> Nodes \cup {NULL}]
  /\ nxt \in [Workers -> Nodes \cup {NULL}]
  /\ task \in [Workers -> Tasks \cup {NULL}]
  /\ mixVectors \in [Workers -> SUBSET Tasks]

Ran == UNION {mixVectors[w] : w \in Workers}

\* Inside pop_atomic, or with a task in hand.
Popping == {"load", "next", "cas", "take", "run"}

\* mixToBus reads every thread's vector without a lock and empties it: when
\* the audio thread gets there, every task of the batch has run, and no worker
\* is popping or running.
MixIsComplete ==
  mainPc = "mix" => /\ Ran = instruments
                    /\ \A w \in Workers : wpc[w] \notin Popping

\* A task a worker is about to run is one of the batch, has not run, and is in
\* no other worker's hand: an instrument is never executed twice for one bus.
TaskRunsOnce ==
  \A w \in Workers : wpc[w] = "run" =>
    /\ task[w] \in instruments \ Ran
    /\ \A v \in Workers \ {w} : wpc[v] = "run" => task[v] # task[w]

\* The stack has no version counter: pop_atomic is free of the ABA problem only
\* because nothing is pushed while a worker pops.  A compare-exchange that can
\* succeed always holds the true successor of the head.
NoStaleNext ==
  \A w \in Workers :
    wpc[w] = "cas" /\ head = oldHead[w] => nxt[w] = node[head].next

\* A node is read and deleted by the one worker that unlinked it.
NodeDeletedOnce ==
  \A w \in Workers : wpc[w] = "take" =>
    /\ oldHead[w] \in alloc
    /\ \A v \in Workers \ {w} : wpc[v] = "take" => oldHead[v] # oldHead[w]

\* Between batches no semaphore carries a stale post, no node is left, and no
\* worker owes a report: a left-over post would let the next batch be mixed
\* before it has run.
CleanBetweenBatches ==
  mainPc = "gather" =>
    /\ mWaitSema = 0
    /\ head = NULL /\ alloc = {}
    /\ \A w \in Workers : mSema[w] = 0 /\ wpc[w] \in {"wait", "check"}

\* The audio thread is always released: a batch that was handed over is mixed.
BatchCompletes == (mainPc = "push") ~> (mainPc = "mix")

\* ~TaskManager always joins all its threads.
PoolShutsDown == (mainPc = "stop") ~> (mainPc = "destroyed")

\* What the pool promises inTraverse: TaskBatch.
Phase == CASE mainPc = "gather" -> "gather"
           [] mainPc \in {"push", "pushCas", "wake", "waitAll"} -> "run"
           [] mainPc = "mix" -> "mix"
           [] OTHER -> "stopped"

Batch == INSTANCE TaskBatch WITH phase <- Phase, batch <- instruments,
                                 done <- Ran

\* The pool implements TaskBatch, its liveness included.
ImplementsTaskBatch == Batch!Spec
=============================================================================
