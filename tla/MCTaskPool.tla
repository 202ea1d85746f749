----------------------------- MODULE MCTaskPool -----------------------------
(* TaskPool with model values for the tasks and the addresses.             *)
EXTENDS TaskPool, TLC

CONSTANTS t1, t2, t3, n1, n2, n3

ThreeTasks == {t1, t2, t3}
ThreeNodes == {n1, n2, n3}

\* Task objects are interchangeable: a batch is added and pushed in one order.
Nth == t1 :> 1 @@ t2 :> 2 @@ t3 :> 3
InOrder(earlier, later) == \A t \in earlier, u \in later : Nth[t] < Nth[u]
TasksInOrder == /\ InOrder(instruments, Tasks \ instruments)
                /\ InOrder(instruments \ mTaskHead, mTaskHead)
=============================================================================
