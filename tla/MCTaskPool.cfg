CONSTANTS
  RT_THREAD_COUNT = 2
  NULL = NULL
  t1 = t1  t2 = t2  t3 = t3
  n1 = n1  n2 = n2  n3 = n3
  Tasks <- ThreeTasks
  Nodes <- ThreeNodes
SPECIFICATION FairSpec
INVARIANTS TypeOK MixIsComplete TaskRunsOnce NoStaleNext NodeDeletedOnce
           CleanBetweenBatches
PROPERTIES BatchCompletes PoolShutsDown ImplementsTaskBatch
CONSTRAINT TasksInOrder
