\* Four tasks, two of them heavy, a fast slot and a heavy one, one silent
\* thread and one that cannot be made.
SPECIFICATION FairSpec
CONSTANTS
  Tasks = {s1, s2, h1, h2}
  Heavy = {h1, h2}
  MaxFast = 1
  MaxHeavy = 1
  MaxSilent = 1
  MaxThrows = 1
INVARIANTS
  CountersCountThreads
  NoIdleSlot
PROPERTIES
  TasksSettle
CHECK_DEADLOCK FALSE
