SPECIFICATION FairSpec
CONSTANTS
  Autos = {a1, a2}
  Manual = {m1}
  Scheduler = sched
  Crons = {1, 2}
  MaxTime = 2
  MaxManual = 1
  MaxFaults = 1
  a1 = a1
  a2 = a2
  Bodies <- MCBodies
  Edited = {a1}
  Absent = Absent
  Deleted = Deleted
  Expired = Expired
  Null = Null
INVARIANT RunCountExact
PROPERTIES EditsKept DueTimeRunOnce DueIsServed
CHECK_DEADLOCK FALSE
