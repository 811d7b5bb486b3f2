SPECIFICATION FairSpec
CONSTANTS
  NPTENTRIES = 1024
  NPDENTRIES = 1024
  KERNBASE = 983040
  TEXT = 256
  STACK = 263
  PGDIR = 271
  PGTABLE = 272
  BSS = {273, 274}
  Messages = {m1, m2}
  MaxPanics = 3
  MaxWarns = 2
  NULL = NULL
INVARIANTS TypeOK AccessesAreRight MemoryIsRight PanicReportedOnce
PROPERTY MonitorReached
