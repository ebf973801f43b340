SPECIFICATION FairSpec
CONSTANTS
  Threads = {"t1", "t2"}
  Service <- OneService
  Dirs = 2
  Layouts <- AllLayouts
  MaxSteps = 4
INVARIANTS
  TypeOK
  FindsOwnFile
  NothingStale
  OneLoads
PROPERTY
  StepsEnd
