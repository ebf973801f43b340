SPECIFICATION Spec
CONSTANTS
  Threads = {"t1", "t2"}
  Service <- TwoServices
  Dirs = 1
  Layouts <- BothFiles
  MaxSteps = 4
INVARIANT
  FindsOwnFile
