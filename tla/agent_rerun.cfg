SPECIFICATION Spec
CONSTANTS
  Threads = {w1, w2, w3, w4}
  NumThreads = 2
  Tasks <- TwoTasks
  Graphs <- DagsOfTwo
  RepeatCount <- OneTry
  MayFail <- TwoTasks
  DoLog = TRUE
  MaxRuns = 2
  Nobody = Nobody
  NoItem = NoItem
SYMMETRY ThreadSymmetry
INVARIANTS
  TypeOK
  HandedOutOnce
  NormalReturn
PROPERTIES
  ImplementsTaskGraph
CHECK_DEADLOCK FALSE
