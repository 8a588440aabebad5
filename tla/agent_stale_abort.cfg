SPECIFICATION Spec
CONSTANTS
  Threads = {w1, w2}
  NumThreads = 1
  Tasks <- TwoTasks
  Graphs <- DagsOfTwo
  RepeatCount <- OneTry
  MayFail <- TwoTasks
  DoLog = FALSE
  MaxRuns = 2
  Nobody = Nobody
  NoItem = NoItem
INVARIANT
  RaisedForItsOwnTasks
CHECK_DEADLOCK FALSE
