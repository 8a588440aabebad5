SPECIFICATION FairSpec
CONSTANTS
  Threads = {w1, w2, w3}
  NumThreads = 3
  Tasks <- FourTasks
  Graphs <- DagsOfThreeAndDiamond
  RepeatCount <- TwoTriesForTheFirst
  MayFail <- FourTasks
  DoLog = FALSE
  MaxRuns = 1
  Nobody = Nobody
  NoItem = NoItem
INVARIANTS
  PredecessorsFirst
  NothingForgotten
  CountIsExact
PROPERTIES
  RunsAreAnswered
  WorkersGoHome
CHECK_DEADLOCK FALSE
