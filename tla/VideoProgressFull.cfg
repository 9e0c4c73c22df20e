\* One user, a training and its reissue, which has a mandatory prefix.
SPECIFICATION Spec
CONSTANTS
  ann = ann
  Pairs <- MCPairs
  Trainings = {last, this}
  last = last
  this = this
  Prefixed = {this}
  ReissueOf <- MCReissueOf
  Durations = {1, 2}
  Seconds = {0, 1, 2, 3}
  Rates = {100, 150}
  Grace = 1
  MaxClock = 3
INVARIANTS QuizNeedsCompletion FirstWatchIsTrue CompletedIsWatched
PROPERTIES ProgressOnlyStartsOver
CHECK_DEADLOCK FALSE
