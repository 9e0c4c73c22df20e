\* A failed set is started again.
SPECIFICATION Spec
CONSTANTS
  s1 = s1
  s2 = s2
  d1 = d1
  d2 = d2
  NoDoc = NoDoc
  Sets = {s1}
  Docs = {d1}
  DocsOf <- Single
  NChunks = 2
  PageSize = 1
  MaxRead = 2
  MaxPolls = 1
  Scenes = 2
  UseMilvus = TRUE
  Faults = {"documents", "retry"}
INVARIANTS
  LockedIsRunning
CHECK_DEADLOCK FALSE
