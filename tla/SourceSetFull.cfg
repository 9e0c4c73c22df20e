\* Two sets that share a document; the callbacks arrive and nothing restarts.
SPECIFICATION FairSpec
CONSTANTS
  s1 = s1
  s2 = s2
  d1 = d1
  d2 = d2
  NoDoc = NoDoc
  Sets = {s1, s2}
  Docs = {d1, d2}
  DocsOf <- Shared
  NChunks = 3
  PageSize = 2
  MaxRead = 1
  MaxPolls = 2
  Scenes = 2
  UseMilvus = TRUE
  Faults = {"documents", "milvus", "ragflow", "parse", "save", "llm"}
INVARIANTS
  ChunksComplete
  PatchesInScript
PROPERTIES
  ImplementsLifecycle
CHECK_DEADLOCK FALSE
