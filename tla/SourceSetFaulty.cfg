\* One set with a document and one without: late and lost callbacks, restarts,
\* starts after failures.
SPECIFICATION Spec
CONSTANTS
  s1 = s1
  s2 = s2
  d1 = d1
  d2 = d2
  NoDoc = NoDoc
  Sets = {s1, s2}
  Docs = {d1}
  DocsOf <- OneEmpty
  NChunks = 2
  PageSize = 1
  MaxRead = 1
  MaxPolls = 1
  Scenes = 1
  UseMilvus = TRUE
  Faults = {"milvus", "emptyPage", "save", "outline", "lost", "late", "retry", "restart"}
INVARIANTS
  ReadyIsBacked
