\* A prompt RAGFlow, and one with every fault but a lost PATCH; a cache of one
\* entry for two documents.
SPECIFICATION FairSpec
CONSTANTS
  Docs = {d1, d2}
  Versions = {1}
  Slots = {c1, c2}
  PTTL = 1
  CTTL = 2
  MaxSize = 1
  FaultSets <- PromptOrFaulty
INVARIANTS SingleIngest ProcessingHasOwner OutcomeOnItsWay
PROPERTIES ProcessingExpires
