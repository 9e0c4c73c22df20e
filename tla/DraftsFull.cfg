\* Batches of two items under four configurations; two quizzes and a request for
\* suggestions.
SPECIFICATION FairSpec
CONSTANTS
  i1 = i1
  i2 = i2
  q1 = q1
  q2 = q2
  b1 = b1
  b2 = b2
  Items = {i1, i2}
  Searchers = {i1, i2}
  Quizzes = {q1, q2}
  Gaps = {g1}
  Clients = {i1, i2, q1, q2, g1}
  LlmRetries = 1
  Domains = {"POLICY", "INCIDENT"}
  Docs <- MCDocs
  DatasetsOf <- MCDatasetsOf
  Batches <- MCBatches
  Settings <- MCSettings
  Workloads <- MCWorkloads
  BlocksOf <- MCBlocksOf
  Excluded <- MCExcluded
  Made <- MCMade
  NoBlock = NoBlock
  NoQuiz = NoQuiz
INVARIANTS PiiStopsDraft DraftStaysInDataset DeliveredIsChecked
PROPERTIES RequestsEnd
CHECK_DEADLOCK FALSE
