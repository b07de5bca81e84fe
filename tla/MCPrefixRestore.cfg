SPECIFICATION Spec
CONSTANTS
  a = a
  b = b
  NONE = NONE
  PageKeys <- MCPageKeys
  Records <- MCRecords
  Prompts <- MCPrompts
  Batches <- MCBatches
  Catalogs <- MCCatalogs
  q1 = q1
  q2 = q2
  RequestIds = {q1, q2}
  HbmBytes = 2
  DramBytes = 1
  TargetBytes = 1
  DraftBytes = 1
  MaximumOutstanding = 1
SYMMETRY Requests
INVARIANTS
    RequestsOwnWhatTheyHold
    LeasedPagesStayInHbm
    ResourcesAreAccountedFor
