SPECIFICATION Spec
CONSTANTS
    TP_RANKS = 2
    PAGE_TOKENS = 2
    MAXIMUM_CONTEXT_TOKENS = 6
    MAXIMUM_TENTATIVE = 3
    target_pages_per_rank = 2
    draft_pages_per_rank = 1
    SequenceIds = {1, 2}
    Attachments <- MCAttachments
    Generations = {1}
    NONE = NONE
    k0 = k0
    k1 = k1
    x = x
    y = y
INVARIANTS
    TypeOK
    TargetSlotsArePartitioned
    ReferencesCountHolders
    WritablePagesAreExclusive
    SequencesCanAlwaysSettle
PROPERTIES
    SlotsReturnOnlyByAcknowledgement
