SPECIFICATION Spec
CONSTANTS
    TP_RANKS = 2
    PAGE_TOKENS = 2
    MAXIMUM_CONTEXT_TOKENS = 6
    MAXIMUM_TENTATIVE = 3
    target_pages_per_rank = 3
    draft_pages_per_rank = 2
    Attachments <- MCAttachments
    MAXIMUM_DELTA_SEQUENCES = 3
    RequestIds = {1, 2, 3}
    Specs <- MCSpecs
    Tenants = {1}
    weight <- MCWeight
    maximum_active_requests <- MCActive
    maximum_batch_sequences = 2
    maximum_prefill_tokens = 3
    maximum_decode_burst = 1
    Graphs <- MCGraphs
    event_capacity = 6
    MAXIMUM_STEP_EVENTS = 6
    maximum_retained_prompt_bytes = 8
    epoch = 1
    routes <- MCRoutes
    MAXIMUM_PAYLOAD_BYTES = 64
    NONE = NONE
    k0 = k0
    x = x
    y = y
CHECK_DEADLOCK FALSE
INVARIANTS
    RanksFollowHost
    DeltasFit
    NothingLeaks
    EventsTellWhatHappened
