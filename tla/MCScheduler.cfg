SPECIFICATION MCSpec
CONSTANTS
    RequestIds = {1, 2}
    Specs <- MCSpecs
    Tenants = {1, 2}
    weight <- MCWeight
    maximum_active_requests <- MCActive
    maximum_batch_sequences = 2
    maximum_prefill_tokens = 4
    maximum_decode_burst = 1
    Graphs <- MCGraphs
    CACHE_PAGE = 2
    routes <- MCRoutes
    MAX_ACTIVE_SEQUENCES = 2
    MAX_VERIFIER_ROWS = 6
    MAX_MTP_DEPTH = 2
    MAXIMUM_CONTEXT_TOKENS = 6
    MAXIMUM_PAYLOAD_BYTES = 24
    NONE = NONE
INVARIANTS
    InflightBatchIsServable
    PrefillIsBypassedBoundedly
PROPERTIES
    AdmittedRequestsEnd
