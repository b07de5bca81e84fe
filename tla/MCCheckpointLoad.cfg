SPECIFICATION MCSpec
CONSTANTS
    Ranks = {r0, r1}
    Plans = {p}
    MaxAttempts = 2
    Faults = {"rank", "evidence", "stale", "timeout"}
    NONE = NONE
    TP_DEGREE = 2
    FIRST_EXPERT_LAYER = 1
    LAST_LAYER = 2
    EXPERTS = 1
    FULL_INDEXER_LAYERS = {0}
    Extent <- MCExtent
    TILE = 2
    TILE_WORDS = 3
    OPEN_WORKERS = 2
    Defects = {"none", "missing", "total_size", "unindexed", "shape", "dtype", "gap", "overlap",
               "length", "digest", "manifest", "readme", "marker"}
    MaxChanges = 1
    Listed <- MCListed
INVARIANTS
    SlicesAreThePinnedOnes
    PublishedSetIsComplete
    ConversionResumes
    RankFilesAreExact
    PermitsAreOfThisAttempt
    UploadIsExact
    VerifiedIsWhatWasWritten
    ReleasedExactly
PROPERTIES
    AdoptionIsAtomic
CHECK_DEADLOCK FALSE
