SPECIFICATION FairSpec
CONSTANTS
    good = good
    deaf = deaf
    alien = alien
    Nothing = Nothing
    Images = {good, deaf, alien}
    Foreign = {alien}
    Corrupt = {}
    NoRender = {}
    NoNetwork = {deaf}
    NoStart = {}
    Chunks = 3
    HeaderChunks = 2
    MaxUpdates = 3
    MaxResets = 1
INVARIANTS
    FallbackIsProven
    ImageInPlace
    PageEndsWithUpdate
PROPERTIES
    TrialEnds
    PullSlotFreed
CHECK_DEADLOCK FALSE
