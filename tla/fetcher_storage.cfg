\* Three albums in a cache of two, with the cache file, crashes and restarts.
SPECIFICATION Spec
CONSTANTS
    A = A
    B = B
    C = C
    None = None
    Request = {A, B, C}
    CacheKey = {A, B, C}
    Provider = {}
    ApiKey = {}
    KeyOf <- FullKeyOf
    ProviderOf <- FullProviderOf
    ApiKeyOf <- FullApiKeyOf
    Executable = {A, B, C}
    Wanted <- FullWanted
    PositiveLifetime = 1
    NegativeLifetime = 0
    Cooldown = 1
    MaxEntries = 2
    MaxGen = 3
    MaxTime = 2
ACTION_CONSTRAINT TrackStays
SYMMETRY Albums
INVARIANTS MapsAreBounded CachedUrlsAreRight
PROPERTIES NoCommitAfterFinalSave
CHECK_DEADLOCK FALSE
