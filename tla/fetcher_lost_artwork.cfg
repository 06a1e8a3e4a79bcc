\* Two tracks of one album share the cache key of their upload.
SPECIFICATION Spec
CONSTANTS
    None = None
    Request = {"up1", "up2"}
    CacheKey = {"catbox:A"}
    Provider = {"Catbox"}
    ApiKey = {}
    KeyOf <- SharedKeyOf
    ProviderOf <- SharedProviderOf
    ApiKeyOf <- SharedApiKeyOf
    Executable = {"up1", "up2"}
    Wanted <- SharedWanted
    PositiveLifetime = 1
    NegativeLifetime = 0
    Cooldown = 1
    MaxEntries = 1
    MaxGen = 4
    MaxTime = 2
ACTION_CONSTRAINTS OneProcess
INVARIANT NoLostArtwork
CHECK_DEADLOCK FALSE
