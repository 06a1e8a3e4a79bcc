\* The fallback chain over two tracks, with settings changes and quitting.
SPECIFICATION Spec
CONSTANTS
    None = None
    Request = {"upA", "mbA", "mbB"}
    CacheKey = {"catbox:A", "mb:A", "mb:B"}
    Provider = {"Catbox"}
    ApiKey = {}
    KeyOf <- ChainKeyOf
    ProviderOf <- ChainProviderOf
    ApiKeyOf <- ChainApiKeyOf
    Executable = {"upA", "mbA", "mbB"}
    Wanted <- ChainWanted
    PositiveLifetime = 0
    NegativeLifetime = 0
    Cooldown = 1
    MaxEntries = 3
    MaxGen = 3
    MaxTime = 2
ACTION_CONSTRAINTS OneProcess NoManualSave
INVARIANTS TypeOK PendingIsUnknown PendingIsServed FetchingIsPending StatusMatchesImage ChainIsExhausted
PROPERTIES NoStaleCommit EndedRequestIsRefreshed
CHECK_DEADLOCK FALSE
