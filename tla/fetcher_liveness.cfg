\* Two requests of one album that share an upload key, and TheAudioDB.
SPECIFICATION FairSpec
CONSTANTS
    None = None
    Request = {"up1", "up2", "tdA"}
    CacheKey = {"catbox:A", "tadb:A"}
    Provider = {"Catbox"}
    ApiKey = {"key"}
    KeyOf <- LiveKeyOf
    ProviderOf <- LiveProviderOf
    ApiKeyOf <- LiveApiKeyOf
    Executable = {"up1", "up2", "tdA"}
    Wanted <- LiveWanted
    PositiveLifetime = 1
    NegativeLifetime = 0
    Cooldown = 1
    MaxEntries = 2
    MaxGen = 2
    MaxTime = 2
ACTION_CONSTRAINTS OneProcess NoFile
PROPERTIES NothingHangs ResolvedIsShown
CHECK_DEADLOCK FALSE
