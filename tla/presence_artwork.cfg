\* A stream with two titles and a file, the worker, and the policy.
SPECIFICATION Spec
CONSTANTS
    None = None
    Icon = "icon"
    Track = {"stream", "file"}
    Title = {"plain", "live"}
    Plain = "plain"
    TextOf <- MCTextOf
    LengthOf <- MCLengthOf
    ListOf <- MCListOf
    Token = {"app"}
    MaxEpoch = 2
    MaxGeneration = 1
    Request = {"mbPlain", "mbLive", "upFile"}
    CacheKey = {"mbPlain", "mbLive", "upFile"}
    KeyOf <- MCKeyOf
    MaxEntries = 3
    MaxGen = 3
    Cooldown = 1
INVARIANTS ArtworkIsRight StatusMatchesPresence PolicyIsObeyed
CONSTRAINT SmallStates
CHECK_DEADLOCK FALSE
