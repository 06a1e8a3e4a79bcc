\* MusicBrainz lookups and uploads that are answered, refused, repeated, skipped or aborted.
SPECIFICATION FairSpec
CONSTANTS
    Release = {"r1", "r2", "r3"}
    Canonical = {"r1", "r2"}
    Groups <- SmallGroups
    None = None
    MinInterval = 2
    MaxAttempts = 3
    Dimension = {0, 1, 2, 3, 5}
    MaxDimension = 4
INVARIANTS TypeOK MusicBrainzIsRight UploadIsRight
PROPERTIES RequestsArePaced ImplementsProviderLookup
CHECK_DEADLOCK TRUE
