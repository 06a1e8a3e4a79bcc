\* A stream with dynamic titles and a file; Discord starts, stops and restarts.
SPECIFICATION FairSpec
CONSTANTS
    None = None
    Track = {"stream", "file"}
    Title = {"plain", "live"}
    Plain = "plain"
    TextOf <- MCTextOf
    LengthOf <- MCLengthOf
    Image = {"icon"}
    Token = {"app1", "app2"}
    MaxEpoch = 2
    MaxGeneration = 3
    MaxPosted = 1
INVARIANTS TypeOK PresenceFollowsPlayback LastSentIsData TextIsFresh PlaybackStateIsShown OnePump
PROPERTIES DiscordFollows
CHECK_DEADLOCK FALSE
