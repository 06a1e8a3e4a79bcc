\* Two streams that look the same in Discord.
SPECIFICATION Spec
CONSTANTS
    None = None
    Track = {"stream1", "stream2"}
    Title = {"plain"}
    Plain = "plain"
    TextOf <- MCTextOf
    LengthOf <- MCLengthOf
    Image = {"icon", "art"}
    Token = {"app1", "app2"}
    MaxEpoch = 2
    MaxGeneration = 3
    MaxPosted = 1
INVARIANT HandleIsSaved
CHECK_DEADLOCK FALSE
