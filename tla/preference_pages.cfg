\* Two releases of the program, crashes, and the pages of Preferences.
SPECIFICATION Spec
CONSTANTS
    None = None
    Id = {"legacy", "default", "own"}
    Legacy = "legacy"
    Default = "default"
    Text = {"t1", "t2"}
INVARIANT ChoicesAreKept
PROPERTY LineFollows
ACTION_CONSTRAINT StoredBeforeEdits
CHECK_DEADLOCK TRUE
