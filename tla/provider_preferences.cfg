\* Three keys, of which two are eligible, two client ids, two pin queries and
\* two sizes, of which one is valid.
SPECIFICATION Spec
CONSTANTS
    None = None
    A = A
    B = B
    X = X
    c = c
    d = d
    p = p
    q = q
    Key = {A, B, X}
    Eligible = {A, B}
    Client = {c, d}
    Pin = {p, q}
    Size = {0, 1}
    ValidSize = {1}
    DefaultPin = p
    DefaultSize = 1
SYMMETRY Interchangeable
CONSTRAINTS FewEdits OneIsCached
INVARIANTS SettingsAreUsable CacheMatchesSettings DialogIsRight
PROPERTIES KeyChangesAreAsked
CHECK_DEADLOCK FALSE
