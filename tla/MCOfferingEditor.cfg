SPECIFICATION EditorSpec
CONSTANTS
    OfferingIds = {o1, o2}
    Keys = {k1, k2, k3}
    PublicationKeys = {p1, p2}
    Contents = {blank, x, y}
    Complete = {x, y}
    Blank = blank
    Others = {tab}
    Callers = {"Create", "Save", "Activate", "Pause", "Reactivate", "Update", tab}
    None = None
    MaxUnderway = 2
CONSTRAINTS FewUnderway SecondsAreEarly
SYMMETRY KeySymmetry
INVARIANTS
    EditorTypeOK
    PublishedIsComplete
    OneOfferingPerAttempt
    PublicAfterPublication
PROPERTIES
    ChangesUnderContract
    OneTransitionPerKey
CHECK_DEADLOCK FALSE
