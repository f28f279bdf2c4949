CONSTANTS
    a = a
    b = b
    promo = promo
    Media = {a, b}
    Filler <- TheFiller
    Duration <- TheDurations
    InitialLineup <- TheLineup
    SlotLength = 2
    Horizon = 3
    LowWater = 2
    NoEntry = NoEntry
    NoMedia = NoMedia
    Editors = {e}
    NoRequest = NoRequest
    Unsteady = {b, promo}
    StartTime = 1
    MaxTime = 2
    MaxEnd = 3
    MaxEdits = 2
    MaxDraft = 1
    Layouts <- TheLayouts
    Overlapping = FALSE
    Overlong = FALSE
SPECIFICATION Spec
INVARIANT ScheduleTypeOK
INVARIANT ChainFollowsTime
INVARIANT NoScheduleIssue
INVARIANT InRotation
INVARIANT OnePassFromAir
PROPERTY ExtensionGapFree
CHECK_DEADLOCK FALSE
