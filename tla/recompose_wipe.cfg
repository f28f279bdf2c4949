CONSTANTS
    a = a
    b = b
    promo = promo
    Media = {a, b}
    Filler <- TheFiller
    Duration <- TheDurations
    InitialLineup <- TheLineup
    SlotLength = 2
    Horizon = 6
    LowWater = 2
    NoEntry = NoEntry
    NoMedia = NoMedia
    Editors = {e}
    NoRequest = NoRequest
    Unsteady = {b, promo}
    StartTime = 1
    MaxTime = 2
    MaxEnd = 3
    MaxEdits = 1
    MaxDraft = 1
    Layouts = {}
    Overlapping = FALSE
    Overlong = FALSE
SPECIFICATION Spec
PROPERTY NeverWiped
CHECK_DEADLOCK FALSE
