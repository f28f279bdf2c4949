CONSTANTS
    Channels = {c, d}
    Media = {m1, m2, m3}
    Editors = {e}
    Null = Null
    Absent = Absent
    NoRequest = NoRequest
SYMMETRY MediaSymmetry
SPECIFICATION Spec
INVARIANT LineupTypeOK
INVARIANT ReportedIffRefused
PROPERTY EditsKeepChain
PROPERTY OrderChangesAsAsked
