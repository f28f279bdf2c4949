SPECIFICATION Spec
CONSTANTS
    a = a
    b = b
    p1 = p1
    p2 = p2
    Media = {a, b}
    Profiles = {p1, p2}
    Packages <- MCPackages
    Required = p1
    Played <- MCPlayed
    Ladder <- MCLadder
    Cuts <- MCCuts
    Shapes <- MCShapes
    Grid = 2
    Ahead = 3
    Limit = 3
    Lag = 1
    Warmup = 0
    Coverage = 0
    Patience = 1
    Retention = 1
    MaxEntries <- MCMaxEntries
    MaxEncodings = 2
    Horizon <- MCHorizon
    Tracks <- MCTracks
    NoSidecar = NoSidecar
    Burned <- MCBurned
INVARIANTS
    SubtitlesInStep
