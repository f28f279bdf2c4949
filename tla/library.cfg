SPECIFICATION LibrarySpec
CONSTANTS
    Files <- MCFiles
    Content <- MCContent
    Paths = {"film.mkv", "film.mp4"}
    FirstPath = "film.mkv"
    Profiles = {"shipped", "mine"}
    Custom = {"mine"}
    Initial <- Burning
    Editions = {"stray", "hdr", "english"}
    Settings <- MCSettings
    Required = "mine"
    Default = "shipped"
    Ladder <- NoLadder
    Prefs = {"fre"}
    ImportAlone = TRUE
    AskedFor = {"mine"}
    MaxMoves = 2
    MaxChanges = 2
INVARIANTS LibraryTypeOK ForcedOnce RangeTold WholeWhenReady UnsupportedAgrees
\* Once nobody changes anything any more, an empty library stays as it is.
CHECK_DEADLOCK FALSE
