SPECIFICATION FairWatcherSpec
CONSTANTS
    left = left
    right = right
    Unwatched = Unwatched
    Packages = {left}
    MaxVersion = 2
    MaxTurns = 2
    MaxMoves = 2
    InitialRows <- AnyRow
    MaxAdds = 1
    Removals = TRUE
    RegistryFails = TRUE
    StoreFaults = TRUE
    MaxOutages = 1
INVARIANTS
    ReleasesAreWatched
    OneScanPerRelease
PROPERTIES
    ScannedOrRefused
