CONSTANTS
    none = none
    None = none
    Assets <- MCAssets
    Configs <- MCConfigs
    Playlist <- MCPlaylist
SPECIFICATION FairSpec
INVARIANTS ProbesConfined HandlesReleased ProbedInOrder SameTargets PackageAccounted PlacesInOrder
PROPERTIES OpenReturns
