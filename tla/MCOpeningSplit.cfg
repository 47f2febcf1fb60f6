CONSTANTS
    none = none
    None = none
    Assets <- MCAssets
    Configs <- MCConfigs
    Playlist <- MCPlaylist
SPECIFICATION Spec
INVARIANTS SplitInferred
