\* Two song requests, a visitor and crashes, with the search for a free slug.
CONSTANTS
    NoRow = NoRow
    NoArt = NoArt
    ArtistIDs = {a1}
    Slugs = {x}
    SongSlugs <- TwoSongs
    Titles <- OneTitle
    Keys = {k1}
    Requests = {r1, r2}
    Deleters = {d1}
    Visitors = {v1}
SPECIFICATION FilesSpec
INVARIANTS
    ServedFilesAreWhole
    MissingOnlyOnOldPages
    NoFileForgotten
PROPERTY RequestsEnd
\* Ids and keys are bounded.
CHECK_DEADLOCK FALSE
