\* A song's artwork is replaced while it is being removed.
CONSTANTS
    NoRow = NoRow
    NoArt = NoArt
    ArtistIDs = {a1}
    Slugs = {x}
    SongSlugs <- TwoSongs
    Titles <- OneTitle
    Keys = {k1, k2}
    Requests = {r1, r2}
    Deleters = {d1}
SPECIFICATION Spec
PROPERTIES
    RemovesCurrentArtwork
\* Ids and keys are bounded.
CHECK_DEADLOCK FALSE
