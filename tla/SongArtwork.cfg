\* Two song requests in flight, each of whose steps may fail, while a third
\* request deletes their artist and another artist follows under its slug.
CONSTANTS
    NoRow = NoRow
    NoArt = NoArt
    ArtistIDs = {a1, a2}
    Slugs = {x}
    SongSlugs <- OneSong
    Titles <- OneAttempt
    Keys = {k1, k2}
    Requests = {r1, r2}
    Deleters = {d1}
SPECIFICATION Spec
SYMMETRY DataSymmetry
INVARIANTS
    ArtworkStaysWithItsSong
    RequestsRemoveOwnArtwork
    CleanupSparesTheLiving
    ShownArtworkExists
    NoFileForgotten
\* Ids and keys are bounded.
CHECK_DEADLOCK FALSE
